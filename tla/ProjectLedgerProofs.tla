-------------------------- MODULE ProjectLedgerProofs --------------------------
(***************************************************************************)
(* What the ledger's tables go through, for any number of projects,        *)
(* payments, amounts and requests in flight: they follow LedgerBooks, a    *)
(* deleted project is frozen, and statuses move along the matrix.          *)
(*                                                                         *)
(* Row locks play no part in these: a request that commits changes only    *)
(* the rows of its own input, and what its input says of these rows stays  *)
(* true while others commit.  That is the inductive invariant.             *)
(***************************************************************************)
EXTENDS ProjectLedger, Sums

Recorded == live \cup trashed

Tables ==
  /\ known \subseteq Projects /\ deleted \subseteq known
  /\ status \in [Projects -> Statuses]
  /\ \A p \in Projects \ known : status[p] = "active"
  /\ DOMAIN total_paid = Projects
  /\ Recorded \subseteq Payments /\ live \cap trashed = {}
  /\ project_of \in [Payments -> Projects \cup {NoProject}]
  /\ amount \in [Payments -> Amounts \cup {0}]
  /\ \A x \in Recorded : project_of[x] \in known

Sessions ==
  /\ pc \in [Requests -> Labels]
  /\ arg \in [Requests -> Inputs]
  /\ overlapped \in [Requests -> BOOLEAN]
  /\ DOMAIN wrote = Requests

\* What the input of a request says of the tables stays true.
InputHolds(r) ==
  LET in == arg[r] IN
  /\ in.op = "create_project" => in.project \in Projects \ known /\ in.status = "active"
  /\ in.op \in PaymentOps \cup {"change_status", "delete_project"} => in.project \in known
  /\ in.op = "create_payment" => in.payment \in Payments \ Recorded
  /\ in.op \in {"update_payment", "delete_payment"} =>
       in.payment \in Recorded /\ project_of[in.payment] = in.project
  /\ in.op \in {"create_payment", "update_payment"} => in.amount \in Amounts
  /\ in.op = "change_status" => in.status \in Statuses

\* The steps an operation takes; its status check holds until it commits
\* unless another status change of the project runs beside it.
StepHolds(r) ==
  /\ pc[r] = "idle" => arg[r] = NoInput /\ wrote[r] = {}
  /\ pc[r] # "idle" => arg[r].op # "none"
  /\ pc[r] = "insert_project" => arg[r].op = "create_project"
  /\ pc[r] = "insert" => arg[r].op = "create_payment"
  /\ pc[r] \in {"find_payment", "write_payment"} =>
       arg[r].op \in {"update_payment", "delete_payment"}
  /\ arg[r].op = "change_status" /\ pc[r] # "read" /\ ~overlapped[r] =>
       arg[r].status \in Allowed(status[arg[r].project])

\* Two requests never create the same row, and two of one kind on a project that
\* are in flight together know of it.
Apart(q, r) ==
  LET in == arg[q]  other == arg[r] IN
  /\ in.op = "create_project" /\ other.op = "create_project" => in.project # other.project
  /\ in.op = "create_payment" /\ other.op = "create_payment" => in.payment # other.payment
  /\ SameKind(in, other) => overlapped[q]

LedgerInv ==
  /\ Tables
  /\ Sessions
  /\ \A r \in Requests : InputHolds(r) /\ StepHolds(r)
  /\ \A q, r \in Requests : q # r => Apart(q, r)

--------------------------------------------------------------------------------
LEMMA NoInputTyped ==
  /\ NoInput \in Inputs /\ NoInput.op = "none" /\ NoInput.project = NoProject
BY DEF NoInput, Input, Inputs

\* The seeded tables and the idle sessions satisfy the invariant.
LEMMA InitHolds == ASSUME Init PROVE LedgerInv
<1>1. Tables
  <2>1. PICK seeded \in SUBSET Payments, a \in Amounts, p \in Projects :
          /\ known \in SUBSET Projects /\ (seeded # {} => p \in known)
          /\ live = seeded
          /\ project_of = [x \in Payments |-> IF x \in seeded THEN p ELSE NoProject]
          /\ amount = [x \in Payments |-> IF x \in seeded THEN a ELSE 0]
    BY DEF Init
  <2>2. status \in [Projects -> Statuses] /\ \A q \in Projects : status[q] = "active"
    BY DEF Init, Statuses
  <2>3. deleted = {} /\ trashed = {} /\ DOMAIN total_paid = Projects
    BY DEF Init
  <2> QED BY <2>1, <2>2, <2>3 DEF Tables, Recorded
<1>2. \A r \in Requests : pc[r] = "idle" /\ arg[r] = NoInput /\ wrote[r] = {}
  BY DEF Init
<1>3. Sessions
  BY NoInputTyped DEF Init, Sessions, Labels
<1>4. \A r \in Requests : InputHolds(r) /\ StepHolds(r)
  BY <1>2, NoInputTyped DEF InputHolds, StepHolds, PaymentOps
<1>5. \A q, r \in Requests : q # r => Apart(q, r)
  BY <1>2, NoInputTyped DEF Apart, SameKind, PaymentOps
<1> QED BY <1>1, <1>3, <1>4, <1>5 DEF LedgerInv

--------------------------------------------------------------------------------
\* What an arriving request is let in with.
Admitted(in, label) ==
  /\ in \in Inputs
  /\ label \in {"read", "insert_project"}
  /\ label = "insert_project" => in.op = "create_project"
  /\ in.op = "create_project" =>
       in.project \in FreshProjects /\ in.status = "active"
  /\ in.op \in PaymentOps \cup {"change_status", "delete_project"} => in.project \in known
  /\ in.op = "create_payment" => in.payment \in FreshPayments
  /\ in.op \in {"update_payment", "delete_payment"} =>
       in.payment \in Recorded /\ project_of[in.payment] = in.project
  /\ in.op \in {"create_payment", "update_payment"} => in.amount \in Amounts
  /\ in.op = "change_status" => in.status \in Statuses /\ label = "read"
  /\ in.op # "none"

LEMMA ArriveIsBegin ==
  ASSUME LedgerInv, NEW r \in Requests, Arrive(r)
  PROVE  \E in \in Inputs, label \in Labels : Admitted(in, label) /\ Begin(r, in, label)
<1> USE DEF Input, Inputs, Admitted, PaymentOps, ProjectOps, Labels
<1>t. Tables BY DEF LedgerInv
<1>1. CASE CreateProject(r)
  <2>1. PICK p \in FreshProjects :
          Begin(r, Input("create_project", p, NoPayment, 0, "active"), "insert_project")
    BY <1>1 DEF CreateProject
  <2> DEFINE in == Input("create_project", p, NoPayment, 0, "active")
  <2>2. p \in Projects BY DEF FreshProjects
  <2>3. in \in Inputs /\ Admitted(in, "insert_project") BY <2>1, <2>2 DEF Statuses
  <2> HIDE DEF in
  <2> QED BY <2>1, <2>3 DEF in
<1>2. CASE CreatePayment(r)
  <2>1. PICK p \in known, x \in FreshPayments, a \in Amounts :
          Begin(r, Input("create_payment", p, x, a, "none"), "read")
    BY <1>2 DEF CreatePayment
  <2> DEFINE in == Input("create_payment", p, x, a, "none")
  <2>2. p \in Projects /\ x \in Payments BY <1>t DEF FreshPayments, Tables
  <2>3. in \in Inputs /\ Admitted(in, "read") BY <2>1, <2>2
  <2> HIDE DEF in
  <2> QED BY <2>1, <2>3 DEF in
<1>3. CASE UpdatePayment(r)
  <2>1. PICK x \in Recorded, a \in Amounts :
          Begin(r, Input("update_payment", project_of[x], x, a, "none"), "read")
    BY <1>3 DEF UpdatePayment, Recorded
  <2> DEFINE in == Input("update_payment", project_of[x], x, a, "none")
  <2>2. project_of[x] \in known /\ project_of[x] \in Projects /\ x \in Payments
    BY <1>t DEF Tables
  <2>3. in \in Inputs /\ Admitted(in, "read") BY <2>1, <2>2
  <2> HIDE DEF in
  <2> QED BY <2>1, <2>3 DEF in
<1>4. CASE DeletePayment(r)
  <2>1. PICK x \in Recorded :
          Begin(r, Input("delete_payment", project_of[x], x, 0, "none"), "read")
    BY <1>4 DEF DeletePayment, Recorded
  <2> DEFINE in == Input("delete_payment", project_of[x], x, 0, "none")
  <2>2. project_of[x] \in known /\ project_of[x] \in Projects /\ x \in Payments
    BY <1>t DEF Tables
  <2>3. in \in Inputs /\ Admitted(in, "read") BY <2>1, <2>2
  <2> HIDE DEF in
  <2> QED BY <2>1, <2>3 DEF in
<1>5. CASE DeleteProject(r)
  <2>1. PICK p \in known :
          Begin(r, Input("delete_project", p, NoPayment, 0, "none"), "read")
    BY <1>5 DEF DeleteProject
  <2> DEFINE in == Input("delete_project", p, NoPayment, 0, "none")
  <2>2. p \in Projects BY <1>t DEF Tables
  <2>3. in \in Inputs /\ Admitted(in, "read") BY <2>1, <2>2
  <2> HIDE DEF in
  <2> QED BY <2>1, <2>3 DEF in
<1>6. CASE ChangeStatus(r)
  <2>1. PICK p \in known, s \in Statuses :
          Begin(r, Input("change_status", p, NoPayment, 0, s), "read")
    BY <1>6 DEF ChangeStatus
  <2> DEFINE in == Input("change_status", p, NoPayment, 0, s)
  <2>2. p \in Projects BY <1>t DEF Tables
  <2>3. in \in Inputs /\ Admitted(in, "read") BY <2>1, <2>2
  <2> HIDE DEF in
  <2> QED BY <2>1, <2>3 DEF in
<1> QED BY <1>1, <1>2, <1>3, <1>4, <1>5, <1>6 DEF Arrive

\* A request arrives: its rows are fresh or recorded, and a status change that
\* meets another one of the project marks both.
LEMMA BeginHolds ==
  ASSUME LedgerInv, NEW r \in Requests, NEW in \in Inputs, NEW label \in Labels,
         Admitted(in, label), Begin(r, in, label)
  PROVE  LedgerInv'
<1> DEFINE Others == {q \in Requests \ {r} : SameKind(arg[q], in)}
<1>1. /\ arg' = [arg EXCEPT ![r] = in] /\ pc' = [pc EXCEPT ![r] = label]
      /\ overlapped' = [q \in Requests |->
                          IF q = r THEN Others # {} ELSE overlapped[q] \/ q \in Others]
      /\ pc[r] = "idle" /\ UNCHANGED <<db, wrote>>
  BY DEF Begin, Goto
<1>2. Sessions /\ Tables BY DEF LedgerInv
<1>3. Tables' BY <1>1, <1>2 DEF Tables, Recorded, db
<1>4. overlapped' \in [Requests -> BOOLEAN]
  <2>1. \A q \in Requests : overlapped[q] \in BOOLEAN BY <1>2 DEF Sessions
  <2> HIDE DEF Others
  <2> QED BY <1>1, <2>1, Zenon
<1>5. Sessions' BY <1>1, <1>2, <1>4 DEF Sessions
<1>6. /\ arg'[r] = in /\ pc'[r] = label
      /\ \A q \in Requests \ {r} : arg'[q] = arg[q] /\ pc'[q] = pc[q]
  BY <1>1, <1>2 DEF Sessions
<1>7. \A q \in Requests \ {r} : overlapped[q] => overlapped'[q]
  BY <1>1
<1>8. \A q \in Requests \ {r} :
        SameKind(in, arg[q]) \/ SameKind(arg[q], in) => overlapped'[q] /\ overlapped'[r]
  <2> TAKE q \in Requests \ {r}
  <2> HAVE SameKind(in, arg[q]) \/ SameKind(arg[q], in)
  <2>1. q \in Others BY DEF SameKind
  <2> HIDE DEF Others
  <2> QED BY <1>1, <2>1
<1> HIDE DEF Others
<1>9. ASSUME NEW q \in Requests PROVE (InputHolds(q) /\ StepHolds(q))'
  <2>1. InputHolds(q) /\ StepHolds(q) /\ StepHolds(r) BY DEF LedgerInv
  <2>2. InputHolds(q)'
    BY <1>1, <1>6, <2>1
    DEF InputHolds, Admitted, Recorded, db, FreshProjects, FreshPayments
  <2>3. StepHolds(q)'
    BY <1>1, <1>6, <1>7, <2>1 DEF StepHolds, Admitted, db
  <2> QED BY <2>2, <2>3
<1>10. ASSUME NEW q \in Requests, NEW o \in Requests, q # o PROVE Apart(q, o)'
  <2>1. Apart(q, o) BY <1>10 DEF LedgerInv
  <2>2. CASE q # r /\ o # r
    BY <1>6, <1>7, <2>1, <2>2 DEF Apart
  <2>3. CASE q = r
    BY <1>6, <1>8, <1>10, <2>3 DEF Apart, Admitted, FreshProjects, FreshPayments
  <2>4. CASE o = r
    BY <1>6, <1>8, <1>10, <2>4 DEF Apart, Admitted, FreshProjects, FreshPayments
  <2> QED BY <2>2, <2>3, <2>4
<1> QED BY <1>3, <1>5, <1>9, <1>10 DEF LedgerInv

--------------------------------------------------------------------------------
\* A request between two awaits: the tables and its input stay.
Local(r) == InsertProject(r) \/ InsertPayment(r) \/ FindPayment(r) \/ WritePayment(r)
              \/ SumPayments(r) \/ FindProject(r) \/ WriteProject(r)

\* The steps that neither arrive, nor end a request, nor commit.
Advances(r) ==
  /\ UNCHANGED <<db, arg, overlapped>>
  /\ \E label \in Labels :
       /\ pc' = [pc EXCEPT ![r] = label]
       /\ label \in {"find_payment", "write_payment"} =>
            arg[r].op \in {"update_payment", "delete_payment"}
       /\ label = "insert" => arg[r].op = "create_payment"
       /\ label \notin {"idle", "insert_project"}
  /\ DOMAIN wrote' = Requests
  /\ \A q \in Requests \ {r} : wrote'[q] = wrote[q]
  /\ pc[r] = "read" /\ arg[r].op = "change_status" =>
       arg[r].status \in Allowed(status[arg[r].project])

LEMMA LocalAdvances ==
  ASSUME LedgerInv, NEW r \in Requests, Local(r) PROVE Advances(r)
<1>1. Sessions /\ StepHolds(r) BY DEF LedgerInv
<1>2. pc[r] # "read" /\ pc[r] # "idle"
  BY DEF Local, InsertProject, InsertPayment, FindPayment, WritePayment,
         SumPayments, FindProject, WriteProject
<1>3. UNCHANGED <<db, arg, overlapped>>
  BY DEF Local, InsertProject, InsertPayment, FindPayment, WritePayment,
         SumPayments, FindProject, WriteProject
<1>4. \E label \in Labels :
        /\ pc' = [pc EXCEPT ![r] = label]
        /\ label \in {"find_payment", "write_payment"} =>
             arg[r].op \in {"update_payment", "delete_payment"}
        /\ label = "insert" => arg[r].op = "create_payment"
        /\ label \notin {"idle", "insert_project"}
  BY <1>1 DEF Local, InsertProject, InsertPayment, FindPayment, WritePayment,
              SumPayments, FindProject, WriteProject, Goto, Labels, StepHolds
<1>5. \E w : wrote' = [wrote EXCEPT ![r] = w] \/ wrote' = wrote
  BY DEF Local, InsertProject, InsertPayment, FindPayment, WritePayment,
         SumPayments, FindProject, WriteProject
<1>6. /\ DOMAIN wrote' = Requests
      /\ \A q \in Requests \ {r} : wrote'[q] = wrote[q]
  BY <1>1, <1>5 DEF Sessions
<1> QED BY <1>2, <1>3, <1>4, <1>6 DEF Advances

LEMMA ReadAdvances ==
  ASSUME LedgerInv, NEW r \in Requests, ReadProject(r) \/ ReadPayment(r)
  PROVE  Advances(r) \/ Raise(r)
<1>1. Sessions BY DEF LedgerInv
<1>2. CASE ReadProject(r) /\ ~Raise(r)
  <2>1. /\ UNCHANGED <<db, arg, total, wrote, overlapped>>
        /\ \/ arg[r].op = "create_payment" /\ Goto(r, "insert")
           \/ Goto(r, "find_project")
        /\ arg[r].op = "change_status" => MayChange(status[arg[r].project], arg[r].status)
    BY <1>2 DEF ReadProject
  <2> QED BY <1>1, <2>1 DEF Advances, Goto, Labels, MayChange, Sessions
<1>3. CASE ReadPayment(r) /\ ~Raise(r)
  <2>1. /\ UNCHANGED <<db, arg, total, wrote, overlapped>>
        /\ arg[r].op \in {"update_payment", "delete_payment"}
        /\ Goto(r, "find_payment")
    BY <1>3 DEF ReadPayment
  <2> QED BY <1>1, <2>1 DEF Advances, Goto, Labels, Sessions
<1> QED BY <1>2, <1>3

LEMMA AdvanceHolds ==
  ASSUME LedgerInv, NEW r \in Requests, pc[r] # "idle", Advances(r)
  PROVE  LedgerInv'
<1>1. Tables /\ Sessions BY DEF LedgerInv
<1>2. PICK label \in Labels :
        /\ pc' = [pc EXCEPT ![r] = label]
        /\ label \in {"find_payment", "write_payment"} =>
             arg[r].op \in {"update_payment", "delete_payment"}
        /\ label = "insert" => arg[r].op = "create_payment"
        /\ label \notin {"idle", "insert_project"}
  BY DEF Advances
<1>3. UNCHANGED <<db, arg, overlapped>> BY DEF Advances
<1>4. Tables' BY <1>1, <1>3 DEF Tables, Recorded, db
<1>5. Sessions' BY <1>1, <1>2, <1>3 DEF Sessions, Advances
<1>6. pc'[r] = label /\ \A q \in Requests \ {r} : pc'[q] = pc[q] /\ wrote'[q] = wrote[q]
  BY <1>1, <1>2 DEF Sessions, Advances
<1>7. ASSUME NEW q \in Requests PROVE (InputHolds(q) /\ StepHolds(q))'
  <2>1. InputHolds(q) /\ StepHolds(q) BY DEF LedgerInv
  <2>2. InputHolds(q)' BY <1>3, <2>1 DEF InputHolds, Recorded, db
  <2>3. CASE q = r
    <3>1. StepHolds(r)'
      BY <1>2, <1>3, <1>6, <2>1, <2>3 DEF StepHolds, Advances, db
    <3> QED BY <2>2, <2>3, <3>1
  <2>4. CASE q # r
    <3>1. StepHolds(q)' BY <1>3, <1>6, <2>1, <2>4 DEF StepHolds, db
    <3> QED BY <2>2, <3>1
  <2> QED BY <2>3, <2>4
<1>8. ASSUME NEW q \in Requests, NEW o \in Requests, q # o PROVE Apart(q, o)'
  <2>1. Apart(q, o) BY <1>8 DEF LedgerInv
  <2> QED BY <1>3, <2>1 DEF Apart
<1> QED BY <1>4, <1>5, <1>7, <1>8 DEF LedgerInv

--------------------------------------------------------------------------------
\* The session of r has ended.
LEMMA EndFrees ==
  ASSUME Sessions, NEW r \in Requests, End(r)
  PROVE  /\ Sessions'
         /\ pc'[r] = "idle" /\ arg'[r] = NoInput /\ wrote'[r] = {}
         /\ \A q \in Requests \ {r} :
              /\ pc'[q] = pc[q] /\ arg'[q] = arg[q] /\ wrote'[q] = wrote[q]
              /\ overlapped'[q] = overlapped[q]
BY NoInputTyped DEF Sessions, End, Goto, Labels

LEMMA RaiseHolds ==
  ASSUME LedgerInv, NEW r \in Requests, Raise(r) PROVE LedgerInv'
<1>1. Tables /\ Sessions BY DEF LedgerInv
<1>2. End(r) /\ UNCHANGED db BY DEF Raise
<1>3. Tables' BY <1>1, <1>2 DEF Tables, Recorded, db
<1>4. /\ Sessions'
      /\ pc'[r] = "idle" /\ arg'[r] = NoInput /\ wrote'[r] = {}
      /\ \A q \in Requests \ {r} :
           /\ pc'[q] = pc[q] /\ arg'[q] = arg[q] /\ wrote'[q] = wrote[q]
           /\ overlapped'[q] = overlapped[q]
  BY <1>1, <1>2, EndFrees
<1>5. ASSUME NEW q \in Requests PROVE (InputHolds(q) /\ StepHolds(q))'
  <2>1. InputHolds(q) /\ StepHolds(q) BY DEF LedgerInv
  <2>2. CASE q = r
    BY <1>4, <2>2, NoInputTyped DEF InputHolds, StepHolds, PaymentOps
  <2>3. CASE q # r
    BY <1>2, <1>4, <2>1, <2>3 DEF InputHolds, StepHolds, Recorded, db
  <2> QED BY <2>2, <2>3
<1>6. ASSUME NEW q \in Requests, NEW o \in Requests, q # o PROVE Apart(q, o)'
  <2>1. Apart(q, o) BY <1>6 DEF LedgerInv
  <2> QED BY <1>4, <1>6, <2>1, NoInputTyped DEF Apart, SameKind, PaymentOps
<1> QED BY <1>3, <1>4, <1>5, <1>6 DEF LedgerInv

--------------------------------------------------------------------------------
\* What a commit does to the tables is one entry of LedgerBooks: the one its
\* operation stands for, or none when the session has written nothing.
Entry(r) ==
  LET in == arg[r] IN
  \/ UNCHANGED <<known, status, deleted, live, trashed, project_of, amount>>
  \/ in.op = "create_project" /\ in.project \in wrote[r] /\ Books!Open(in.project)
  \/ in.op = "change_status" /\ in.project \in wrote[r] /\ Books!Move(in.project, in.status)
  \/ in.op = "delete_project" /\ in.project \in wrote[r] /\ Books!Delete(in.project)
  \/ in.op = "create_payment" /\ Books!Record(in.payment, in.project, in.amount)
  \/ in.op = "update_payment" /\ Books!Amend(in.payment, in.amount)
  \/ in.op = "delete_payment" /\ Books!Remove(in.payment)

LEMMA CommitIsEntry ==
  ASSUME LedgerInv, NEW r \in Requests, Commit(r) PROVE Entry(r)
<1> DEFINE in == arg[r]
<1>1. Tables /\ Sessions /\ InputHolds(r) BY DEF LedgerInv
<1>2. in \in Inputs BY <1>1 DEF Sessions
<1>3. in.op \in PaymentOps \cup ProjectOps \cup {"none"} BY <1>2 DEF Inputs
<1>4. CASE in.op \in ProjectOps \cup {"none"}
  <2>1. Inserted(r) = {} /\ Removed(r) = {} /\ AmountAfter(r) = amount
    BY <1>4 DEF Inserted, Removed, AmountAfter, Wrote, ProjectOps
  <2>2. ProjectOfAfter(r) = project_of
    BY <1>1, <2>1 DEF ProjectOfAfter, Tables
  <2>3. live' = live /\ trashed' = trashed /\ amount' = amount /\ project_of' = project_of
    BY <2>1, <2>2 DEF Commit, CommitPayments, LiveAfter
  <2>4. /\ known' = IF in.project \in wrote[r] /\ in.op = "create_project"
                    THEN known \cup {in.project} ELSE known
        /\ status' = IF in.project \in wrote[r] /\ in.op \in {"create_project", "change_status"}
                     THEN [status EXCEPT ![in.project] = in.status] ELSE status
        /\ deleted' = IF in.project \in wrote[r] /\ in.op = "delete_project"
                      THEN deleted \cup {in.project} ELSE deleted
    BY DEF Commit, CommitProject
  <2>5. CASE in.project \notin wrote[r] \/ in.op = "none"
    BY <2>3, <2>4, <2>5 DEF Entry
  <2>6. CASE in.project \in wrote[r] /\ in.op = "create_project"
    BY <1>1, <2>3, <2>4, <2>6 DEF Entry, Books!Open, InputHolds
  <2>7. CASE in.project \in wrote[r] /\ in.op = "change_status"
    BY <1>1, <2>3, <2>4, <2>7 DEF Entry, Books!Move, InputHolds
  <2>8. CASE in.project \in wrote[r] /\ in.op = "delete_project"
    BY <1>1, <2>3, <2>4, <2>8 DEF Entry, Books!Delete, InputHolds
  <2> QED BY <1>4, <2>5, <2>6, <2>7, <2>8 DEF ProjectOps
<1>5. CASE in.op \in PaymentOps
  <2>1. known' = known /\ status' = status /\ deleted' = deleted
    BY <1>5 DEF Commit, CommitProject, PaymentOps
  <2>2. /\ live' = (live \cup Inserted(r)) \ Removed(r)
        /\ trashed' = trashed \cup Removed(r)
        /\ amount' = AmountAfter(r) /\ project_of' = ProjectOfAfter(r)
    BY DEF Commit, CommitPayments, LiveAfter
  <2>3. CASE in.payment \notin wrote[r]
    <3>1. Inserted(r) = {} /\ Removed(r) = {} /\ AmountAfter(r) = amount
      BY <2>3 DEF Inserted, Removed, AmountAfter, Wrote
    <3>2. ProjectOfAfter(r) = project_of BY <1>1, <3>1 DEF ProjectOfAfter, Tables
    <3> QED BY <2>1, <2>2, <3>1, <3>2 DEF Entry
  <2>4. CASE in.payment \in wrote[r] /\ in.op = "create_payment"
    <3>1. Inserted(r) = {in.payment} /\ Removed(r) = {}
      BY <2>4 DEF Inserted, Removed, Wrote
    <3>2. AmountAfter(r) = [amount EXCEPT ![in.payment] = in.amount]
      BY <2>4 DEF AmountAfter, Wrote
    <3>3. ProjectOfAfter(r) = [project_of EXCEPT ![in.payment] = in.project]
      BY <1>1, <3>1 DEF ProjectOfAfter, Tables
    <3>4. in.payment \notin Recorded /\ in.project \in known
      BY <1>1, <2>4 DEF InputHolds, PaymentOps
    <3> QED
      BY <2>1, <2>2, <2>4, <3>1, <3>2, <3>3, <3>4 DEF Entry, Books!Record, Books!Recorded, Recorded
  <2>5. CASE in.payment \in wrote[r] /\ in.op = "update_payment"
    <3>1. Inserted(r) = {} /\ Removed(r) = {}
      BY <2>5 DEF Inserted, Removed, Wrote
    <3>2. AmountAfter(r) = [amount EXCEPT ![in.payment] = in.amount]
      BY <2>5 DEF AmountAfter, Wrote
    <3>3. ProjectOfAfter(r) = project_of BY <1>1, <3>1 DEF ProjectOfAfter, Tables
    <3>4. in.payment \in Recorded BY <1>1, <2>5 DEF InputHolds
    <3> QED
      BY <2>1, <2>2, <2>5, <3>1, <3>2, <3>3, <3>4 DEF Entry, Books!Amend, Books!Recorded, Recorded
  <2>6. CASE in.payment \in wrote[r] /\ in.op = "delete_payment"
    <3>1. Inserted(r) = {} /\ Removed(r) = {in.payment} /\ AmountAfter(r) = amount
      BY <2>6 DEF Inserted, Removed, AmountAfter, Wrote
    <3>2. ProjectOfAfter(r) = project_of BY <1>1, <3>1 DEF ProjectOfAfter, Tables
    <3>3. in.payment \in Recorded /\ live \cap trashed = {}
      BY <1>1, <2>6 DEF InputHolds, Tables
    <3>4. CASE in.payment \in live
      BY <2>1, <2>2, <2>6, <3>1, <3>2, <3>4 DEF Entry, Books!Remove
    <3>5. CASE in.payment \in trashed
      BY <2>1, <2>2, <3>1, <3>2, <3>3, <3>5 DEF Entry
    <3> QED BY <3>3, <3>4, <3>5 DEF Recorded
  <2> QED BY <1>5, <2>3, <2>4, <2>5, <2>6 DEF PaymentOps
<1> QED BY <1>3, <1>4, <1>5

\* The tables after an entry.
LEMMA EntryTables ==
  ASSUME LedgerInv, NEW r \in Requests, Entry(r), DOMAIN total_paid' = Projects
  PROVE  Tables'
<1>1. Tables /\ InputHolds(r) BY DEF LedgerInv
<1>2. arg[r] \in Inputs BY DEF LedgerInv, Sessions
<1>3. CASE UNCHANGED <<known, status, deleted, live, trashed, project_of, amount>>
  BY <1>1, <1>3 DEF Tables, Recorded
<1>4. CASE arg[r].op = "create_project" /\ Books!Open(arg[r].project)
  BY <1>1, <1>4 DEF Tables, Recorded, Books!Open, InputHolds, Statuses
<1>5. CASE arg[r].op = "change_status" /\ Books!Move(arg[r].project, arg[r].status)
  BY <1>1, <1>5 DEF Tables, Recorded, Books!Move, InputHolds
<1>6. CASE arg[r].op = "delete_project" /\ Books!Delete(arg[r].project)
  BY <1>1, <1>6 DEF Tables, Recorded, Books!Delete
<1>7. CASE arg[r].op = "create_payment"
             /\ Books!Record(arg[r].payment, arg[r].project, arg[r].amount)
  <2>1. arg[r].payment \in Payments \ Recorded /\ arg[r].project \in known
          /\ arg[r].amount \in Amounts
    BY <1>1, <1>7 DEF InputHolds, PaymentOps
  <2> QED BY <1>1, <1>7, <2>1 DEF Tables, Recorded, Books!Record
<1>8. CASE arg[r].op = "update_payment" /\ Books!Amend(arg[r].payment, arg[r].amount)
  BY <1>1, <1>8 DEF Tables, Recorded, Books!Amend, InputHolds
<1>9. CASE arg[r].op = "delete_payment" /\ Books!Remove(arg[r].payment)
  BY <1>1, <1>9 DEF Tables, Recorded, Books!Remove
<1> QED BY <1>3, <1>4, <1>5, <1>6, <1>7, <1>8, <1>9 DEF Entry

\* What an entry leaves of the input of another request: only the rows of r
\* become known, and only its project changes status.
LEMMA EntryElsewhere ==
  ASSUME LedgerInv, NEW r \in Requests, Entry(r)
  PROVE  /\ known \subseteq known' /\ Recorded \subseteq Recorded'
         /\ known' \ known \subseteq IF arg[r].op = "create_project" THEN {arg[r].project} ELSE {}
         /\ Recorded' \ Recorded
              \subseteq IF arg[r].op = "create_payment" THEN {arg[r].payment} ELSE {}
         /\ \A x \in Recorded : project_of'[x] = project_of[x]
         /\ \A p \in Projects :
              status'[p] # status[p] => arg[r].op = "change_status" /\ p = arg[r].project
                                          /\ status'[p] = arg[r].status
<1>1. Tables /\ InputHolds(r) BY DEF LedgerInv
<1>3. CASE UNCHANGED <<known, status, deleted, live, trashed, project_of, amount>>
  BY <1>3 DEF Recorded
<1>4. CASE arg[r].op = "create_project" /\ Books!Open(arg[r].project)
  BY <1>1, <1>4 DEF Tables, Recorded, Books!Open, InputHolds
<1>5. CASE arg[r].op = "change_status" /\ Books!Move(arg[r].project, arg[r].status)
  BY <1>1, <1>5 DEF Tables, Recorded, Books!Move
<1>6. CASE arg[r].op = "delete_project" /\ Books!Delete(arg[r].project)
  BY <1>6 DEF Recorded, Books!Delete
<1>7. CASE arg[r].op = "create_payment"
             /\ Books!Record(arg[r].payment, arg[r].project, arg[r].amount)
  BY <1>1, <1>7 DEF Tables, Recorded, Books!Record, Books!Recorded
<1>8. CASE arg[r].op = "update_payment" /\ Books!Amend(arg[r].payment, arg[r].amount)
  BY <1>8 DEF Recorded, Books!Amend
<1>9. CASE arg[r].op = "delete_payment" /\ Books!Remove(arg[r].payment)
  BY <1>9 DEF Recorded, Books!Remove
<1> QED BY <1>3, <1>4, <1>5, <1>6, <1>7, <1>8, <1>9 DEF Entry

LEMMA CommitHolds ==
  ASSUME LedgerInv, NEW r \in Requests, Commit(r) PROVE LedgerInv'
<1>1. Tables /\ Sessions /\ InputHolds(r) BY DEF LedgerInv
<1>2. Entry(r) BY CommitIsEntry
<1>3. DOMAIN total_paid' = Projects
  BY <1>1 DEF Tables, Commit, CommitProject
<1>4. Tables' BY <1>2, <1>3, EntryTables
<1>5. /\ known \subseteq known' /\ Recorded \subseteq Recorded'
      /\ known' \ known \subseteq IF arg[r].op = "create_project" THEN {arg[r].project} ELSE {}
      /\ Recorded' \ Recorded
           \subseteq IF arg[r].op = "create_payment" THEN {arg[r].payment} ELSE {}
      /\ \A x \in Recorded : project_of'[x] = project_of[x]
      /\ \A p \in Projects :
           status'[p] # status[p] => arg[r].op = "change_status" /\ p = arg[r].project
                                       /\ status'[p] = arg[r].status
  BY <1>2, EntryElsewhere
<1>6. /\ Sessions'
      /\ pc'[r] = "idle" /\ arg'[r] = NoInput /\ wrote'[r] = {}
      /\ \A q \in Requests \ {r} :
           /\ pc'[q] = pc[q] /\ arg'[q] = arg[q] /\ wrote'[q] = wrote[q]
           /\ overlapped'[q] = overlapped[q]
  BY <1>1, EndFrees DEF Commit
<1>7. ASSUME NEW q \in Requests PROVE (InputHolds(q) /\ StepHolds(q))'
  <2>1. CASE q = r
    BY <1>6, <2>1, NoInputTyped DEF InputHolds, StepHolds, PaymentOps
  <2>2. CASE q # r
    <3>1. InputHolds(q) /\ StepHolds(q) /\ Apart(q, r) BY <2>2 DEF LedgerInv
    <3>2. arg'[q] = arg[q] /\ pc'[q] = pc[q] /\ wrote'[q] = wrote[q]
            /\ overlapped'[q] = overlapped[q]
      BY <1>6, <2>2
    <3>3. InputHolds(q)' BY <1>5, <3>1, <3>2 DEF InputHolds, Apart
    <3>4. arg[q].op = "change_status" /\ ~overlapped[q] =>
            status'[arg[q].project] = status[arg[q].project]
      BY <1>1, <1>5, <3>1 DEF InputHolds, Apart, SameKind, Tables
    <3>5. StepHolds(q)' BY <3>1, <3>2, <3>4 DEF StepHolds
    <3> QED BY <3>3, <3>5
  <2> QED BY <2>1, <2>2
<1>8. ASSUME NEW q \in Requests, NEW o \in Requests, q # o PROVE Apart(q, o)'
  <2>1. Apart(q, o) BY <1>8 DEF LedgerInv
  <2> QED BY <1>6, <1>8, <2>1, NoInputTyped DEF Apart, SameKind, PaymentOps
<1> QED BY <1>4, <1>6, <1>7, <1>8 DEF LedgerInv

--------------------------------------------------------------------------------
\* Every step is an arrival, a step between awaits, an end without a commit, or
\* a commit.
LEMMA StepKinds ==
  ASSUME LedgerInv, NEW r \in Requests, Arrive(r) \/ Step(r) \/ Fail(r)
  PROVE  Arrive(r) \/ (pc[r] # "idle" /\ Advances(r)) \/ Raise(r) \/ Commit(r)
<1>1. CASE Local(r)
  <2>1. pc[r] # "idle"
    BY <1>1 DEF Local, InsertProject, InsertPayment, FindPayment, WritePayment,
                SumPayments, FindProject, WriteProject
  <2> QED BY <1>1, <2>1, LocalAdvances
<1>2. CASE ReadProject(r) \/ ReadPayment(r)
  <2>1. pc[r] # "idle" BY <1>2 DEF ReadProject, ReadPayment
  <2> QED BY <1>2, <2>1, ReadAdvances
<1> QED BY <1>1, <1>2 DEF Step, Local, Fail

LEMMA NextHolds == ASSUME LedgerInv, [Next]_vars PROVE LedgerInv'
<1>1. CASE UNCHANGED vars
  BY <1>1 DEF vars, LedgerInv, Tables, Recorded, Sessions, InputHolds, StepHolds, Apart
<1>2. ASSUME NEW r \in Requests, Arrive(r) \/ Step(r) \/ Fail(r) PROVE LedgerInv'
  <2>1. CASE Arrive(r) BY <2>1, ArriveIsBegin, BeginHolds
  <2>2. CASE pc[r] # "idle" /\ Advances(r) BY <2>2, AdvanceHolds
  <2>3. CASE Raise(r) BY <2>3, RaiseHolds
  <2>4. CASE Commit(r) BY <2>4, CommitHolds
  <2> QED BY <1>2, <2>1, <2>2, <2>3, <2>4, StepKinds
<1> QED BY <1>1, <1>2 DEF Next

\* What the input of a request in flight says of the tables holds until it
\* ends: no other request takes the row it creates, no row it works on goes
\* away, and its status check is still true unless a status change ran beside it.
THEOREM InvariantHolds == Spec => []LedgerInv
<1>1. Init => LedgerInv BY InitHolds
<1>2. LedgerInv /\ [Next]_vars => LedgerInv' BY NextHolds
<1> QED BY <1>1, <1>2, PTL DEF Spec

--------------------------------------------------------------------------------
LEMMA InitIsBooks == ASSUME Init PROVE Books!BooksInit
<1>1. PICK seeded \in SUBSET Payments, a \in Amounts, p \in Projects :
        /\ known \in SUBSET Projects /\ (seeded # {} => p \in known)
        /\ live = seeded
        /\ project_of = [x \in Payments |-> IF x \in seeded THEN p ELSE NoProject]
        /\ amount = [x \in Payments |-> IF x \in seeded THEN a ELSE 0]
  BY DEF Init
<1>2. status = [p_1 \in Projects |-> "active"] /\ deleted = {} /\ trashed = {}
  BY DEF Init
<1> QED BY <1>1, <1>2 DEF Books!BooksInit

\* The steps that leave the tables alone, and those that write them.
LEMMA OnlyCommitWrites ==
  ASSUME LedgerInv, [Next]_vars, db' # db
  PROVE  \E r \in Requests : Commit(r)
<1>1. PICK r \in Requests : Arrive(r) \/ Step(r) \/ Fail(r) BY DEF Next, vars, db
<1>2. CASE Arrive(r)
  <2>1. PICK in \in Inputs, label \in Labels : Begin(r, in, label)
    BY <1>2, ArriveIsBegin
  <2> QED BY <2>1 DEF Begin
<1>3. CASE Advances(r) \/ Raise(r) BY <1>3 DEF Advances, Raise
<1> QED BY <1>1, <1>2, <1>3, StepKinds

LEMMA StepIsBooks == ASSUME LedgerInv, [Next]_vars PROVE [Books!BooksNext]_(Books!bookVars)
<1>1. CASE db' = db BY <1>1 DEF db, Books!bookVars
<1>2. CASE db' # db
  <2>1. PICK r \in Requests : Commit(r) BY <1>2, OnlyCommitWrites
  <2>2. Entry(r) BY <2>1, CommitIsEntry
  <2>3. Tables /\ InputHolds(r) BY DEF LedgerInv
  <2> DEFINE in == arg[r]
  <2>4. CASE UNCHANGED <<known, status, deleted, live, trashed, project_of, amount>>
    BY <2>4 DEF Books!bookVars
  <2>5. CASE in.op = "create_project" /\ Books!Open(in.project)
    BY <2>3, <2>5 DEF InputHolds, Books!BooksNext
  <2>6. CASE in.op = "change_status" /\ Books!Move(in.project, in.status)
    BY <2>3, <2>6 DEF InputHolds, Tables, Books!BooksNext
  <2>7. CASE in.op = "delete_project" /\ Books!Delete(in.project)
    BY <2>3, <2>7 DEF InputHolds, Tables, Books!BooksNext
  <2>8. CASE in.op = "create_payment" /\ Books!Record(in.payment, in.project, in.amount)
    BY <2>3, <2>8 DEF InputHolds, Tables, PaymentOps, Books!BooksNext
  <2>9. CASE in.op = "update_payment" /\ Books!Amend(in.payment, in.amount)
    BY <2>3, <2>9 DEF InputHolds, Tables, Books!BooksNext
  <2>10. CASE in.op = "delete_payment" /\ Books!Remove(in.payment)
    BY <2>3, <2>10 DEF InputHolds, Tables, Books!BooksNext
  <2> QED BY <2>2, <2>4, <2>5, <2>6, <2>7, <2>8, <2>9, <2>10 DEF Entry
<1> QED BY <1>1, <1>2

\* However many requests interleave, wait and fail, the tables change as
\* LedgerBooks says, one entry at a time.
THEOREM LedgerImplementsBooks == Spec => ImplementsBooks
<1>1. Init => Books!BooksInit BY InitIsBooks
<1>2. LedgerInv /\ [Next]_vars => [Books!BooksNext]_(Books!bookVars) BY StepIsBooks
<1> QED BY <1>1, <1>2, InvariantHolds, PTL DEF Spec, ImplementsBooks, Books!BooksSpec

LEMMA BooksTyped ==
  ASSUME Books!BooksTypeOK, [Books!BooksNext]_(Books!bookVars) PROVE Books!BooksTypeOK'
<1> USE DEF Books!BooksTypeOK, Books!Recorded
<1>1. CASE UNCHANGED Books!bookVars BY <1>1 DEF Books!bookVars
<1>2. ASSUME NEW p \in Projects, Books!Open(p) \/ Books!Delete(p) PROVE Books!BooksTypeOK'
  BY <1>2 DEF Books!Open, Books!Delete, Statuses
<1>3. ASSUME NEW p \in Projects, NEW s \in Statuses, Books!Move(p, s)
      PROVE  Books!BooksTypeOK'
  BY <1>3 DEF Books!Move
<1>4. ASSUME NEW x \in Payments, Books!Remove(x) PROVE Books!BooksTypeOK'
  BY <1>4 DEF Books!Remove
<1>5. ASSUME NEW x \in Payments, NEW t \in Amounts, Books!Amend(x, t) PROVE Books!BooksTypeOK'
  BY <1>5 DEF Books!Amend
<1>6. ASSUME NEW x \in Payments, NEW p \in Projects, NEW t \in Amounts, Books!Record(x, p, t)
      PROVE  Books!BooksTypeOK'
  BY <1>6 DEF Books!Record
<1> QED BY <1>1, <1>2, <1>3, <1>4, <1>5, <1>6 DEF Books!BooksNext

\* What LedgerBooks entails for the tables of the code: every payment is on a
\* project that exists, and is live or deleted, never both.
THEOREM TablesTyped == Spec => []Books!BooksTypeOK
<1>1. Books!BooksInit => Books!BooksTypeOK
  BY DEF Books!BooksInit, Books!BooksTypeOK, Books!Recorded, Statuses
<1>2. Books!BooksTypeOK /\ [Books!BooksNext]_(Books!bookVars) => Books!BooksTypeOK'
  BY BooksTyped
<1> QED BY <1>1, <1>2, LedgerImplementsBooks, PTL DEF ImplementsBooks, Books!BooksSpec

\* No interleaving of the requests moves a payment to another project, loses one
\* that is recorded, or brings a deleted one back.
THEOREM PaymentsKept ==
  Spec => [][\A x \in Recorded :
               /\ x \in Recorded' /\ project_of'[x] = project_of[x]
               /\ x \in trashed => x \in trashed' \ live']_vars
<1> DEFINE Kept == \A x \in Recorded :
                     /\ x \in Recorded' /\ project_of'[x] = project_of[x]
                     /\ x \in trashed => x \in trashed' \ live'
<1>1. ASSUME Books!BooksTypeOK, [Books!BooksNext]_(Books!bookVars) PROVE Kept
  <2> USE DEF Recorded, Books!Recorded
  <2>1. CASE UNCHANGED Books!bookVars
    BY <1>1, <2>1 DEF Books!bookVars, Books!BooksTypeOK
  <2>2. ASSUME NEW p \in Projects, NEW s \in Statuses,
               Books!Open(p) \/ Books!Delete(p) \/ Books!Move(p, s)
        PROVE  Kept
    BY <1>1, <2>2 DEF Books!Open, Books!Delete, Books!Move, Books!BooksTypeOK
  <2>3. ASSUME NEW x \in Payments, Books!Remove(x) PROVE Kept
    BY <1>1, <2>3 DEF Books!Remove, Books!BooksTypeOK
  <2>4. ASSUME NEW x \in Payments, NEW t \in Amounts, Books!Amend(x, t) PROVE Kept
    BY <1>1, <2>4 DEF Books!Amend, Books!BooksTypeOK
  <2>5. ASSUME NEW x \in Payments, NEW p \in Projects, NEW t \in Amounts, Books!Record(x, p, t)
        PROVE  Kept
    BY <1>1, <2>5 DEF Books!Record, Books!BooksTypeOK
  <2>6. "active" \in Statuses BY DEF Statuses
  <2> HIDE DEF Kept
  <2> QED BY <1>1, <2>1, <2>2, <2>3, <2>4, <2>5, <2>6 DEF Books!BooksNext
<1>2. Books!BooksTypeOK /\ [Books!BooksNext]_(Books!bookVars) => [Kept]_vars
  BY <1>1
<1> QED BY <1>2, TablesTyped, LedgerImplementsBooks, PTL DEF ImplementsBooks, Books!BooksSpec

--------------------------------------------------------------------------------
\* A commit that changes the status of p is that of a request on p.
LEMMA StepOnMatrix ==
  ASSUME LedgerInv, [Next]_vars, NEW p \in Projects, status'[p] # status[p]
  PROVE  \E r \in Requests :
           /\ Commits(r) /\ arg[r].project = p
           /\ overlapped[r] \/ status'[p] \in Allowed(status[p])
<1>1. db' # db BY DEF db
<1>2. PICK r \in Requests : Commit(r) BY <1>1, OnlyCommitWrites
<1>3. arg[r].op = "change_status" /\ p = arg[r].project /\ status'[p] = arg[r].status
  BY <1>2, CommitIsEntry, EntryElsewhere
<1>4. pc[r] = "commit" /\ StepHolds(r) /\ pc'[r] = "idle"
  BY <1>2, EndFrees DEF Commit, LedgerInv
<1>5. overlapped[r] \/ status'[p] \in Allowed(status[p])
  BY <1>3, <1>4 DEF StepHolds
<1> QED BY <1>1, <1>3, <1>4, <1>5 DEF Commits

\* _ALLOWED_TRANSITIONS: a status change alone on its project follows the
\* matrix, whatever payments, deletions and changes of other projects commit
\* between its check and its write.
THEOREM MatrixFollowed == Spec => StatusFollowsMatrix
<1>1. LedgerInv /\ [Next]_vars =>
        [\A p \in Projects :
           status'[p] # status[p] =>
             \E r \in Requests :
               /\ Commits(r) /\ arg[r].project = p
               /\ overlapped[r] \/ status'[p] \in Allowed(status[p])]_vars
  BY StepOnMatrix
<1> QED BY <1>1, InvariantHolds, PTL DEF Spec, StatusFollowsMatrix

--------------------------------------------------------------------------------
\* The tables after an entry of a request that has not found p.
LEMMA EntryFrozen ==
  ASSUME LedgerInv, LedgerAssumption, NEW p \in deleted, NEW r \in Requests,
         Commit(r), ~Found(r, p)
  PROVE  /\ p \in deleted'
         /\ status'[p] = status[p] /\ total_paid'[p] = total_paid[p]
         /\ {x \in live' : project_of'[x] = p} \subseteq {x \in live : project_of[x] = p}
<1>1. Tables /\ InputHolds(r) BY DEF LedgerInv
<1>2. p \in Projects BY <1>1 DEF Tables
<1>3. arg[r].project = p => p \notin wrote[r] /\ arg[r].op # "create_payment"
  BY DEF Found, Commit
<1>4. total_paid'[p] = total_paid[p]
  BY <1>1, <1>2, <1>3 DEF Commit, CommitProject, Tables
<1>5. Entry(r) BY CommitIsEntry
<1>6. CASE UNCHANGED <<known, status, deleted, live, trashed, project_of, amount>>
  BY <1>4, <1>6
<1>7. CASE arg[r].op = "create_project" /\ arg[r].project \in wrote[r]
             /\ Books!Open(arg[r].project)
  BY <1>1, <1>2, <1>3, <1>4, <1>7 DEF Books!Open, Tables
<1>8. CASE arg[r].op = "change_status" /\ arg[r].project \in wrote[r]
             /\ Books!Move(arg[r].project, arg[r].status)
  BY <1>1, <1>2, <1>3, <1>4, <1>8 DEF Books!Move, Tables
<1>9. CASE arg[r].op = "delete_project" /\ Books!Delete(arg[r].project)
  BY <1>4, <1>9 DEF Books!Delete
<1>10. CASE arg[r].op = "create_payment"
             /\ Books!Record(arg[r].payment, arg[r].project, arg[r].amount)
  <2>1. arg[r].project # p /\ arg[r].payment \in Payments
    BY <1>1, <1>3, <1>10 DEF InputHolds
  <2>2. \A x \in live' : project_of'[x] = p => x \in live /\ project_of[x] = p
    BY <1>1, <1>10, <2>1 DEF Books!Record, Tables, Recorded
  <2> QED BY <1>4, <1>10, <2>2 DEF Books!Record
<1>11. CASE arg[r].op = "update_payment" /\ Books!Amend(arg[r].payment, arg[r].amount)
  BY <1>4, <1>11 DEF Books!Amend
<1>12. CASE arg[r].op = "delete_payment" /\ Books!Remove(arg[r].payment)
  BY <1>4, <1>12 DEF Books!Remove
<1> QED BY <1>5, <1>6, <1>7, <1>8, <1>9, <1>10, <1>11, <1>12 DEF Entry

\* A request that had not found p does not find it any more.
LEMMA NeverFound ==
  ASSUME LedgerInv, LedgerAssumption, NEW p \in deleted, NEW r \in Requests, ~Found(r, p),
         Arrive(r) \/ Step(r) \/ Fail(r)
  PROVE  ~Found(r, p)'
<1>1. Tables /\ Sessions /\ InputHolds(r) /\ StepHolds(r) BY DEF LedgerInv
<1>2. p \in Projects /\ p \in known BY <1>1 DEF Tables
<1>3. CASE Arrive(r)
  <2>1. PICK in \in Inputs, label \in Labels : Admitted(in, label) /\ Begin(r, in, label)
    BY <1>3, ArriveIsBegin
  <2>2. arg'[r] = in /\ pc'[r] = label /\ wrote'[r] = {}
    BY <1>1, <2>1 DEF Begin, Goto, Sessions, StepHolds
  <2> QED BY <1>1, <2>1, <2>2 DEF Admitted, Found
<1>4. CASE End(r)
  <2>1. arg'[r].project = NoProject BY <1>1, <1>4, EndFrees, NoInputTyped
  <2> QED BY <1>2, <2>1 DEF Found, LedgerAssumption
<1>5. CASE arg[r].project # p /\ ~End(r) /\ ~Arrive(r)
  <2>1. arg' = arg
    BY <1>5, StepKinds DEF Advances, Raise, Commit
  <2> QED BY <1>5, <2>1 DEF Found
<1>6. CASE arg[r].project = p /\ ~End(r) /\ ~Arrive(r)
  <2>0. p \notin wrote[r] /\ pc[r] # "write_project"
          /\ (arg[r].op = "create_payment" => pc[r] = "read")
    BY <1>6 DEF Found
  <2>1. ~InsertProject(r)
    BY <1>1, <1>2, <1>6 DEF InsertProject, InputHolds, StepHolds
  <2>2. ~ReadProject(r)
    BY <1>6 DEF ReadProject, Raise
  <2>3. CASE ReadPayment(r)
    BY <1>1, <1>6, <2>0, <2>3 DEF ReadPayment, Raise, Goto, Sessions, Found
  <2>4. ~InsertPayment(r)
    BY <1>1, <2>0 DEF InsertPayment, StepHolds
  <2>5. CASE FindPayment(r) \/ SumPayments(r)
    <3>1. arg[r].op # "create_payment" /\ UNCHANGED <<arg, wrote>>
      BY <1>1, <2>0, <2>5 DEF FindPayment, SumPayments
    <3>2. pc'[r] # "write_project"
      BY <1>1, <2>5 DEF FindPayment, SumPayments, Goto, Sessions
    <3> QED BY <2>0, <3>1, <3>2 DEF Found
  <2>6. CASE WritePayment(r)
    <3>1. arg[r].op \in {"update_payment", "delete_payment"}
      BY <1>1, <2>6 DEF WritePayment, StepHolds
    <3>2. arg[r].payment \in Payments
      BY <1>1, <3>1 DEF InputHolds, Tables
    <3>3. p # arg[r].payment BY <1>2, <3>2 DEF LedgerAssumption
    <3>4. wrote'[r] = wrote[r] \cup {arg[r].payment} /\ pc'[r] = "sum" /\ arg' = arg
      BY <1>1, <2>6 DEF WritePayment, Goto, Sessions
    <3> QED BY <2>0, <3>1, <3>3, <3>4 DEF Found
  <2>7. CASE FindProject(r)
    <3>1. pc'[r] = "commit" /\ UNCHANGED <<arg, wrote>>
      BY <1>1, <1>6, <2>7 DEF FindProject, StillThere, Goto, Sessions
    <3>2. arg[r].op # "create_payment" BY <2>0, <2>7 DEF FindProject
    <3> QED BY <2>0, <3>1, <3>2 DEF Found
  <2>8. ~WriteProject(r) BY <2>0 DEF WriteProject
  <2>9. ~Commit(r) /\ ~Fail(r) BY <1>6 DEF Commit, Fail, Raise
  <2> QED BY <1>6, <2>1, <2>2, <2>3, <2>4, <2>5, <2>6, <2>7, <2>8, <2>9 DEF Step
<1> QED BY <1>3, <1>4, <1>5, <1>6

LEMMA OthersStay ==
  ASSUME LedgerInv, NEW r \in Requests, NEW q \in Requests \ {r}, NEW p,
         Arrive(r) \/ Step(r) \/ Fail(r)
  PROVE  Found(q, p)' = Found(q, p)
<1>1. Sessions BY DEF LedgerInv
<1>2. arg'[q] = arg[q] /\ pc'[q] = pc[q] /\ wrote'[q] = wrote[q]
  <2>1. CASE Arrive(r)
    <3>1. PICK in \in Inputs, label \in Labels : Begin(r, in, label)
      BY <2>1, ArriveIsBegin
    <3> QED BY <1>1, <3>1 DEF Begin, Goto, Sessions
  <2>2. CASE Advances(r) BY <1>1, <2>2 DEF Advances, Sessions
  <2>3. CASE End(r) BY <1>1, <2>3, EndFrees
  <2> QED BY <2>1, <2>2, <2>3, StepKinds DEF Raise, Commit
<1> QED BY <1>2 DEF Found

LEMMA StepFrozen ==
  ASSUME LedgerInv, LedgerAssumption, [Next]_vars, NEW p \in deleted,
         \A r \in Requests : ~Found(r, p)
  PROVE  /\ p \in deleted'
         /\ status'[p] = status[p] /\ total_paid'[p] = total_paid[p]
         /\ {x \in live' : project_of'[x] = p} \subseteq {x \in live : project_of[x] = p}
         /\ \A r \in Requests : ~Found(r, p)'
<1>1. CASE UNCHANGED vars BY <1>1 DEF vars, Found
<1>2. ASSUME NEW r \in Requests, Arrive(r) \/ Step(r) \/ Fail(r)
      PROVE  \A q \in Requests : ~Found(q, p)'
  <2>1. ~Found(r, p)' BY <1>2, NeverFound
  <2>2. \A q \in Requests \ {r} : ~Found(q, p)' BY <1>2, OthersStay
  <2> QED BY <2>1, <2>2
<1>3. CASE db' = db BY <1>1, <1>2, <1>3 DEF db, Next
<1>4. CASE db' # db
  <2>1. PICK r \in Requests : Commit(r) BY <1>4, OnlyCommitWrites
  <2>2. ~Found(r, p) OBVIOUS
  <2> QED BY <1>1, <1>2, <2>1, <2>2, EntryFrozen DEF Next
<1> QED BY <1>3, <1>4

\* A soft-deleted project keeps its status and its total and gets no new payment,
\* whatever the requests do that had not found it before the deletion was
\* committed.  (They may amend and remove the payments it has.)
THEOREM DeletedFrozen == Spec => DeletedProjectFrozen
<1>1. LedgerInv /\ LedgerAssumption /\ [Next]_vars =>
        [\A p \in deleted :
           (\A r \in Requests : ~Found(r, p)) =>
             /\ p \in deleted'
             /\ status'[p] = status[p] /\ total_paid'[p] = total_paid[p]
             /\ {x \in live' : project_of'[x] = p} \subseteq {x \in live : project_of[x] = p}
             /\ \A r \in Requests : ~Found(r, p)']_vars
  BY StepFrozen
<1>2. LedgerAssumption BY LedgerAssumption
<1> QED BY <1>1, <1>2, InvariantHolds, PTL DEF Spec, DeletedProjectFrozen

--------------------------------------------------------------------------------
\* The numbers of the tables and of the sessions.
Numbers ==
  /\ total_paid \in [Projects -> Nat]
  /\ loaded \in [Requests -> Nat]
  /\ total \in [Requests -> Nat]
  /\ wrote \in [Requests -> SUBSET (Projects \cup Payments)]

\* A payment request that runs alone on its project: the sum it has selected
\* is the one its commit will leave, what create_payment has loaded is still
\* the total, and a total it does not write is right already.
SumHolds(r) ==
  arg[r].op \in PaymentOps /\ ~overlapped[r] =>
    /\ pc[r] \in {"find_project", "write_project", "commit"} => total[r] = VisibleSum(r)
    /\ arg[r].op = "create_payment" /\ pc[r] \in {"insert", "sum", "find_project"} =>
         loaded[r] = total_paid[arg[r].project]
    /\ pc[r] = "commit" /\ arg[r].project \notin deleted \cup wrote[r] =>
         total_paid[arg[r].project] = total[r]

AccountInv == LedgerInv /\ Numbers /\ \A r \in Requests : SumHolds(r)

LiveOf(p) == {x \in live : project_of[x] = p}

\* The payments of its project as r sees them.
Mine(r) == {x \in LiveAfter(r) : ProjectOfAfter(r)[x] = arg[r].project}

LEMMA AmountsNatural == LedgerAssumption => Amounts \cup {0} \subseteq Nat
BY DEF LedgerAssumption

\* Rows L of which I were inserted and R removed, and those of them on p.
LEMMA RowsOf ==
  ASSUME NEW L \in SUBSET Payments, NEW I \in SUBSET Payments, NEW R, NEW p, NEW of,
         I \cap L = {}
  PROVE  {x \in (L \cup I) \ R :
            [y \in Payments |-> IF y \in I THEN p ELSE of[y]][x] = p}
           = ({x \in L : of[x] = p} \cup I) \ R
<1>1. \A x \in L \cup I :
        [y \in Payments |-> IF y \in I THEN p ELSE of[y]][x]
          = IF x \in I THEN p ELSE of[x]
  OBVIOUS
<1> QED BY <1>1

LEMMA MineIs ==
  ASSUME Tables, NEW r \in Requests, InputHolds(r)
  PROVE  /\ Mine(r) = (LiveOf(arg[r].project) \cup Inserted(r)) \ Removed(r)
         /\ Mine(r) \subseteq Payments
<1>1. Inserted(r) \subseteq Payments \ Recorded
  BY DEF Inserted, Wrote, InputHolds
<1>2. live \subseteq Payments /\ live \subseteq Recorded BY DEF Tables, Recorded
<1>3. Mine(r) = (LiveOf(arg[r].project) \cup Inserted(r)) \ Removed(r)
  BY <1>1, <1>2, RowsOf DEF Mine, LiveOf, LiveAfter, ProjectOfAfter
<1> QED BY <1>1, <1>2, <1>3 DEF LiveOf

LEMMA AmountsSeen ==
  ASSUME LedgerAssumption, Tables, NEW r \in Requests, InputHolds(r)
  PROVE  \A x \in Payments :
           /\ AmountAfter(r)[x] \in Nat
           /\ AmountAfter(r)[x] =
                IF (Wrote(r, "create_payment") \/ Wrote(r, "update_payment"))
                     /\ x = arg[r].payment
                THEN arg[r].amount ELSE amount[x]
<1>1. amount \in [Payments -> Amounts \cup {0}] /\ Amounts \cup {0} \subseteq Nat
  BY AmountsNatural DEF Tables
<1>2. Wrote(r, "create_payment") \/ Wrote(r, "update_payment") => arg[r].amount \in Nat
  BY <1>1 DEF Wrote, InputHolds
<1> QED BY <1>1, <1>2 DEF AmountAfter

LEMMA SumSeen ==
  ASSUME LedgerAssumption, Tables, NEW r \in Requests, InputHolds(r)
  PROVE  /\ VisibleSum(r) = SumFunctionOnSet(AmountAfter(r), Mine(r))
         /\ IsFiniteSet(Mine(r)) /\ Natural(AmountAfter(r), Mine(r))
         /\ VisibleSum(r) \in Nat
<1>1. VisibleSum(r) = SumFunctionOnSet(AmountAfter(r), Mine(r))
  BY DEF VisibleSum, Mine
<1>2. Mine(r) \subseteq Payments BY MineIs
<1>3. IsFiniteSet(Mine(r)) BY <1>2, FS_Subset DEF LedgerAssumption
<1>4. Natural(AmountAfter(r), Mine(r)) BY <1>2, AmountsSeen DEF Natural
<1> QED BY <1>1, <1>3, <1>4, SumNatural

LEMMA InitNumbers ==
  ASSUME LedgerAssumption, Init PROVE AccountInv
<1>1. LedgerInv BY InitHolds
<1>2. \A p \in Projects : Paid(p) \in Nat
  <2> TAKE p \in Projects
  <2> DEFINE S == {x \in live : project_of[x] = p}
  <2>1. Tables BY <1>1 DEF LedgerInv
  <2>2. S \subseteq Payments BY <2>1 DEF Tables, Recorded
  <2>3. IsFiniteSet(S) BY <2>2, FS_Subset DEF LedgerAssumption
  <2>4. Natural(amount, S) BY <2>1, <2>2, AmountsNatural DEF Natural, Tables
  <2>5. Paid(p) = SumFunctionOnSet(amount, S) BY DEF Paid, SumOf
  <2> QED BY <2>3, <2>4, <2>5, SumNatural
<1>3. Numbers BY <1>2 DEF Init, Numbers
<1>4. \A r \in Requests : SumHolds(r) BY NoInputTyped DEF Init, SumHolds, PaymentOps
<1> QED BY <1>1, <1>3, <1>4 DEF AccountInv

--------------------------------------------------------------------------------
\* What r sees stays when its own rows, input and writes of payments do.
LEMMA SeesTheSame ==
  ASSUME NEW r \in Requests, UNCHANGED db, arg'[r] = arg[r],
         arg[r].payment \in wrote'[r] <=> arg[r].payment \in wrote[r]
  PROVE  VisibleSum(r)' = VisibleSum(r)
<1>1. \A op : Wrote(r, op)' <=> Wrote(r, op) BY DEF Wrote
<1>2. Inserted(r)' = Inserted(r) /\ Removed(r)' = Removed(r)
  BY DEF Inserted, Removed, Wrote
<1>3. AmountAfter(r)' = AmountAfter(r) BY DEF AmountAfter, Wrote, db
<1>4. ProjectOfAfter(r)' = ProjectOfAfter(r) BY <1>2 DEF ProjectOfAfter, db
<1>5. LiveAfter(r)' = LiveAfter(r) BY <1>2 DEF LiveAfter, db
<1> QED BY <1>3, <1>4, <1>5 DEF VisibleSum

\* A request between two awaits keeps what it knows of its sum.
LEMMA SumFrame ==
  ASSUME NEW r \in Requests, SumHolds(r), UNCHANGED db,
         arg'[r] = arg[r], pc'[r] = pc[r], wrote'[r] = wrote[r],
         loaded'[r] = loaded[r], total'[r] = total[r],
         overlapped[r] => overlapped'[r]
  PROVE  SumHolds(r)'
<1>1. VisibleSum(r)' = VisibleSum(r) BY SeesTheSame
<1> QED BY <1>1 DEF SumHolds, db

\* The payments of p, when a request of another project commits.
LEMMA EntryAway ==
  ASSUME LedgerInv, NEW r \in Requests, Entry(r), NEW p \in known,
         arg[r].op \in PaymentOps => arg[r].project # p
  PROVE  LiveOf(p)' = LiveOf(p) /\ \A x \in LiveOf(p) : amount'[x] = amount[x]
<1> DEFINE Kept == LiveOf(p)' = LiveOf(p) /\ \A x \in LiveOf(p) : amount'[x] = amount[x]
<1> USE DEF LiveOf
<1>1. Tables /\ InputHolds(r) BY DEF LedgerInv
<1>3. CASE UNCHANGED <<known, status, deleted, live, trashed, project_of, amount>>
  BY <1>3
<1>4. CASE arg[r].op = "create_project" /\ Books!Open(arg[r].project)
  BY <1>4 DEF Books!Open
<1>5. CASE arg[r].op = "change_status" /\ Books!Move(arg[r].project, arg[r].status)
  BY <1>5 DEF Books!Move
<1>6. CASE arg[r].op = "delete_project" /\ Books!Delete(arg[r].project)
  BY <1>6 DEF Books!Delete
<1>7. CASE arg[r].op = "create_payment"
             /\ Books!Record(arg[r].payment, arg[r].project, arg[r].amount)
  <2>1. arg[r].payment \notin Recorded /\ arg[r].payment \in Payments
    BY <1>1, <1>7 DEF InputHolds
  <2>2. arg[r].project # p BY <1>7 DEF PaymentOps
  <2> QED BY <1>1, <1>7, <2>1, <2>2 DEF Tables, Recorded, Books!Record
<1>8. CASE arg[r].op = "update_payment" /\ Books!Amend(arg[r].payment, arg[r].amount)
  <2>1. project_of[arg[r].payment] # p /\ arg[r].payment \in Payments
    BY <1>1, <1>8 DEF InputHolds, PaymentOps, Tables
  <2> QED BY <1>1, <1>8, <2>1 DEF Tables, Recorded, Books!Amend
<1>9. CASE arg[r].op = "delete_payment" /\ Books!Remove(arg[r].payment)
  <2>1. project_of[arg[r].payment] # p
    BY <1>1, <1>9 DEF InputHolds, PaymentOps
  <2> QED BY <1>9, <2>1 DEF Books!Remove
<1> QED BY <1>3, <1>4, <1>5, <1>6, <1>7, <1>8, <1>9 DEF Entry

\* A commit leaves the sum that another request, alone on its project, sees.
LEMMA CommitAway ==
  ASSUME LedgerInv, LedgerAssumption, NEW r \in Requests, Commit(r), NEW q \in Requests \ {r},
         arg[q].op \in PaymentOps, ~overlapped[q]
  PROVE  /\ VisibleSum(q)' = VisibleSum(q)
         /\ total_paid'[arg[q].project] = total_paid[arg[q].project]
         /\ deleted \subseteq deleted'
<1>0. PICK p : p = arg[q].project OBVIOUS
<1>1. Tables /\ Sessions /\ InputHolds(q) /\ InputHolds(r) /\ Apart(q, r)
  BY DEF LedgerInv
<1>2. LedgerInv' /\ Tables' /\ InputHolds(q)' BY CommitHolds DEF LedgerInv
<1>3. arg'[q] = arg[q] /\ wrote'[q] = wrote[q]
  BY <1>1, EndFrees DEF Commit
<1>4. p \in known /\ p \in Projects
  BY <1>0, <1>1 DEF InputHolds, Tables
<1>5. arg[r].op \in PaymentOps => arg[r].project # p
  BY <1>0, <1>1 DEF Apart, SameKind
<1>6. Entry(r) BY CommitIsEntry
<1>7. total_paid'[p] = total_paid[p]
  <2>1. arg[r].op = "create_project" => arg[r].project # p
    BY <1>1, <1>4 DEF InputHolds
  <2> QED BY <1>1, <1>4, <1>5, <2>1 DEF Commit, CommitProject, Tables
<1>8. deleted \subseteq deleted' BY DEF Commit, CommitProject
<1>9. LiveOf(p)' = LiveOf(p) /\ \A x \in LiveOf(p) : amount'[x] = amount[x]
  BY <1>4, <1>5, <1>6, EntryAway
<1>10. Inserted(q)' = Inserted(q) /\ Removed(q)' = Removed(q)
         /\ \A op : Wrote(q, op)' <=> Wrote(q, op)
  BY <1>3 DEF Inserted, Removed, Wrote
<1>11. /\ Mine(q) = (LiveOf(p) \cup Inserted(q)) \ Removed(q) /\ Mine(q) \subseteq Payments
       /\ Mine(q)' = (LiveOf(p)' \cup Inserted(q)) \ Removed(q)
  <2>1. Mine(q) = (LiveOf(p) \cup Inserted(q)) \ Removed(q) /\ Mine(q) \subseteq Payments
    BY <1>0, <1>1, MineIs
  <2>2. Inserted(q) \in SUBSET Payments /\ Inserted(q) \cap live' = {} /\ live' \in SUBSET Payments
    BY <1>2, <1>3, <1>10 DEF Inserted, Wrote, InputHolds, Tables, Recorded
  <2>3. /\ LiveAfter(q)' = (live' \cup Inserted(q)) \ Removed(q)
        /\ ProjectOfAfter(q)'
             = [y \in Payments |-> IF y \in Inserted(q) THEN p ELSE project_of'[y]]
    BY <1>0, <1>3, <1>10 DEF LiveAfter, ProjectOfAfter
  <2>4. Mine(q)' = {x \in LiveAfter(q)' : ProjectOfAfter(q)'[x] = p}
    BY <1>0, <1>3 DEF Mine
  <2> QED BY <2>1, <2>2, <2>3, <2>4, RowsOf DEF LiveOf
<1>12. Mine(q)' = Mine(q) BY <1>9, <1>10, <1>11
<1>13. \A x \in Mine(q) : AmountAfter(q)[x] = AmountAfter(q)'[x]
  <2> TAKE x \in Mine(q)
  <2>1. x \in Payments BY <1>11
  <2>2. AmountAfter(q)[x] =
          IF (Wrote(q, "create_payment") \/ Wrote(q, "update_payment")) /\ x = arg[q].payment
          THEN arg[q].amount ELSE amount[x]
    BY <1>1, <2>1, AmountsSeen
  <2>3. AmountAfter(q)'[x] =
          IF (Wrote(q, "create_payment") \/ Wrote(q, "update_payment")) /\ x = arg[q].payment
          THEN arg[q].amount ELSE amount'[x]
    <3>1. amount' \in [Payments -> Amounts \cup {0}] BY <1>2 DEF Tables
    <3>2. AmountAfter(q)' = IF Wrote(q, "create_payment") \/ Wrote(q, "update_payment")
                            THEN [amount' EXCEPT ![arg[q].payment] = arg[q].amount]
                            ELSE amount'
      BY <1>3, <1>10 DEF AmountAfter
    <3> QED BY <2>1, <3>1, <3>2
  <2>4. CASE x \in LiveOf(p) BY <1>9, <2>2, <2>3, <2>4
  <2>5. CASE x \in Inserted(q)
    <3>1. Wrote(q, "create_payment") /\ x = arg[q].payment BY <2>5 DEF Inserted
    <3> QED BY <2>2, <2>3, <3>1
  <2> QED BY <1>11, <2>4, <2>5
<1>14. /\ VisibleSum(q) = SumFunctionOnSet(AmountAfter(q), Mine(q))
       /\ IsFiniteSet(Mine(q)) /\ Natural(AmountAfter(q), Mine(q))
  BY <1>1, SumSeen
<1>15. VisibleSum(q)' = SumFunctionOnSet(AmountAfter(q)', Mine(q)')
  BY DEF VisibleSum, Mine
<1>16. VisibleSum(q)' = VisibleSum(q)
  BY <1>12, <1>13, <1>14, <1>15, SumAgrees
<1> QED BY <1>0, <1>7, <1>8, <1>16

--------------------------------------------------------------------------------
\* What a step of r leaves of another request.
LEMMA Elsewhere ==
  ASSUME LedgerInv, Numbers, NEW r \in Requests, NEW q \in Requests \ {r},
         Arrive(r) \/ Step(r) \/ Fail(r)
  PROVE  /\ pc'[q] = pc[q] /\ arg'[q] = arg[q] /\ wrote'[q] = wrote[q]
         /\ loaded'[q] = loaded[q] /\ total'[q] = total[q]
         /\ overlapped[q] => overlapped'[q]
<1>1. Sessions BY DEF LedgerInv
<1>2. CASE Arrive(r)
  <2>1. PICK in \in Inputs, label \in Labels : Begin(r, in, label)
    BY <1>2, ArriveIsBegin
  <2> QED BY <1>1, <2>1 DEF Begin, Goto, Sessions, orm
<1>3. CASE End(r)
  BY <1>1, <1>3, EndFrees DEF End, Numbers
<1>4. CASE (Step(r) \/ Fail(r)) /\ ~End(r)
  <2> USE DEF Goto, orm
  <2>1. CASE Local(r)
    BY <1>1, <2>1 DEF Local, InsertProject, InsertPayment, FindPayment, WritePayment,
                      SumPayments, FindProject, WriteProject, Sessions, Numbers
  <2>2. CASE ReadProject(r) \/ ReadPayment(r)
    BY <1>1, <1>4, <2>2 DEF ReadProject, ReadPayment, Raise, Sessions, Numbers
  <2> QED BY <1>4, <2>1, <2>2 DEF Step, Local, Fail, Raise, Commit
<1> QED BY <1>2, <1>3, <1>4

\* The rows a request writes are those of its input.
LEMMA NumbersHold ==
  ASSUME AccountInv, LedgerAssumption, NEW r \in Requests, Arrive(r) \/ Step(r) \/ Fail(r)
  PROVE  Numbers'
<1>1. /\ LedgerInv /\ Tables /\ Sessions /\ InputHolds(r) /\ StepHolds(r)
      /\ Numbers
  BY DEF AccountInv, LedgerInv
<1>2. arg[r] \in Inputs BY <1>1 DEF Sessions
<1>3. CASE Arrive(r)
  <2>1. PICK in \in Inputs, label \in Labels : Begin(r, in, label)
    BY <1>1, <1>3, ArriveIsBegin
  <2> QED BY <1>1, <2>1 DEF Begin, Numbers, db, orm
<1>4. CASE Raise(r)
  BY <1>1, <1>4 DEF Raise, End, Numbers, db
<1>5. CASE Commit(r)
  <2>1. total[r] \in Nat BY <1>1 DEF Numbers
  <2>2. total_paid' \in [Projects -> Nat]
    BY <1>1, <1>5, <2>1 DEF Commit, CommitProject, Numbers
  <2> QED BY <1>1, <1>5, <2>2 DEF Commit, End, Numbers
<1>6. CASE InsertProject(r)
  <2>1. arg[r].project \in Projects BY <1>1, <1>6 DEF InsertProject, StepHolds, InputHolds
  <2> QED BY <1>1, <1>6, <2>1 DEF InsertProject, Numbers, db, orm
<1>7. CASE ReadProject(r) /\ ~Raise(r)
  <2>1. arg[r].op = "create_payment" => total_paid[arg[r].project] \in Nat
    BY <1>1 DEF InputHolds, Tables, Numbers, PaymentOps
  <2>2. /\ UNCHANGED <<db, total, wrote>>
        /\ \/ arg[r].op = "create_payment"
              /\ loaded' = [loaded EXCEPT ![r] = total_paid[arg[r].project]]
           \/ UNCHANGED loaded
    BY <1>7 DEF ReadProject
  <2> QED BY <1>1, <2>1, <2>2 DEF Numbers, db
<1>8. CASE ReadPayment(r) /\ ~Raise(r)
  <2>1. /\ UNCHANGED <<db, total, wrote>> /\ arg[r].payment \in live
        /\ loaded' = [loaded EXCEPT ![r] = amount[arg[r].payment]]
    BY <1>8 DEF ReadPayment
  <2>2. amount[arg[r].payment] \in Nat
    BY <1>1, <2>1, AmountsNatural DEF Tables, Recorded
  <2> QED BY <1>1, <2>1, <2>2 DEF Numbers, db
<1>9. CASE InsertPayment(r)
  <2>1. arg[r].payment \in Payments BY <1>1, <1>9 DEF InsertPayment, StepHolds, InputHolds
  <2> QED BY <1>1, <1>9, <2>1 DEF InsertPayment, Numbers, db, orm
<1>10. CASE FindPayment(r)
  BY <1>1, <1>10 DEF FindPayment, Numbers, db
<1>11. CASE WritePayment(r)
  <2>1. arg[r].payment \in Payments
    BY <1>1, <1>11 DEF WritePayment, StepHolds, InputHolds, Tables
  <2> QED BY <1>1, <1>11, <2>1 DEF WritePayment, Numbers, db, orm
<1>12. CASE SumPayments(r)
  <2>1. VisibleSum(r) \in Nat BY <1>1, SumSeen
  <2> QED BY <1>1, <1>12, <2>1 DEF SumPayments, Numbers, db
<1>13. CASE FindProject(r)
  BY <1>1, <1>13 DEF FindProject, Numbers, db
<1>14. CASE WriteProject(r)
  <2>1. arg[r].op \in PaymentOps \cup ProjectOps
    BY <1>1, <1>2, <1>14 DEF WriteProject, StepHolds, Inputs
  <2>2. arg[r].project \in Projects
    BY <1>1, <2>1 DEF InputHolds, Tables, ProjectOps
  <2> QED BY <1>1, <1>14, <2>2 DEF WriteProject, Numbers, db, orm
<1> QED BY <1>3, <1>4, <1>5, <1>6, <1>7, <1>8, <1>9, <1>10, <1>11, <1>12, <1>13, <1>14
        DEF Step, Fail

\* A request keeps its sum, from the statement that selects it to the commit.
LEMMA OwnSumHolds ==
  ASSUME AccountInv, LedgerAssumption, NEW r \in Requests, Arrive(r) \/ Step(r) \/ Fail(r)
  PROVE  SumHolds(r)'
<1>1. /\ LedgerInv /\ Tables /\ Sessions /\ InputHolds(r) /\ StepHolds(r)
      /\ Numbers /\ SumHolds(r)
  BY DEF AccountInv, LedgerInv
<1>2. CASE Arrive(r)
  <2>1. PICK in \in Inputs, label \in Labels : Admitted(in, label) /\ Begin(r, in, label)
    BY <1>1, <1>2, ArriveIsBegin
  <2>2. pc'[r] \in {"read", "insert_project"}
    BY <1>1, <2>1 DEF Begin, Goto, Admitted, Sessions
  <2> QED BY <2>2 DEF SumHolds
<1>3. CASE End(r)
  <2>1. arg'[r].op = "none" BY <1>1, <1>3, EndFrees, NoInputTyped
  <2> QED BY <2>1 DEF SumHolds, PaymentOps
<1>4. CASE ~End(r) /\ (InsertProject(r) \/ ReadProject(r) \/ ReadPayment(r)
                        \/ InsertPayment(r) \/ FindPayment(r) \/ WritePayment(r))
  <2>1. UNCHANGED <<db, arg, overlapped>>
    BY <1>4 DEF InsertProject, ReadProject, ReadPayment, InsertPayment, FindPayment,
                WritePayment, Raise
  <2>2. \/ arg[r].op \notin PaymentOps
        \/ arg[r].op # "create_payment" /\ pc'[r] \in {"find_payment", "write_payment", "sum"}
        \/ arg[r].op = "create_payment" /\ pc'[r] = "insert"
             /\ loaded'[r] = total_paid[arg[r].project]
        \/ arg[r].op = "create_payment" /\ pc[r] = "insert" /\ pc'[r] = "sum"
             /\ loaded'[r] = loaded[r]
    <3>1. CASE InsertProject(r)
      BY <1>1, <3>1 DEF InsertProject, StepHolds, PaymentOps
    <3>2. CASE ReadProject(r)
      <4>1. CASE arg[r].op = "create_payment"
        BY <1>1, <1>4, <3>2, <4>1 DEF ReadProject, Raise, Goto, Sessions, Numbers
      <4> QED BY <3>2, <4>1 DEF ReadProject, PaymentOps, ProjectOps
    <3>3. CASE ReadPayment(r)
      BY <1>1, <1>4, <3>3 DEF ReadPayment, Raise, Goto, Sessions
    <3>4. CASE InsertPayment(r)
      BY <1>1, <3>4 DEF InsertPayment, StepHolds, Goto, Sessions, orm
    <3>5. CASE FindPayment(r) \/ WritePayment(r)
      BY <1>1, <3>5 DEF FindPayment, WritePayment, StepHolds, Goto, Sessions
    <3> QED BY <1>4, <3>1, <3>2, <3>3, <3>4, <3>5
  <2> QED BY <1>1, <2>1, <2>2 DEF SumHolds, db
<1>5. CASE SumPayments(r)
  <2>1. /\ total'[r] = VisibleSum(r) /\ pc'[r] = "find_project" /\ pc[r] = "sum"
        /\ UNCHANGED <<db, arg, loaded, wrote, overlapped>>
    BY <1>1, <1>5 DEF SumPayments, Goto, Sessions, Numbers
  <2>2. VisibleSum(r)' = VisibleSum(r) BY <2>1, SeesTheSame
  <2> QED BY <1>1, <2>1, <2>2 DEF SumHolds, db
<1>6. CASE FindProject(r)
  <2>1. /\ pc[r] = "find_project" /\ pc'[r] \in {"write_project", "commit"}
        /\ UNCHANGED <<db, arg, total, wrote, overlapped>>
    BY <1>1, <1>6 DEF FindProject, Goto, Sessions
  <2>2. VisibleSum(r)' = VisibleSum(r) BY <2>1, SeesTheSame
  <2>3. pc'[r] = "commit" /\ arg[r].op \in PaymentOps /\ arg[r].project \notin deleted =>
          total[r] = IF arg[r].op = "create_payment" THEN loaded[r]
                     ELSE total_paid[arg[r].project]
    BY <1>1, <1>6 DEF FindProject, Goto, Sessions, StillThere
  <2> QED BY <1>1, <2>1, <2>2, <2>3 DEF SumHolds, db
<1>7. CASE WriteProject(r)
  <2>1. /\ pc[r] = "write_project" /\ pc'[r] = "commit"
        /\ UNCHANGED <<db, arg, loaded, total, overlapped>>
        /\ wrote'[r] = wrote[r] \cup {arg[r].project}
    BY <1>1, <1>7 DEF WriteProject, Goto, Sessions, Numbers, orm
  <2>2. SUFFICES ASSUME arg[r].op \in PaymentOps, ~overlapped[r] PROVE SumHolds(r)'
    BY <2>1 DEF SumHolds
  <2>3. arg[r].payment \in Payments /\ arg[r].project \in Projects
    BY <1>1, <2>2 DEF InputHolds, Tables, PaymentOps
  <2>4. arg[r].payment # arg[r].project BY <2>3 DEF LedgerAssumption
  <2>5. VisibleSum(r)' = VisibleSum(r) BY <2>1, <2>4, SeesTheSame
  <2> QED BY <1>1, <2>1, <2>5 DEF SumHolds
<1>8. CASE Commit(r) \/ Fail(r)
  BY <1>3, <1>8 DEF Commit, Fail, Raise
<1> QED BY <1>2, <1>3, <1>4, <1>5, <1>6, <1>7, <1>8 DEF Step

LEMMA AccountHolds ==
  ASSUME AccountInv, LedgerAssumption, [Next]_vars PROVE AccountInv'
<1>1. LedgerInv /\ LedgerInv' BY NextHolds DEF AccountInv
<1>2. CASE UNCHANGED vars
  <2>1. UNCHANGED <<db, arg, pc, wrote, loaded, total, overlapped>> BY <1>2 DEF vars, db
  <2>2. \A r \in Requests : SumHolds(r)' BY <2>1, SumFrame DEF AccountInv
  <2> QED BY <1>1, <2>1, <2>2 DEF AccountInv, Numbers, db
<1>3. ASSUME NEW r \in Requests, Arrive(r) \/ Step(r) \/ Fail(r) PROVE AccountInv'
  <2>1. Numbers' BY <1>3, NumbersHold
  <2>2. SumHolds(r)' BY <1>3, OwnSumHolds
  <2>3. ASSUME NEW q \in Requests \ {r} PROVE SumHolds(q)'
    <3>1. SumHolds(q) /\ Numbers BY DEF AccountInv
    <3>2. /\ pc'[q] = pc[q] /\ arg'[q] = arg[q] /\ wrote'[q] = wrote[q]
          /\ loaded'[q] = loaded[q] /\ total'[q] = total[q]
          /\ overlapped[q] => overlapped'[q]
      BY <1>1, <1>3, <3>1, Elsewhere
    <3>3. CASE db' = db BY <3>1, <3>2, <3>3, SumFrame
    <3>4. CASE Commit(r)
      <4>1. SUFFICES ASSUME arg[q].op \in PaymentOps, ~overlapped[q] PROVE SumHolds(q)'
        BY <3>2 DEF SumHolds
      <4>2. /\ VisibleSum(q)' = VisibleSum(q)
            /\ total_paid'[arg[q].project] = total_paid[arg[q].project]
            /\ deleted \subseteq deleted'
        BY <1>1, <3>4, <4>1, CommitAway
      <4> QED BY <3>1, <3>2, <4>1, <4>2 DEF SumHolds
    <3>5. db' = db \/ Commit(r)
      <4>1. CASE Arrive(r)
        <5>1. PICK in \in Inputs, label \in Labels : Begin(r, in, label)
          BY <1>1, <4>1, ArriveIsBegin
        <5> QED BY <5>1 DEF Begin
      <4>2. CASE Advances(r) \/ Raise(r) BY <4>2 DEF Advances, Raise
      <4> QED BY <1>1, <1>3, <4>1, <4>2, StepKinds
    <3> QED BY <3>3, <3>4, <3>5
  <2> QED BY <1>1, <2>1, <2>2, <2>3 DEF AccountInv
<1> QED BY <1>2, <1>3 DEF Next

LEMMA AccountInvariance == Spec => []AccountInv
<1>1. LedgerAssumption BY LedgerAssumption
<1>2. LedgerAssumption /\ Init => AccountInv BY InitNumbers
<1>3. LedgerAssumption /\ AccountInv /\ [Next]_vars => AccountInv' BY AccountHolds
<1> QED BY <1>1, <1>2, <1>3, PTL DEF Spec

\* TypeOK of ProjectLedger: totals and sums are natural numbers, and a session
\* writes and locks rows of projects and payments only.
THEOREM TypeCorrect == Spec => []TypeOK
<1>1. AccountInv => TypeOK
  BY DEF AccountInv, LedgerInv, Tables, Sessions, Numbers, Recorded, TypeOK
<1> QED BY <1>1, AccountInvariance, PTL

LEMMA CommitHeals ==
  ASSUME AccountInv, LedgerAssumption, [Next]_vars, NEW r \in Requests,
         NEW p \in known \ deleted, Commits(r), arg[r].project = p,
         arg[r].op \in PaymentOps, ~overlapped[r]
  PROVE  total_paid'[p] = Paid(p)'
<1>1. LedgerInv /\ Tables /\ Sessions /\ SumHolds(r) /\ Numbers
  BY DEF AccountInv, LedgerInv
<1>2. pc[r] = "commit" /\ pc'[r] = "idle" /\ db' # db BY DEF Commits
<1>3. PICK q \in Requests : Commit(q) BY <1>1, <1>2, OnlyCommitWrites
<1>4. q = r BY <1>1, <1>2, <1>3, EndFrees DEF Commit
<1>5. CommitPayments(r) /\ CommitProject(r) BY <1>3, <1>4 DEF Commit
<1>6. Paid(p)' = SumFunctionOnSet(AmountAfter(r),
                   {x \in LiveAfter(r) : ProjectOfAfter(r)[x] = p})
  BY <1>5 DEF CommitPayments, Paid, SumOf
<1>7. Paid(p)' = VisibleSum(r) BY <1>6 DEF VisibleSum
<1>8. total[r] = VisibleSum(r) BY <1>1, <1>2 DEF SumHolds
<1>9. p \in Projects BY <1>1 DEF Tables
<1>10. total_paid'[p] = IF p \in wrote[r] THEN total[r] ELSE total_paid[p]
  BY <1>1, <1>5, <1>9 DEF CommitProject, Numbers
<1>11. p \notin wrote[r] => total_paid[p] = total[r]
  BY <1>1, <1>2 DEF SumHolds
<1> QED BY <1>7, <1>8, <1>10, <1>11

\* recalculate_total_paid: a payment request that no other payment request of
\* its project overlaps leaves total_paid equal to the sum of the payments.
THEOREM HealsTheTotal == Spec => LedgerHeals
<1>1. LedgerAssumption BY LedgerAssumption
<1>2. AccountInv /\ LedgerAssumption /\ [Next]_vars =>
        [\A r \in Requests, p \in known \ deleted :
           /\ Commits(r) /\ arg[r].project = p
           /\ arg[r].op \in PaymentOps /\ ~overlapped[r]
           => total_paid'[p] = Paid(p)']_vars
  BY CommitHeals
<1> QED BY <1>1, <1>2, AccountInvariance, PTL DEF Spec, LedgerHeals

--------------------------------------------------------------------------------
(***************************************************************************)
(* Row locks, with any number of requests in flight.                       *)
(***************************************************************************)
\* The row that the next statement of r updates.
Wants(r) ==
  IF pc[r] = "write_payment" THEN {arg[r].payment}
  ELSE IF pc[r] = "write_project" THEN {arg[r].project} ELSE {}

WaitsFor(r, q) == q # r /\ wrote[q] \cap Wants(r) # {}
Waits(r) == \E q \in Requests : WaitsFor(r, q)

\* A request writes its own two rows, the payment before the project.
Locks(r) ==
  /\ wrote[r] \subseteq ({arg[r].project} \cap Projects) \cup ({arg[r].payment} \cap Payments)
  /\ wrote[r] # {} => pc[r] \in {"sum", "find_project", "write_project", "commit"}
  /\ wrote[r] \cap Projects # {} => pc[r] = "commit"
  /\ wrote[r] \cap Payments # {} => arg[r].op \in PaymentOps

LocksHold ==
  /\ \A r \in Requests : Locks(r)
  /\ \A q, r \in Requests : q # r => wrote[q] \cap wrote[r] = {}

\* No two transactions in flight have written the same row; a chain of waits
\* ends after two, so none closes; and while a request is on its way there is
\* one that waits for nobody.
RowLocksSound ==
  /\ \A q, r \in Requests : q # r => wrote[q] \cap wrote[r] = {}
  /\ \A q1, q2, q3, q4 \in Requests :
       ~(WaitsFor(q1, q2) /\ WaitsFor(q2, q3) /\ WaitsFor(q3, q4))
  /\ (\E r \in Requests : pc[r] # "idle") =>
       \E r \in Requests : pc[r] # "idle" /\ ~Waits(r)

\* The guards of the steps that wait are about these waits.
LEMMA GuardsAreWaits ==
  ASSUME NEW r \in Requests, ~Waits(r)
  PROVE  /\ pc[r] = "write_payment" => Unlocked(r, arg[r].payment)
         /\ pc[r] = "write_project" => Unlocked(r, arg[r].project)
BY DEF Waits, WaitsFor, Wants, Unlocked

\* The row that r comes to hold, if any, nobody else has written.
LEMMA StepLocks ==
  ASSUME LedgerInv, LocksHold, LedgerAssumption, NEW r \in Requests,
         Arrive(r) \/ Step(r) \/ Fail(r)
  PROVE  /\ Locks(r)'
         /\ \A q \in Requests \ {r} : /\ pc'[q] = pc[q] /\ arg'[q] = arg[q]
                                      /\ wrote'[q] = wrote[q]
                                      /\ wrote[q] \cap wrote'[r] = {}
<1>1. Tables /\ Sessions /\ InputHolds(r) /\ StepHolds(r) /\ Locks(r)
  BY DEF LedgerInv, LocksHold
<1>2. \A q \in Requests \ {r} :
        /\ InputHolds(q) /\ Locks(q) /\ Apart(q, r) /\ wrote[q] \cap wrote[r] = {}
  BY DEF LedgerInv, LocksHold
<1>3. CASE Arrive(r)
  <2>1. PICK in \in Inputs, label \in Labels : Begin(r, in, label)
    BY <1>3, ArriveIsBegin
  <2>2. wrote[r] = {} /\ wrote' = wrote /\ arg' = [arg EXCEPT ![r] = in]
        /\ pc' = [pc EXCEPT ![r] = label]
    BY <1>1, <2>1 DEF Begin, StepHolds, Goto
  <2> QED BY <1>1, <2>2 DEF Locks, Sessions
<1>4. CASE End(r)
  <2>1. /\ pc'[r] = "idle" /\ arg'[r] = NoInput /\ wrote'[r] = {}
        /\ \A q \in Requests \ {r} :
             /\ pc'[q] = pc[q] /\ arg'[q] = arg[q] /\ wrote'[q] = wrote[q]
    BY <1>1, <1>4, EndFrees
  <2> QED BY <2>1 DEF Locks
<1>5. CASE (ReadProject(r) \/ ReadPayment(r)) /\ ~Raise(r)
  <2>1. /\ UNCHANGED <<arg, wrote>> /\ wrote[r] = {}
        /\ Goto(r, "insert") \/ Goto(r, "find_project") \/ Goto(r, "find_payment")
    BY <1>1, <1>5 DEF ReadProject, ReadPayment, Locks
  <2> QED BY <1>1, <2>1 DEF Goto, Locks, Sessions
<1>6. CASE FindPayment(r) \/ SumPayments(r) \/ FindProject(r)
  <2>1. /\ UNCHANGED <<arg, wrote>>
        /\ pc[r] \in {"find_payment", "sum", "find_project"}
        /\ \/ pc[r] = "find_payment" /\ (Goto(r, "write_payment") \/ Goto(r, "sum"))
           \/ pc[r] = "sum" /\ Goto(r, "find_project")
           \/ pc[r] = "find_project" /\ (Goto(r, "write_project") \/ Goto(r, "commit"))
    BY <1>6 DEF FindPayment, SumPayments, FindProject
  <2> QED BY <1>1, <1>2, <2>1 DEF Goto, Locks, Sessions
<1>7. CASE InsertProject(r)
  <2>1. /\ pc[r] = "insert_project" /\ arg' = arg
        /\ wrote' = [wrote EXCEPT ![r] = {arg[r].project}]
        /\ pc' = [pc EXCEPT ![r] = "commit"]
    BY <1>7 DEF InsertProject, Goto
  <2>2. arg[r].op = "create_project" /\ arg[r].project \in Projects \ known
    BY <1>1, <2>1 DEF StepHolds, InputHolds
  <2>3. ASSUME NEW q \in Requests \ {r}, arg[r].project \in wrote[q] PROVE FALSE
    <3>1. arg[q].project = arg[r].project /\ pc[q] = "commit"
      BY <1>2, <2>2, <2>3 DEF Locks, LedgerAssumption
    <3>2. arg[q].op # "create_project" BY <1>2, <2>2, <3>1 DEF Apart
    <3>3. arg[q].op \in PaymentOps \cup {"change_status", "delete_project"}
      <4>1. arg[q].op \in PaymentOps \cup ProjectOps \cup {"none"} BY <1>1 DEF Sessions, Inputs
      <4>2. StepHolds(q) BY DEF LedgerInv
      <4> QED BY <3>1, <3>2, <4>1, <4>2 DEF StepHolds, ProjectOps
    <3> QED BY <1>2, <2>2, <3>1, <3>3 DEF InputHolds
  <2> QED BY <1>1, <1>2, <2>1, <2>2, <2>3 DEF Locks, Sessions, LedgerAssumption
<1>8. CASE InsertPayment(r) \/ WritePayment(r)
  <2>1. /\ pc[r] \in {"insert", "write_payment"} /\ arg' = arg
        /\ wrote' = [wrote EXCEPT ![r] = @ \cup {arg[r].payment}]
        /\ pc' = [pc EXCEPT ![r] = "sum"]
        /\ pc[r] = "write_payment" => Unlocked(r, arg[r].payment)
    BY <1>8 DEF InsertPayment, WritePayment, Goto
  <2>2. /\ arg[r].op \in PaymentOps /\ arg[r].payment \in Payments /\ wrote[r] = {}
        /\ pc[r] = "insert" => arg[r].op = "create_payment" /\ arg[r].payment \notin Recorded
    BY <1>1, <2>1 DEF StepHolds, InputHolds, Locks, PaymentOps, Tables
  <2>3. ASSUME NEW q \in Requests \ {r}, arg[r].payment \in wrote[q] PROVE FALSE
    <3>1. CASE pc[r] = "write_payment" BY <2>1, <2>3, <3>1 DEF Unlocked
    <3>2. CASE pc[r] = "insert"
      <4>1. arg[q].payment = arg[r].payment /\ arg[q].op \in PaymentOps
        BY <1>2, <2>2, <2>3 DEF Locks, LedgerAssumption
      <4>2. arg[q].op # "create_payment" BY <1>2, <2>2, <3>2, <4>1 DEF Apart
      <4> QED BY <1>2, <2>2, <3>2, <4>1, <4>2 DEF InputHolds, PaymentOps
    <3> QED BY <2>1, <3>1, <3>2
  <2> QED BY <1>1, <1>2, <2>1, <2>2, <2>3 DEF Locks, Sessions, LedgerAssumption
<1>9. CASE WriteProject(r)
  <2>1. /\ pc[r] = "write_project" /\ arg' = arg /\ Unlocked(r, arg[r].project)
        /\ wrote' = [wrote EXCEPT ![r] = @ \cup {arg[r].project}]
        /\ pc' = [pc EXCEPT ![r] = "commit"]
    BY <1>9 DEF WriteProject, Goto
  <2>2. arg[r].op # "none" /\ arg[r].op \in PaymentOps \cup ProjectOps \cup {"none"}
    BY <1>1, <2>1 DEF StepHolds, Sessions, Inputs
  <2>3. arg[r].project \in Projects
    BY <1>1, <2>2 DEF InputHolds, Tables, ProjectOps
  <2>4. \A q \in Requests \ {r} : arg[r].project \notin wrote[q] BY <2>1 DEF Unlocked
  <2> QED BY <1>1, <1>2, <2>1, <2>3, <2>4 DEF Locks, Sessions, LedgerAssumption
<1>10. (Commit(r) \/ Raise(r)) => End(r)
  BY DEF Commit, Raise
<1> QED BY <1>3, <1>4, <1>5, <1>6, <1>7, <1>8, <1>9, <1>10 DEF Step, Fail

LEMMA LocksNext ==
  ASSUME LedgerInv, LocksHold, LedgerAssumption, [Next]_vars PROVE LocksHold'
<1>1. CASE UNCHANGED vars
  BY <1>1 DEF vars, LocksHold, Locks
<1>2. ASSUME NEW r \in Requests, Arrive(r) \/ Step(r) \/ Fail(r) PROVE LocksHold'
  <2>1. /\ Locks(r)'
        /\ \A q \in Requests \ {r} : /\ pc'[q] = pc[q] /\ arg'[q] = arg[q]
                                     /\ wrote'[q] = wrote[q]
                                     /\ wrote[q] \cap wrote'[r] = {}
    BY <1>2, StepLocks
  <2>2. \A q \in Requests \ {r} : Locks(q)' BY <2>1 DEF LocksHold, Locks
  <2>3. \A p, q \in Requests : p # q => wrote'[p] \cap wrote'[q] = {}
    BY <2>1 DEF LocksHold
  <2> QED BY <2>1, <2>2, <2>3 DEF LocksHold
<1> QED BY <1>1, <1>2 DEF Next

LEMMA ShortChains ==
  ASSUME LedgerInv, LocksHold, LedgerAssumption PROVE RowLocksSound
<1>1. ASSUME NEW q \in Requests, NEW r \in Requests, WaitsFor(q, r), Waits(r)
      PROVE  pc[q] = "write_payment" /\ pc[r] = "write_project" /\ pc[r] # "idle"
  <2>1. Locks(r) /\ InputHolds(q) /\ StepHolds(q) /\ Tables /\ Sessions
    BY DEF LocksHold, LedgerInv
  <2>2. wrote[r] # {} /\ pc[r] \in {"write_payment", "write_project"}
    BY <1>1 DEF WaitsFor, Waits, Wants
  <2>3. pc[r] = "write_project" /\ wrote[r] \cap Projects = {}
    BY <2>1, <2>2 DEF Locks
  <2>4. pc[q] = "write_project" => arg[q].project \in Projects
    BY <2>1 DEF InputHolds, StepHolds, Tables, Sessions, Inputs, ProjectOps
  <2> QED BY <1>1, <2>3, <2>4 DEF WaitsFor, Wants
<1>2. ASSUME NEW q1 \in Requests, NEW q2 \in Requests, NEW q3 \in Requests,
             WaitsFor(q1, q2), WaitsFor(q2, q3)
      PROVE  ~Waits(q3)
  <2>1. Waits(q2) BY <1>2 DEF Waits
  <2>2. pc[q2] = "write_project" BY <1>1, <1>2, <2>1
  <2> QED BY <1>1, <1>2, <2>2
<1>3. ASSUME NEW q \in Requests, NEW r \in Requests, WaitsFor(q, r)
      PROVE  pc[r] # "idle"
  BY <1>3 DEF WaitsFor, LocksHold, Locks
<1>4. ASSUME NEW r \in Requests, pc[r] # "idle"
      PROVE  \E q \in Requests : pc[q] # "idle" /\ ~Waits(q)
  <2>1. CASE ~Waits(r) BY <1>4, <2>1
  <2>2. CASE Waits(r)
    <3>1. PICK q2 \in Requests : WaitsFor(r, q2) BY <2>2 DEF Waits
    <3>2. CASE ~Waits(q2) BY <1>3, <3>1, <3>2
    <3>3. CASE Waits(q2)
      <4>1. PICK q3 \in Requests : WaitsFor(q2, q3) BY <3>3 DEF Waits
      <4> QED BY <1>2, <1>3, <3>1, <4>1
    <3> QED BY <3>2, <3>3
  <2> QED BY <2>1, <2>2
<1>5. \A q1, q2, q3, q4 \in Requests :
        ~(WaitsFor(q1, q2) /\ WaitsFor(q2, q3) /\ WaitsFor(q3, q4))
  BY <1>2 DEF Waits
<1> QED BY <1>4, <1>5 DEF RowLocksSound, LocksHold

\* Requests never wait for each other in a circle, and never write a row that
\* another transaction in flight has written.
THEOREM NoDeadlock == Spec => []RowLocksSound
<1>1. LedgerAssumption BY LedgerAssumption
<1>2. Init => LocksHold BY DEF Init, LocksHold, Locks
<1>3. LedgerInv /\ LedgerAssumption /\ LocksHold /\ [Next]_vars => LocksHold' BY LocksNext
<1>4. LedgerInv /\ LedgerAssumption /\ LocksHold => RowLocksSound BY ShortChains
<1> QED BY <1>1, <1>2, <1>3, <1>4, InvariantHolds, PTL DEF Spec
================================================================================
