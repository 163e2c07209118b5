--------------------------- MODULE AuthServiceProofs ---------------------------
(***************************************************************************)
(* Proofs about AuthService, for any number of users, tokens, concurrent   *)
(* requests and passwords, and any workload.                               *)
(***************************************************************************)
EXTENDS AuthService, TLAPS

Minting == {"login", "refresh"}

\* The operations whose handlers have a given step.
OperationOK(r) ==
  /\ pc[r] \in {"login_read", "login_failed", "login_write", "login_issue"} =>
       arg[r].op = "login"
  /\ pc[r] \in {"refresh_read", "refresh_user", "refresh_insert",
                "refresh_mark"} => arg[r].op = "refresh"
  /\ pc[r] \in {"auth_blacklist", "auth_user"} =>
       arg[r].op \in {"logout", "change"}
  /\ pc[r] = "logout_blacklist" => arg[r].op = "logout"
  /\ pc[r] = "reset_hash" => arg[r].op = "reset"
  /\ pc[r] \in {"scan", "update"} => arg[r].op \in {"refresh", "logout", "reset"}
  /\ pc[r] = "commit" => arg[r].op \in {"login", "refresh", "logout", "reset"}
  /\ pc[r] = "idle" => arg[r] = NoInput /\ out[r] = "none"

\* The input of a request is consistent with its operation and its step.
ArgumentOK(r) ==
  /\ arg[r].op \notin Minting => arg[r].new = NoToken
  /\ arg[r].op = "login" /\ arg[r].user \in Users => arg[r].new \in Tokens
  /\ arg[r].op = "refresh" /\ arg[r].new \notin Tokens =>
       /\ arg[r].new = NoToken /\ arg[r].token \in revoked
       /\ pc[r] = "refresh_read" \/ out[r] # "none"
  /\ arg[r].op = "refresh" => /\ arg[r].token \in rows
                              /\ arg[r].user = owner[arg[r].token]
  /\ arg[r].op = "logout" => /\ arg[r].token \in rows \cup {NoToken}
                             /\ arg[r].access \in Tokens
  /\ arg[r].op \notin {"login", "none"} => arg[r].user \in Users
  /\ pc[r] \in {"login_failed", "login_write", "login_issue", "commit"} =>
       arg[r].user \in Users
  /\ arg[r].op = "reset" => arg[r].password \in Passwords

\* The outcome is decided on the way to the rollback or by the commit; only
\* reuse detection raises with a statement still to run.
OutcomeOK(r) ==
  \/ out[r] = "none" /\ pc[r] \notin {"rollback", "done"}
  \/ out[r] = "token_revoked" /\ arg[r].op = "refresh" /\ pc[r] \in {"scan", "update"}
  \/ out[r] \notin {"none", "ok"} /\ pc[r] = "rollback"
  \/ out[r] # "none" /\ pc[r] = "done"

\* The pair a request would mint is no row before its commit, and is one after.
NewOK(r) ==
  arg[r].new # NoToken =>
    IF pc[r] = "done" /\ out[r] = "ok" THEN arg[r].new \in rows
                                       ELSE arg[r].new \notin rows

\* The UPDATE takes its rows one by one; it has matched, locked or found revoked
\* the token presented.
TransactionOK(r) ==
  /\ targets[r] \cup locks[r] \subseteq rows /\ revoking[r] \subseteq locks[r]
  /\ targets[r] \cap locks[r] = {}
  /\ pc[r] = "update" =>
       IF targets[r] = {} THEN next_row[r] = NoToken ELSE next_row[r] \in targets[r]
  /\ pc[r] \notin {"update", "rollback"} => targets[r] = {}
  /\ pc[r] \notin {"update", "refresh_mark", "commit", "rollback"} => locks[r] = {}
  /\ arg[r].op = "login" => targets[r] \cup locks[r] = {}
  /\ arg[r].op \in {"refresh", "logout"} /\ out[r] = "none" =>
       targets[r] \cup locks[r] \subseteq {arg[r].token}
  /\ pc[r] = "update" /\ arg[r].op \in {"refresh", "logout"} /\ out[r] = "none" =>
       arg[r].token \in targets[r] \cup revoking[r] \cup revoked
  /\ pc[r] = "refresh_mark" \/ (pc[r] = "commit" /\ arg[r].op = "refresh") =>
       arg[r].token \in revoking[r] \cup revoked
  /\ arg[r].op = "logout" =>
       /\ pc[r] = "scan" => arg[r].token # NoToken
       /\ pc[r] = "commit" =>
            arg[r].token \in revoking[r] \cup revoked \cup {NoToken}
       /\ pc[r] \in {"scan", "update", "commit"} =>
            arg[r].access \in blacklist \cup ending

RequestOK(r) ==
  /\ OperationOK(r) /\ ArgumentOK(r) /\ OutcomeOK(r)
  /\ NewOK(r) /\ TransactionOK(r)

\* No two requests mint the same pair.
NewDistinct ==
  \A q, r \in Requests : arg[q].new = arg[r].new /\ arg[q].new # NoToken => q = r

RowsOK == \A t \in rows : owner[t] \in Users /\ family[t] \in rows

\* The inductive invariant.
IInv ==
  /\ TypeOK
  /\ RowsOK
  /\ NewDistinct
  /\ \A r \in Requests : RequestOK(r)
  /\ RotationLinked
  /\ LogoutEndsSession

USE DEF Operations, Labels, Outcomes, Minting

LEMMA InitIInv == Init => IInv
<1> SUFFICES ASSUME Init PROVE IInv
  OBVIOUS
<1>1. TypeOK
  BY ConstantsAssumption DEF Init, TypeOK, Account, Inputs, NoInput, Input, NoInstance
<1>2. RowsOK /\ NewDistinct /\ RotationLinked /\ LogoutEndsSession
  BY DEF Init, RowsOK, NewDistinct, RotationLinked, LogoutEndsSession, NoInput, Input
<1>3. \A r \in Requests : RequestOK(r)
  BY DEF Init, RequestOK, ArgumentOK, OutcomeOK, NewOK, TransactionOK, NoInput, Input, OperationOK
<1>4. QED BY <1>1, <1>2, <1>3 DEF IInv

--------------------------------------------------------------------------------
(***************************************************************************)
(* Frame facts: what a step of one request leaves intact of the others.    *)
(***************************************************************************)
\* Only request r changes, and its variables stay typed.
OnlyRequest(r) ==
  /\ pc' \in [Requests -> Labels] /\ out' \in [Requests -> Outcomes]
  /\ arg' \in [Requests -> Inputs] 
  /\ targets' \in [Requests -> SUBSET Tokens]
  /\ next_row' \in [Requests -> Tokens \cup {NoToken}]
  /\ locks' \in [Requests -> SUBSET Tokens]
  /\ revoking' \in [Requests -> SUBSET Tokens]
  /\ columns' \in [Requests -> SUBSET UserColumns]
  /\ instance' \in [Requests -> Account]
  /\ \A q \in Requests \ {r} : /\ pc'[q] = pc[q] /\ out'[q] = out[q]
                               /\ arg'[q] = arg[q]
                               /\ targets'[q] = targets[q]
                               /\ next_row'[q] = next_row[q]
                               /\ locks'[q] = locks[q]
                               /\ revoking'[q] = revoking[q]

\* The committed tables only grow, and committed rows keep their user.
TablesGrow ==
  /\ rows \subseteq rows' /\ revoked \subseteq revoked'
  /\ blacklist \cup ending \subseteq blacklist' \cup ending'
  /\ \A t \in rows : owner'[t] = owner[t]

\* A request whose own variables do not change stays consistent, provided the
\* pair it would mint does not become a row.
LEMMA OtherRequest ==
  ASSUME NEW q \in Requests, TypeOK, RequestOK(q), TablesGrow,
         pc'[q] = pc[q], out'[q] = out[q], arg'[q] = arg[q],
         targets'[q] = targets[q], next_row'[q] = next_row[q], locks'[q] = locks[q],
         revoking'[q] = revoking[q],
         arg[q].new \in rows' => arg[q].new \in rows \cup {NoToken}
  PROVE  RequestOK(q)'
<1>1. OperationOK(q)'
  BY DEF RequestOK, OperationOK
<1>2. ArgumentOK(q)'
  BY DEF RequestOK, ArgumentOK, TablesGrow
<1>3. OutcomeOK(q)'
  BY DEF RequestOK, OutcomeOK
<1>4. NewOK(q)'
  BY DEF RequestOK, NewOK, TablesGrow
<1>5. TransactionOK(q)'
  BY DEF RequestOK, TransactionOK, TablesGrow
<1>6. QED BY <1>1, <1>2, <1>3, <1>4, <1>5 DEF RequestOK

\* A step of one request that leaves the database alone.
LEMMA LocalStep ==
  ASSUME IInv, NEW r \in Requests, OnlyRequest(r),
         UNCHANGED db, held' \subseteq rows,
         ending' \subseteq rows, expired' \subseteq ending',
         reset_live' \subseteq Users, ending \subseteq ending',
         blacklist \subseteq blacklist', blacklist' \subseteq Tokens,
         RequestOK(r)',
         arg'[r].new \in {arg[r].new, NoToken} \cup Fresh,
         pc'[r] = "done" => out'[r] # "ok"
  PROVE  IInv'
<1>1. TypeOK'
  BY DEF IInv, TypeOK, OnlyRequest, db
<1>2. RowsOK' /\ RotationLinked'
  BY DEF IInv, RowsOK, RotationLinked, db
<1>3. NewDistinct'
  BY DEF IInv, NewDistinct, OnlyRequest, Fresh
<1>4. \A q \in Requests : RequestOK(q)'
  <2>1. TypeOK /\ TablesGrow
    BY DEF IInv, TablesGrow, db
  <2>2. ASSUME NEW q \in Requests \ {r} PROVE RequestOK(q)'
    BY <2>1, OtherRequest DEF IInv, OnlyRequest, db
  <2>3. QED BY <2>2
<1>5. LogoutEndsSession'
  BY DEF IInv, LogoutEndsSession, OnlyRequest, db
<1>6. QED BY <1>1, <1>2, <1>3, <1>4, <1>5 DEF IInv

--------------------------------------------------------------------------------
(***************************************************************************)
(* One lemma per handler.                                                  *)
(***************************************************************************)
\* The written instance stays a users row, and names known columns.
LEMMA InstanceTyped ==
  ASSUME NEW row \in Account
  PROVE  /\ \A n \in Nat, l \in {"null", "future"} :
              SetFailedLoginAttempts(row, n, l) \in Account
         /\ \A p \in Passwords : SetPasswordHash(row, p) \in Account
         /\ \A other : Changed(row, other) \subseteq UserColumns
<1>1. \A n \in Nat, l \in {"null", "future"} : SetFailedLoginAttempts(row, n, l) \in Account
  BY DEF SetFailedLoginAttempts, Account
<1>2. \A p \in Passwords : SetPasswordHash(row, p) \in Account
  BY DEF SetPasswordHash, UpdateFields, Account
<1>3. ASSUME NEW other PROVE Changed(row, other) \subseteq UserColumns
  <2>1. DOMAIN row = {"hashed_password", "failed_login_attempts", "locked_until", "is_active"}
    BY SMT DEF Account
  <2>2. Changed(row, other) \subseteq DOMAIN row
    BY Zenon DEF Changed
  <2>3. QED BY <2>1, <2>2 DEF UserColumns
<1>4. QED BY <1>1, <1>2, <1>3

LEMMA LoginSteps ==
  ASSUME IInv, NEW r \in Requests,
         LoginRead(r) \/ LoginFailed(r) \/ LoginWrite(r) \/ LoginIssue(r)
  PROVE  IInv'
<1> DEFINE Steady == UNCHANGED <<db, client, blacklist, arg, targets, next_row, locks, revoking>>
<1>t. TypeOK /\ RequestOK(r)
  BY DEF IInv
<1>1. CASE LoginRead(r)
  <2> DEFINE verdict == LoginVerdict(arg[r].user, arg[r].password)
  <2>1. /\ verdict \in {"invalid_credentials", "account_locked", "bad_password", "ok"}
        /\ verdict \in {"bad_password", "ok"} => arg[r].user \in Users
    BY <1>t DEF LoginVerdict, TypeOK, Inputs
  <2> HIDE DEF verdict
  <2>2. OnlyRequest(r)
    BY <1>t, <1>1, <2>1 DEF verdict, LoginRead, OnlyRequest, Goto, Raise, Wrote, tx, TypeOK
  <2>3. /\ pc[r] = "login_read" /\ Steady
        /\ \/ pc'[r] \in {"login_write", "login_failed"} /\ out'[r] = out[r] /\ arg[r].user \in Users
           \/ pc'[r] = "rollback" /\ out'[r] \in {"invalid_credentials", "account_locked"}
    BY <1>t, <1>1, <2>1 DEF verdict, LoginRead, Goto, Raise, Wrote, tx, TypeOK
  <2>4. RequestOK(r)'
    BY <1>t, <2>3 DEF RequestOK, OperationOK, ArgumentOK, OutcomeOK, NewOK, TransactionOK, db
  <2>5. QED BY <1>t, <2>2, <2>3, <2>4, LocalStep DEF TypeOK, client
<1>2. CASE LoginFailed(r)
  <2> DEFINE attempts == instance[r].failed_login_attempts + 1
             locked == IF attempts >= MaxFailedAttempts THEN "future" ELSE "null"
             row == SetFailedLoginAttempts(instance[r], attempts, locked)
  <2>1. row \in Account /\ Changed(instance[r], row) \subseteq UserColumns
    <3>1. instance[r] \in Account /\ attempts \in Nat /\ locked \in {"null", "future"}
      BY <1>t DEF TypeOK, Account
    <3> HIDE DEF attempts, locked
    <3>2. QED BY <3>1, InstanceTyped DEF row
  <2> HIDE DEF row
  <2>2. OnlyRequest(r)
    BY <1>t, <1>2, <2>1 DEF row, LoginFailed, OnlyRequest, Raise, Wrote, TypeOK
  <2>3. /\ pc[r] = "login_failed" /\ Steady
        /\ pc'[r] = "rollback" /\ out'[r] = "invalid_credentials"
    BY <1>t, <1>2 DEF LoginFailed, Raise, Wrote, TypeOK
  <2>4. RequestOK(r)'
    BY <1>t, <2>3 DEF RequestOK, OperationOK, ArgumentOK, OutcomeOK, NewOK, TransactionOK, db
  <2>5. QED BY <1>t, <2>2, <2>3, <2>4, LocalStep DEF TypeOK, client
<1>3. CASE LoginWrite(r)
  <2> DEFINE row == SetFailedLoginAttempts(instance[r], 0, "null")
             cols == Changed(instance[r], row) \cup {"last_login_at"}
  <2>1. row \in Account /\ cols \subseteq UserColumns
    <3>1. instance[r] \in Account /\ row \in Account
      BY <1>t, InstanceTyped DEF TypeOK
    <3> HIDE DEF row
    <3>2. Changed(instance[r], row) \subseteq UserColumns
      BY <3>1, InstanceTyped
    <3>3. QED BY <3>1, <3>2 DEF cols, UserColumns
  <2> HIDE DEF row, cols
  <2>2. OnlyRequest(r)
    BY <1>t, <1>3, <2>1 DEF row, cols, LoginWrite, OnlyRequest, Goto, Wrote, TypeOK
  <2>3. /\ pc[r] = "login_write" /\ Steady
        /\ pc'[r] = "login_issue" /\ out'[r] = out[r]
    BY <1>t, <1>3 DEF LoginWrite, Goto, Wrote, TypeOK
  <2>4. RequestOK(r)'
    BY <1>t, <2>3 DEF RequestOK, OperationOK, ArgumentOK, OutcomeOK, NewOK, TransactionOK, db
  <2>5. QED BY <1>t, <2>2, <2>3, <2>4, LocalStep DEF TypeOK, client
<1>4. CASE LoginIssue(r)
  <2>1. OnlyRequest(r)
    BY <1>t, <1>4 DEF LoginIssue, OnlyRequest, Goto, tx, TypeOK
  <2>2. /\ pc[r] = "login_issue" /\ Steady
        /\ pc'[r] = "commit" /\ out'[r] = out[r]
    BY <1>t, <1>4 DEF LoginIssue, Goto, tx, TypeOK
  <2>3. RequestOK(r)'
    BY <1>t, <2>2 DEF RequestOK, OperationOK, ArgumentOK, OutcomeOK, NewOK, TransactionOK, db
  <2>4. QED BY <1>t, <2>1, <2>2, <2>3, LocalStep DEF TypeOK, client
<1>5. QED BY <1>1, <1>2, <1>3, <1>4

LEMMA RefreshSteps ==
  ASSUME IInv, NEW r \in Requests,
         RefreshRead(r) \/ RefreshUser(r) \/ RefreshInsert(r) \/ RefreshMark(r)
  PROVE  IInv'
<1> DEFINE Steady == /\ UNCHANGED <<db, client, blacklist, arg, targets, next_row, revoking>>
                     /\ locks'[r] = locks[r] \/ (/\ pc[r] = "refresh_mark"
                                                /\ locks'[r] = locks[r] \cup {arg[r].token})
<1>t. TypeOK /\ RequestOK(r)
  BY DEF IInv
<1>a. pc[r] = "refresh_mark" => arg[r].token \in rows /\ arg[r].token \in Tokens
  BY <1>t DEF RequestOK, OperationOK, ArgumentOK, TypeOK
<1>0. OnlyRequest(r) /\ Steady
  <2> DEFINE verdict == RefreshVerdict(arg[r].token)
  <2>1. verdict \in {"token_invalid", "token_revoked", "token_expired", "ok"}
    BY DEF RefreshVerdict
  <2> HIDE DEF verdict
  <2>2. QED
    BY <1>t, <1>a, <2>1 DEF verdict, RefreshRead, RefreshUser, RefreshInsert, RefreshMark, OnlyRequest,
                      Goto, Raise, tx, TypeOK
<1>1. \/ /\ pc[r] = "refresh_read" /\ arg[r].op = "refresh"
         /\ \/ pc'[r] = "refresh_user" /\ out'[r] = out[r]
            \/ pc'[r] = "scan" /\ out'[r] = "token_revoked"
            \/ pc'[r] = "rollback" /\ out'[r] \in {"token_invalid", "token_expired"}
      \/ /\ pc[r] = "refresh_user"
         /\ \/ pc'[r] = "refresh_insert" /\ out'[r] = out[r]
            \/ pc'[r] = "rollback" /\ out'[r] = "token_invalid"
      \/ /\ pc[r] = "refresh_insert" /\ pc'[r] = "scan" /\ out'[r] = out[r]
      \/ /\ pc[r] = "refresh_mark" /\ pc'[r] = "commit" /\ out'[r] = out[r]
  BY <1>t DEF RefreshRead, RefreshUser, RefreshInsert, RefreshMark, RefreshVerdict, Goto, Raise, TypeOK,
              RequestOK, OperationOK
<1>2. pc'[r] = "commit" => arg[r].user \in Users
  BY <1>1, <1>t DEF IInv, RowsOK, RequestOK, OperationOK, ArgumentOK
<1>3. RequestOK(r)'
  <2>1. OperationOK(r)' /\ OutcomeOK(r)' /\ NewOK(r)'
    BY <1>t, <1>0, <1>1 DEF RequestOK, OperationOK, OutcomeOK, NewOK, db
  <2>2. ArgumentOK(r)'
    <3>1. arg[r].new \notin Tokens /\ pc[r] = "refresh_read" => out'[r] = "token_revoked"
      BY <1>t DEF RefreshRead, RefreshUser, RefreshInsert, RefreshMark, RefreshVerdict, Goto,
                  Raise, TypeOK, RequestOK, OperationOK, ArgumentOK
    <3> QED BY <1>t, <1>0, <1>1, <1>2, <3>1 DEF RequestOK, OperationOK, ArgumentOK, db
  <2>3. TransactionOK(r)'
    BY <1>t, <1>a, <1>0, <1>1 DEF RequestOK, OperationOK, OutcomeOK, TransactionOK, db
  <2> QED BY <2>1, <2>2, <2>3 DEF RequestOK
<1>4. QED BY <1>t, <1>0, <1>1, <1>3, LocalStep DEF TypeOK, client

LEMMA RevokeSteps ==
  ASSUME IInv, NEW r \in Requests, Scan(r) \/ Update(r)
  PROVE  IInv'
<1>t. TypeOK /\ RequestOK(r)
  BY DEF IInv
<1>1. CASE Scan(r)
  <2> DEFINE scope == RevokeScope(r)
  <2>1. /\ scope \subseteq rows
        /\ arg[r].op = "refresh" /\ out[r] = "none" => scope \subseteq {arg[r].token}
        /\ arg[r].op \in {"refresh", "logout"} /\ out[r] = "none" =>
             arg[r].token \in scope \cup {NoToken}
    BY <1>t DEF RevokeScope, RequestOK, ArgumentOK
  <2> HIDE DEF scope
  <2>2. PICK t \in ComeToOneOf(scope \ revoked) :
          /\ pc[r] = "scan" /\ pc' = [pc EXCEPT ![r] = "update"] /\ out' = out
          /\ targets' = [targets EXCEPT ![r] = scope \ revoked]
          /\ next_row' = [next_row EXCEPT ![r] = t]
          /\ UNCHANGED <<db, client, blacklist, arg, locks, revoking, columns, instance>>
    BY <1>1 DEF scope, Scan, Goto
  <2>3. t \in Tokens \cup {NoToken}
    BY <1>t, <2>1 DEF ComeToOneOf, TypeOK
  <2>4. OnlyRequest(r)
    BY <1>t, <2>1, <2>2, <2>3 DEF OnlyRequest, TypeOK
  <2>5. /\ pc'[r] = "update" /\ out'[r] = out[r]
        /\ targets'[r] = scope \ revoked /\ next_row'[r] = t
        /\ UNCHANGED <<db, client, blacklist, arg, locks, revoking>>
    BY <1>t, <2>2 DEF TypeOK
  <2>6. RequestOK(r)'
    <3>1. locks[r] = {} /\ revoking[r] = {}
      BY <1>t, <2>2 DEF RequestOK, TransactionOK
    <3>2. OperationOK(r)' /\ ArgumentOK(r)' /\ OutcomeOK(r)' /\ NewOK(r)'
      BY <1>t, <2>2, <2>5 DEF RequestOK, OperationOK, ArgumentOK, OutcomeOK, NewOK, db
    <3>3. arg[r].op # "login" /\ (arg[r].op = "logout" => arg[r].token # NoToken)
      BY <1>t, <2>2 DEF RequestOK, OperationOK, TransactionOK
    <3>4. arg[r].op = "refresh" => arg[r].token # NoToken
      BY <1>t, ConstantsAssumption DEF RequestOK, ArgumentOK, TypeOK
    <3>5. TransactionOK(r)'
      <4>1. IF targets'[r] = {} THEN next_row'[r] = NoToken ELSE next_row'[r] \in targets'[r]
        BY <2>2, <2>5 DEF ComeToOneOf
      <4>2. arg[r].op \in {"refresh", "logout"} /\ out[r] = "none" =>
              scope \subseteq {arg[r].token} /\ arg[r].token \in scope
        BY <1>t, <2>1, <2>2, <3>3, <3>4 DEF RevokeScope, scope, RequestOK, OperationOK
      <4>3. arg[r].op = "logout" => arg[r].access \in blacklist \cup ending
        BY <1>t, <2>2 DEF RequestOK, TransactionOK
      <4> QED BY <2>1, <2>5, <3>1, <3>3, <4>1, <4>2, <4>3 DEF TransactionOK, db, client
    <3>6. QED BY <3>2, <3>5 DEF RequestOK
  <2>7. QED BY <1>t, <2>2, <2>4, <2>5, <2>6, LocalStep DEF TypeOK, client
<1>2. CASE Update(r)
  <2> DEFINE row == {next_row[r]} \ {NoToken}
             left == targets[r] \ row
             label == IF left = {} THEN AfterUpdate(r) ELSE "update"
  <2>1. /\ pc[r] = "update"
        /\ row \subseteq targets[r] /\ (left # {} => row # {})
        /\ targets[r] \cup locks[r] \subseteq rows /\ rows \subseteq Tokens
    BY <1>t, <1>2, ConstantsAssumption DEF Update, RequestOK, TransactionOK, TypeOK
  <2>2. label \in {"update", "rollback", "refresh_mark", "commit"}
    BY DEF AfterUpdate
  <2>3. PICK t \in ComeToOneOf(left) :
          /\ pc' = [pc EXCEPT ![r] = label] /\ out' = out
          /\ locks' = [locks EXCEPT ![r] = @ \cup row]
          /\ revoking' = [revoking EXCEPT ![r] = @ \cup (row \ revoked)]
          /\ targets' = [targets EXCEPT ![r] = left]
          /\ next_row' = [next_row EXCEPT ![r] = t]
          /\ UNCHANGED <<db, client, blacklist, arg, columns, instance>>
    BY <1>2 DEF Update, Goto
  <2>4. t \in Tokens \cup {NoToken}
    BY <2>1 DEF ComeToOneOf
  <2> HIDE DEF row, left, label
  <2>5. left = targets[r] \ row
    BY DEF left
  <2>6. OnlyRequest(r)
    BY <1>t, <2>1, <2>2, <2>3, <2>4, <2>5 DEF OnlyRequest, TypeOK
  <2>7. /\ out'[r] = out[r] /\ locks'[r] = locks[r] \cup row
        /\ revoking'[r] = revoking[r] \cup (row \ revoked)
        /\ targets'[r] = left /\ next_row'[r] = t /\ pc'[r] = label
        /\ \/ label = "update" /\ left # {}
           \/ label = "rollback" /\ left = {} /\ out[r] = "token_revoked"
           \/ label = "refresh_mark" /\ left = {} /\ out[r] # "token_revoked" /\ arg[r].op = "refresh"
           \/ label = "commit" /\ left = {} /\ out[r] # "token_revoked" /\ arg[r].op # "refresh"
        /\ UNCHANGED <<db, client, blacklist, arg>>
    BY <1>t, <2>3 DEF label, AfterUpdate, TypeOK
  <2>8. pc'[r] = "commit" => arg[r].user \in Users
    BY <1>t, <2>1, <2>7 DEF RequestOK, OperationOK, ArgumentOK
  <2>9. RequestOK(r)'
    <3>1. OperationOK(r)' /\ ArgumentOK(r)' /\ OutcomeOK(r)' /\ NewOK(r)'
      BY <1>t, <2>1, <2>7, <2>8 DEF RequestOK, OperationOK, ArgumentOK, OutcomeOK, NewOK, db
    <3>2. out[r] = "none" \/ (out[r] = "token_revoked" /\ arg[r].op = "refresh")
      BY <1>t, <2>1 DEF RequestOK, OutcomeOK
    <3>3. TransactionOK(r)'
      <4>1. IF targets'[r] = {} THEN next_row'[r] = NoToken ELSE next_row'[r] \in targets'[r]
        BY <2>3, <2>7 DEF ComeToOneOf
      <4>2. /\ targets'[r] \cup locks'[r] = targets[r] \cup locks[r]
            /\ targets'[r] \cap locks'[r] = {}
            /\ revoking'[r] \subseteq locks'[r]
            /\ targets'[r] \cup revoking'[r] \cup revoked = targets[r] \cup revoking[r] \cup revoked
        BY <1>t, <2>1, <2>5, <2>7 DEF RequestOK, TransactionOK
      <4>3. label # "update" => targets'[r] = {}
        BY <2>7
      <4> QED BY <1>t, <2>1, <2>7, <3>2, <4>1, <4>2, <4>3 DEF RequestOK, TransactionOK, OperationOK, db, client
    <3>4. QED BY <3>1, <3>3 DEF RequestOK
  <2>10. QED BY <1>t, <2>6, <2>7, <2>9, LocalStep DEF TypeOK, client
<1>3. QED BY <1>1, <1>2

LEMMA LogoutSteps ==
  ASSUME IInv, NEW r \in Requests,
         AuthBlacklist(r) \/ AuthUser(r) \/ LogoutBlacklist(r)
  PROVE  IInv'
<1>t. TypeOK /\ RequestOK(r)
  BY DEF IInv
<1>1. CASE AuthBlacklist(r) \/ AuthUser(r)
  <2> DEFINE verdict == AuthVerdict(account[arg[r].user])
  <2>1. verdict \in {"unauthorized", "account_locked", "ok"}
    BY DEF AuthVerdict
  <2> HIDE DEF verdict
  <2>2. OnlyRequest(r)
    BY <1>t, <1>1, <2>1 DEF verdict, AuthBlacklist, AuthUser, OnlyRequest, Goto, Raise, tx, TypeOK
  <2>3. /\ pc[r] \in {"auth_blacklist", "auth_user"}
        /\ \/ pc'[r] = "rollback" /\ out'[r] \notin {"none", "ok"}
           \/ pc'[r] = "auth_user" /\ out'[r] = out[r]
           \/ pc'[r] = "logout_blacklist" /\ out'[r] = out[r] /\ arg[r].op = "logout"
        /\ UNCHANGED <<db, client, blacklist, arg, targets, next_row, locks, revoking>>
    BY <1>t, <1>1, <2>1 DEF verdict, AuthBlacklist, AuthUser, Goto, Raise, tx, TypeOK
  <2>4. RequestOK(r)'
    BY <1>t, <2>3 DEF RequestOK, OperationOK, ArgumentOK, OutcomeOK, NewOK, TransactionOK, db
  <2>5. QED BY <1>t, <2>2, <2>3, <2>4, LocalStep DEF TypeOK, client
<1>2. CASE LogoutBlacklist(r)
  <2>1. OnlyRequest(r)
    BY <1>t, <1>2 DEF LogoutBlacklist, OnlyRequest, Goto, tx, TypeOK
  <2>2. /\ pc[r] = "logout_blacklist" /\ out'[r] = out[r]
        /\ pc'[r] = IF arg[r].token = NoToken THEN "commit" ELSE "scan"
        /\ blacklist' = blacklist \cup ({arg[r].access} \ ending)
        /\ UNCHANGED <<db, client, arg, targets, next_row, locks, revoking>>
    BY <1>t, <1>2 DEF LogoutBlacklist, Goto, tx, TypeOK
  <2>3. arg[r].op = "logout" /\ arg[r].access \in Tokens /\ arg[r].user \in Users
    BY <1>t, <2>2 DEF RequestOK, OperationOK, ArgumentOK
  <2>4. RequestOK(r)'
    BY <1>t, <2>2, <2>3 DEF RequestOK, OperationOK, ArgumentOK, OutcomeOK, NewOK, TransactionOK, db, client
  <2>5. QED BY <1>t, <2>1, <2>2, <2>3, <2>4, LocalStep DEF TypeOK, client
<1>3. QED BY <1>1, <1>2

LEMMA ResetStep ==
  ASSUME IInv, NEW r \in Requests, ResetHash(r)
  PROVE  IInv'
<1>t. TypeOK /\ RequestOK(r)
  BY DEF IInv
<1> DEFINE loaded == account[arg[r].user]
           row == SetPasswordHash(loaded, arg[r].password)
           cols == Changed(loaded, row)
<1>1. row \in Account /\ cols \subseteq UserColumns
  <2>1. pc[r] = "reset_hash" /\ arg[r].op = "reset"
    BY <1>t DEF ResetHash, RequestOK, OperationOK
  <2>2. loaded \in Account /\ arg[r].password \in Passwords
    BY <1>t, <2>1 DEF RequestOK, ArgumentOK, TypeOK
  <2> HIDE DEF loaded
  <2>3. row \in Account
    BY <2>2, InstanceTyped
  <2> HIDE DEF row
  <2>4. QED BY <2>2, <2>3, InstanceTyped
<1> HIDE DEF row, cols
<1>2. OnlyRequest(r)
  BY <1>t, <1>1 DEF row, cols, ResetHash, OnlyRequest, Goto, Wrote, TypeOK
<1>3. /\ pc[r] = "reset_hash" /\ pc'[r] = "scan" /\ out'[r] = out[r]
      /\ UNCHANGED <<db, client, blacklist, arg, targets, next_row, locks, revoking>>
  BY <1>t DEF ResetHash, Goto, Wrote, TypeOK
<1>4. RequestOK(r)'
  BY <1>t, <1>3 DEF RequestOK, OperationOK, ArgumentOK, OutcomeOK, NewOK, TransactionOK, db
<1>5. QED BY <1>t, <1>2, <1>3, <1>4, LocalStep DEF TypeOK, client

LEMMA ExceptionSteps ==
  ASSUME IInv, NEW r \in Requests, Rollback(r) \/ Fail(r) \/ BreakDeadlock(r)
  PROVE  IInv'
<1>t. TypeOK /\ RequestOK(r)
  BY DEF IInv
<1>b. BreakDeadlock(r) => pc[r] \in {"login_failed", "login_write", "reset_hash", "update", "refresh_mark"}
  BY DEF BreakDeadlock, Circle, WaitsFor, WantsTokens, WantsUser
<1>1. NoInstance \in Account
  BY DEF NoInstance, Account
<1>2. OnlyRequest(r)
  <2>1. CASE Rollback(r)
    BY <1>t, <1>1, <2>1 DEF Rollback, OnlyRequest, Goto, EndTransaction, TypeOK
  <2>2. CASE Fail(r) \/ BreakDeadlock(r)
    BY <1>t, <2>2 DEF Fail, BreakDeadlock, OnlyRequest, Raise, tx, TypeOK
  <2> QED BY <2>1, <2>2
<1>3. /\ \/ /\ pc[r] = "rollback" /\ pc'[r] = "done" /\ out'[r] = out[r]
            /\ targets'[r] = {} /\ locks'[r] = {} /\ revoking'[r] = {}
         \/ /\ pc[r] \notin {"idle", "rollback", "done"}
            /\ pc'[r] = "rollback" /\ out'[r] = "unavailable"
            /\ UNCHANGED <<targets, next_row, locks, revoking>>
      /\ UNCHANGED <<db, client, blacklist, arg>>
  BY <1>t, <1>b DEF Rollback, Fail, BreakDeadlock, Goto, Raise, EndTransaction, tx, TypeOK
<1>4. RequestOK(r)'
  BY <1>t, <1>3 DEF RequestOK, OperationOK, ArgumentOK, OutcomeOK, NewOK, TransactionOK, db
<1>5. pc'[r] = "done" => out'[r] # "ok"
  BY <1>t, <1>3 DEF RequestOK, OutcomeOK
<1>6. QED BY <1>t, <1>2, <1>3, <1>4, <1>5, LocalStep DEF TypeOK, client

\* A new request.
LEMMA ArriveSteps ==
  ASSUME IInv, NEW r \in Requests, Arrive(r)
  PROVE  IInv'
<1>t. TypeOK /\ RequestOK(r)
  BY DEF IInv
<1>h. \A t \in held : t \in rows /\ t \in Tokens /\ owner[t] \in Users
  BY DEF IInv, RowsOK, TypeOK
<1>1. PICK input \in Inputs, label \in Labels :
        /\ Begin(r, input, label)
        /\ input.op # "none"
        /\ input.op \in Minting => input.new \in Fresh \cup {NoToken}
        /\ input.op = "login" /\ input.user \in Users => input.new \in Fresh
        /\ input.op = "refresh" /\ input.new \notin Fresh => input.token \in revoked
        /\ input.op \notin Minting => input.new = NoToken
        /\ input.op = "login" => label = "login_read"
        /\ input.op = "refresh" =>
             label = "refresh_read" /\ input.token \in held /\ input.user = owner[input.token]
        /\ input.op \in {"logout", "change"} =>
             label = "auth_blacklist" /\ input.user \in Users
        /\ input.op = "logout" =>
             input.access \in Tokens /\ input.token \in held \cup {NoToken}
        /\ input.op = "reset" =>
             label = "reset_hash" /\ input.user \in Users /\ input.password \in Passwords
  <2>1. CASE Login(r)
    BY <1>t, <2>1, ConstantsAssumption DEF Login, Input, Inputs, Fresh
  <2>2. CASE Refresh(r)
    BY <1>t, <1>h, <2>2 DEF Refresh, Input, Inputs, Fresh
  <2>3. CASE Logout(r)
    BY <1>t, <1>h, <2>3 DEF Logout, Input, Inputs
  <2>4. CASE ChangePassword(r)
    BY <1>t, <1>h, <2>4 DEF ChangePassword, Input, Inputs
  <2>5. CASE ResetPassword(r)
    BY <1>t, <2>5 DEF ResetPassword, Input, Inputs, TypeOK
  <2>6. QED BY <2>1, <2>2, <2>3, <2>4, <2>5 DEF Arrive
<1>2. OnlyRequest(r)
  BY <1>t, <1>1 DEF Begin, OnlyRequest, Goto, tx, TypeOK
<1>3. /\ pc[r] = "idle" /\ pc'[r] = label /\ out'[r] = out[r] /\ arg'[r] = input
      /\ UNCHANGED <<db, client, blacklist, targets, next_row, locks, revoking>>
  BY <1>t, <1>1 DEF Begin, Goto, tx, TypeOK
<1>4. RequestOK(r)'
  <2>1. /\ pc'[r] \in {"login_read", "refresh_read", "auth_blacklist", "reset_hash"}
        /\ out'[r] = "none" /\ locks'[r] = {} /\ revoking'[r] = {}
    BY <1>t, <1>1, <1>3 DEF RequestOK, OperationOK, TransactionOK, Inputs
  <2>2. OperationOK(r)' /\ OutcomeOK(r)'
    BY <1>1, <1>3, <2>1 DEF OperationOK, OutcomeOK, Inputs
  <2>3. ArgumentOK(r)' /\ NewOK(r)'
    BY <1>h, <1>1, <1>3, <2>1 DEF ArgumentOK, NewOK, Inputs, Fresh, db, client
  <2>4. TransactionOK(r)'
    BY <1>t, <1>3, <2>1 DEF RequestOK, TransactionOK, db
  <2>5. QED BY <2>2, <2>3, <2>4 DEF RequestOK
<1>5. pc'[r] # "done" /\ arg'[r].new \in {NoToken} \cup Fresh
  BY <1>1, <1>3 DEF Inputs
<1>6. QED BY <1>t, <1>2, <1>3, <1>4, <1>5, LocalStep DEF TypeOK, client

\* The answer: a committed pair is delivered, or lost.
LEMMA FinishSteps ==
  ASSUME IInv, NEW r \in Requests, Respond(r) \/ LoseResponse(r)
  PROVE  IInv'
<1>t. TypeOK /\ RequestOK(r)
  BY DEF IInv
<1>1. PICK delivered \in SUBSET Tokens : Finish(r, delivered) /\ delivered \subseteq rows
  <2>1. Minted(r) \subseteq rows
    BY <1>t DEF Minted, RequestOK, NewOK, OutcomeOK
  <2>2. QED BY <1>t, <2>1 DEF Respond, LoseResponse, TypeOK
<1>2. NoInput \in Inputs
  BY DEF NoInput, Input, Inputs
<1>3. OnlyRequest(r)
  BY <1>t, <1>1, <1>2 DEF Finish, OnlyRequest, tx, TypeOK
<1>4. /\ pc[r] = "done" /\ pc'[r] = "idle" /\ out'[r] = "none" /\ arg'[r] = NoInput
      /\ held' = held \cup delivered
      /\ UNCHANGED <<db, ending, expired, reset_live, blacklist, targets, next_row, locks, revoking>>
  BY <1>t, <1>1 DEF Finish, tx, TypeOK
<1>5. RequestOK(r)'
  BY <1>t, <1>4 DEF RequestOK, OperationOK, ArgumentOK, OutcomeOK, NewOK, TransactionOK, NoInput, Input, db
<1>6. arg'[r].new = NoToken
  BY <1>4 DEF NoInput, Input
<1>7. QED BY <1>t, <1>1, <1>3, <1>4, <1>5, <1>6, LocalStep DEF TypeOK

\* The environment changes accounts and what clients can do with a token.
LEMMA EnvironmentSteps ==
  ASSUME IInv,
         \/ \E u \in Users : RequestPasswordReset(u) \/ Deactivate(u)
         \/ \E t \in Tokens : LastSecond(t) \/ Expire(t)
  PROVE  IInv'
<1>t. TypeOK
  BY DEF IInv
<1>1. /\ UNCHANGED <<rows, owner, family, revoked, replaced_by, blacklist, held>>
      /\ UNCHANGED <<pc, out, arg, targets, next_row, locks, revoking, columns, instance>>
  BY DEF RequestPasswordReset, Deactivate, LastSecond, Expire, db, client, tx
<1>2. /\ account' \in [Users -> Account]
      /\ ending \subseteq ending' /\ ending' \subseteq rows
      /\ expired' \subseteq ending' /\ reset_live' \subseteq Users
  <2>1. CASE \E u \in Users : RequestPasswordReset(u)
    BY <1>t, <2>1 DEF RequestPasswordReset, db, TypeOK
  <2>2. CASE \E u \in Users : Deactivate(u)
    <3>1. PICK u \in Users : Deactivate(u)
      BY <2>2
    <3>2. account' \in [Users -> Account]
      <4>1. account' = [account EXCEPT ![u].is_active = FALSE]
        BY <3>1 DEF Deactivate
      <4>2. account \in [Users -> Account]
        BY <1>t DEF TypeOK
      <4>3. [account[u] EXCEPT !.is_active = FALSE] \in Account
        BY <4>2 DEF Account
      <4>4. QED BY <4>1, <4>2, <4>3
    <3>3. QED BY <1>t, <3>1, <3>2 DEF Deactivate, client, TypeOK
  <2>3. CASE \E t \in Tokens : LastSecond(t) \/ Expire(t)
    BY <1>t, <2>3 DEF LastSecond, Expire, db, TypeOK
  <2>4. QED BY <2>1, <2>2, <2>3
<1>3. TypeOK'
  BY <1>t, <1>1, <1>2 DEF TypeOK
<1>4. (\A r \in Requests : RequestOK(r)) => (\A r \in Requests : RequestOK(r))'
  BY <1>1, <1>2 DEF RequestOK, OperationOK, ArgumentOK, OutcomeOK, NewOK, TransactionOK
<1>5. (RowsOK /\ NewDistinct /\ RotationLinked /\ LogoutEndsSession)'
  BY <1>1, <1>2 DEF IInv, RowsOK, NewDistinct, RotationLinked, LogoutEndsSession
<1>6. QED BY <1>3, <1>4, <1>5 DEF IInv

LEMMA CommitAccountTyped ==
  ASSUME TypeOK, NEW r \in Requests
  PROVE  CommitAccount(r) \in [Users -> Account]
<1>1. /\ instance[r] \in Account /\ \A u \in Users : account[u] \in Account
  BY DEF TypeOK
<1>2. QED BY <1>1 DEF CommitAccount, Account

\* What a commit does to the tables: t is the new row, old the rotated one.
CommitFacts(r, t, old, op) ==
  /\ pc[r] = "commit" /\ out[r] = "none"
  /\ op \in {"login", "refresh", "logout", "reset"}
  /\ arg[r].user \in Users
  /\ op \in Minting => t \in Tokens \ rows
  /\ op \notin Minting => t = NoToken
  /\ op = "refresh" => /\ old \in rows /\ owner[old] = arg[r].user
                       /\ family[old] \in rows
                       /\ old \in revoking[r] \cup revoked
  /\ revoking[r] \subseteq rows
  /\ revoked' = revoked \cup revoking[r]
  /\ \/ op = "login" /\ rows' = rows \cup {t} /\ owner' = [owner EXCEPT ![t] = arg[r].user]
        /\ family' = [family EXCEPT ![t] = t] /\ replaced_by' = replaced_by
     \/ op = "refresh" /\ rows' = rows \cup {t} /\ owner' = [owner EXCEPT ![t] = arg[r].user]
        /\ family' = [family EXCEPT ![t] = family[old]]
        /\ replaced_by' = [replaced_by EXCEPT ![old] = t]
     \/ op \in {"logout", "reset"} /\ UNCHANGED <<rows, owner, family, replaced_by>>

LEMMA CommitEffect ==
  ASSUME IInv, NEW r \in Requests, Commit(r)
  PROVE  CommitFacts(r, arg[r].new, arg[r].token, arg[r].op)
<1> DEFINE t == arg[r].new
           old == arg[r].token
           op == arg[r].op
<1>t. TypeOK /\ RequestOK(r) /\ RowsOK
  BY DEF IInv
<1>1. pc[r] = "commit"
  BY DEF Commit
<1>2. op \in {"login", "refresh", "logout", "reset"} /\ out[r] = "none"
  BY <1>t, <1>1 DEF RequestOK, OperationOK, OutcomeOK
<1>3. /\ arg[r].user \in Users
      /\ op \notin Minting => t = NoToken
      /\ op \in Minting => t \in Tokens
      /\ op = "refresh" => old \in rows /\ owner[old] = arg[r].user
  BY <1>t, <1>1, <1>2 DEF RequestOK, ArgumentOK
<1>4. op \in Minting => t \notin rows
  BY <1>t, <1>1, <1>3, ConstantsAssumption DEF RequestOK, NewOK
<1>5. op = "refresh" => old \in revoking[r] \cup revoked /\ family[old] \in rows
  BY <1>t, <1>1, <1>3 DEF RequestOK, TransactionOK, RowsOK
<1>6. revoking[r] \subseteq rows /\ revoked' = revoked \cup revoking[r]
  BY <1>t DEF Commit, RequestOK, TransactionOK
<1>7. \/ op = "login" /\ rows' = rows \cup {t} /\ owner' = [owner EXCEPT ![t] = arg[r].user]
         /\ family' = [family EXCEPT ![t] = t] /\ replaced_by' = replaced_by
      \/ op = "refresh" /\ rows' = rows \cup {t} /\ owner' = [owner EXCEPT ![t] = arg[r].user]
         /\ family' = [family EXCEPT ![t] = family[old]]
         /\ replaced_by' = [replaced_by EXCEPT ![old] = t]
      \/ op \in {"logout", "reset"} /\ UNCHANGED <<rows, owner, family, replaced_by>>
  BY <1>2 DEF Commit, CommitInsert
<1>8. QED BY <1>1, <1>2, <1>3, <1>4, <1>5, <1>6, <1>7 DEF CommitFacts

\* The commit makes the transaction of r visible, in one step.
LEMMA CommitStep ==
  ASSUME IInv, NEW r \in Requests, Commit(r)
  PROVE  IInv'
<1>t. TypeOK /\ RequestOK(r) /\ RowsOK
  BY DEF IInv
<1> DEFINE t == arg[r].new
           old == arg[r].token
           op == arg[r].op
<1>1. /\ op \in {"login", "refresh", "logout", "reset"}
      /\ arg[r].user \in Users
      /\ op \in Minting => t \in Tokens \ rows
      /\ op \notin Minting => t = NoToken
      /\ op = "refresh" => /\ old \in rows /\ owner[old] = arg[r].user
                           /\ family[old] \in rows
                           /\ old \in revoking[r] \cup revoked
  BY CommitEffect DEF CommitFacts
<1>2. /\ revoking[r] \subseteq rows
      /\ revoked' = revoked \cup revoking[r]
      /\ UNCHANGED <<blacklist, held, ending, expired, reset_live, arg>>
  <2>1. UNCHANGED <<blacklist, held, ending, expired, reset_live, arg>>
    BY DEF Commit, client
  <2>2. QED BY <2>1, CommitEffect DEF CommitFacts
<1>3. \/ op = "login" /\ rows' = rows \cup {t} /\ owner' = [owner EXCEPT ![t] = arg[r].user]
         /\ family' = [family EXCEPT ![t] = t] /\ replaced_by' = replaced_by
      \/ op = "refresh" /\ rows' = rows \cup {t} /\ owner' = [owner EXCEPT ![t] = arg[r].user]
         /\ family' = [family EXCEPT ![t] = family[old]]
         /\ replaced_by' = [replaced_by EXCEPT ![old] = t]
      \/ op \in {"logout", "reset"} /\ UNCHANGED <<rows, owner, family, replaced_by>>
  BY CommitEffect DEF CommitFacts
<1>4. OnlyRequest(r)
  <2>1. NoInstance \in Account
    BY DEF NoInstance, Account
  <2>2. QED BY <1>t, <2>1 DEF Commit, OnlyRequest, EndTransaction, TypeOK
<1>5. /\ pc[r] = "commit" /\ pc'[r] = "done" /\ out'[r] = "ok"
      /\ targets'[r] = {} /\ locks'[r] = {} /\ revoking'[r] = {}
  BY <1>t DEF Commit, EndTransaction, TypeOK
<1> HIDE DEF t, old, op
<1>6. TypeOK'
  <2>1. account' \in [Users -> Account]
    BY <1>t, CommitAccountTyped DEF Commit
  <2>2. rows \subseteq rows' /\ rows' \subseteq Tokens
    BY <1>t, <1>1, <1>3 DEF TypeOK
  <2>3. /\ owner' \in [Tokens -> Users \cup {NoUser}]
        /\ family' \in [Tokens -> Tokens \cup {NoToken}]
        /\ replaced_by' \in [Tokens -> Tokens \cup {NoToken}]
    BY <1>t, <1>1, <1>3 DEF TypeOK
  <2>4. QED BY <1>t, <1>2, <1>4, <2>1, <2>2, <2>3 DEF TypeOK, OnlyRequest
<1>7. TablesGrow /\ (\A x \in rows : family'[x] = family[x])
  BY <1>t, <1>1, <1>2, <1>3 DEF TablesGrow, TypeOK
<1>8. RowsOK'
  BY <1>t, <1>1, <1>3 DEF RowsOK, TypeOK
<1>9. NewDistinct'
  BY <1>2 DEF IInv, NewDistinct
<1>10. RotationLinked'
  <2>1. \A x \in Tokens :
          replaced_by[x] # NoToken =>
            /\ x \in revoked /\ replaced_by[x] \in rows
            /\ family[replaced_by[x]] = family[x] /\ owner[replaced_by[x]] = owner[x]
    BY DEF IInv, RotationLinked
  <2>2. revoked \subseteq rows /\ revoked \subseteq revoked' /\ rows \subseteq rows'
    BY <1>t, <1>7 DEF TypeOK, TablesGrow
  <2>3. ASSUME NEW x \in Tokens, replaced_by'[x] # NoToken,
               replaced_by'[x] = replaced_by[x]
        PROVE  /\ x \in revoked' /\ replaced_by'[x] \in rows'
               /\ family'[replaced_by'[x]] = family'[x]
               /\ owner'[replaced_by'[x]] = owner'[x]
    <3>1. x \in rows /\ replaced_by[x] \in rows
      BY <2>1, <2>2, <2>3
    <3>2. QED BY <1>7, <2>1, <2>2, <2>3, <3>1 DEF TablesGrow
  <2>4. ASSUME NEW x \in Tokens, replaced_by'[x] # replaced_by[x]
        PROVE  /\ x \in revoked' /\ replaced_by'[x] \in rows'
               /\ family'[replaced_by'[x]] = family'[x]
               /\ owner'[replaced_by'[x]] = owner'[x]
    <3>1. /\ op = "refresh" /\ x = old /\ replaced_by'[x] = t
          /\ rows' = rows \cup {t}
          /\ family'[t] = family[old] /\ owner'[t] = owner[old]
      BY <1>t, <1>1, <1>3, <2>4 DEF TypeOK
    <3>2. old \in rows /\ old \in revoked'
      BY <1>1, <1>2, <3>1
    <3>3. QED BY <1>7, <3>1, <3>2 DEF TablesGrow
  <2>5. QED BY <2>3, <2>4 DEF RotationLinked
<1>11. \A q \in Requests : RequestOK(q)'
  <2>1. RequestOK(r)'
    <3>1. OperationOK(r)' /\ OutcomeOK(r)'
      BY <1>5 DEF OperationOK, OutcomeOK
    <3>2. ArgumentOK(r)'
      BY <1>t, <1>2, <1>5, <1>7 DEF RequestOK, ArgumentOK, TablesGrow
    <3>3. NewOK(r)'
      BY <1>1, <1>2, <1>3, <1>5 DEF NewOK, t, op
    <3>4. TransactionOK(r)'
      BY <1>5 DEF TransactionOK
    <3>5. QED BY <3>1, <3>2, <3>3, <3>4 DEF RequestOK
  <2>2. ASSUME NEW q \in Requests \ {r} PROVE RequestOK(q)'
    <3>1. arg[q].new \in rows' => arg[q].new \in rows \cup {NoToken}
      BY <1>1, <1>3 DEF IInv, NewDistinct, t
    <3>2. QED BY <1>t, <1>4, <1>7, <3>1, OtherRequest DEF IInv, OnlyRequest
  <2>3. QED BY <2>1, <2>2
<1>12. LogoutEndsSession'
  <2>1. ASSUME NEW q \in Requests, pc'[q] = "done", arg'[q].op = "logout", out'[q] = "ok"
        PROVE  /\ arg'[q].access \in blacklist' \cup ending'
               /\ arg'[q].token \in revoked' \cup {NoToken}
    <3>1. CASE q = r
      BY <1>t, <1>2, <1>5, <2>1, <3>1 DEF RequestOK, TransactionOK
    <3>2. CASE q # r
      BY <1>2, <1>4, <1>7, <2>1, <3>2 DEF IInv, LogoutEndsSession, OnlyRequest, TablesGrow
    <3>3. QED BY <3>1, <3>2
  <2>2. QED BY <2>1 DEF LogoutEndsSession
<1>13. QED BY <1>6, <1>8, <1>9, <1>10, <1>11, <1>12 DEF IInv

--------------------------------------------------------------------------------
(***************************************************************************)
(* The invariant, and what follows from it.                                *)
(***************************************************************************)
LEMMA NextIInv == IInv /\ [Next]_vars => IInv'
<1> SUFFICES ASSUME IInv, [Next]_vars PROVE IInv'
  OBVIOUS
<1>1. ASSUME NEW r \in Requests, Arrive(r) PROVE IInv'
  BY <1>1, ArriveSteps
<1>2. ASSUME NEW r \in Requests, Step(r) \/ LockStep(r) PROVE IInv'
  BY <1>2, LoginSteps, RefreshSteps, RevokeSteps, LogoutSteps, ResetStep, ExceptionSteps,
     CommitStep, FinishSteps DEF Step, LockStep
<1>3. ASSUME NEW r \in Requests, LoseResponse(r) \/ Fail(r) \/ BreakDeadlock(r) PROVE IInv'
  BY <1>3, FinishSteps, ExceptionSteps
<1>4. CASE \/ \E u \in Users : RequestPasswordReset(u) \/ Deactivate(u)
           \/ \E t \in Tokens : LastSecond(t) \/ Expire(t)
  BY <1>4, EnvironmentSteps
<1>5. CASE UNCHANGED vars
  BY <1>5 DEF vars, IInv, TypeOK, RowsOK, NewDistinct, RequestOK, OperationOK, ArgumentOK,
              OutcomeOK, NewOK, TransactionOK, RotationLinked, LogoutEndsSession
<1>6. QED BY <1>1, <1>2, <1>3, <1>4, <1>5 DEF Next

\* The state of the tables, of Redis and of every request is well typed in
\* every execution; IInv holds throughout.
THEOREM Invariance == Spec => []IInv
<1>1. Init => IInv
  BY InitIInv
<1>2. QED BY <1>1, NextIInv, PTL DEF Spec

\* The types of all variables are kept: in particular only committed rows are
\* revoked, expire, or are in the hands of a client.
THEOREM TypeCorrect == Spec => []TypeOK
<1>1. IInv => TypeOK
  BY DEF IInv
<1>2. QED BY <1>1, Invariance, PTL

\* The rotation audit trail never dangles (TokenRepository.mark_replaced).
THEOREM AuditTrail == Spec => []RotationLinked
<1>1. IInv => RotationLinked
  BY DEF IInv
<1>2. QED BY <1>1, Invariance, PTL

\* A logout answered with success has closed its tokens (AuthService.logout).
THEOREM LogoutCloses == Spec => []LogoutEndsSession
<1>1. IInv => LogoutEndsSession
  BY DEF IInv
<1>2. QED BY <1>1, Invariance, PTL

--------------------------------------------------------------------------------
(***************************************************************************)
(* Action properties, and the abstract specification.                      *)
(***************************************************************************)
\* Only a commit writes the token table.
LEMMA OnlyCommitWrites ==
  ASSUME [Next]_vars
  PROVE  \/ UNCHANGED <<rows, owner, family, revoked>>
         \/ \E r \in Requests : Commit(r)
<1>1. ASSUME NEW r \in Requests, Arrive(r) PROVE UNCHANGED db
  BY <1>1 DEF Arrive, Login, Refresh, Logout, ChangePassword, ResetPassword, Begin, db
<1>2. ASSUME NEW r \in Requests, Step(r) PROVE UNCHANGED db \/ Commit(r)
  BY <1>2 DEF Step, LoginRead, LoginIssue, RefreshRead, RefreshUser, RefreshInsert, Scan,
              AuthBlacklist, AuthUser, LogoutBlacklist, Rollback, Respond, Finish, db
<1>3. ASSUME NEW r \in Requests, LockStep(r) \/ LoseResponse(r) \/ Fail(r) \/ BreakDeadlock(r) PROVE UNCHANGED db
  BY <1>3 DEF LockStep, LoginFailed, LoginWrite, RefreshMark, Update, ResetHash,
              LoseResponse, Finish, Fail, BreakDeadlock, db
<1>4. CASE \/ \E u \in Users : RequestPasswordReset(u) \/ Deactivate(u)
           \/ \E t \in Tokens : LastSecond(t) \/ Expire(t)
  BY <1>4 DEF RequestPasswordReset, Deactivate, LastSecond, Expire, db
<1>5. CASE UNCHANGED vars
  BY <1>5 DEF vars
<1>6. QED BY <1>1, <1>2, <1>3, <1>4, <1>5 DEF Next, db

\* A step of one request leaves the labels, outcomes and inputs of the others.
LEMMA StepTouchesOne ==
  ASSUME IInv, NEW r \in Requests, NEW q \in Requests \ {r},
         Arrive(q) \/ Step(q) \/ LockStep(q) \/ LoseResponse(q) \/ Fail(q) \/ BreakDeadlock(q)
  PROVE  pc'[r] = pc[r] /\ out'[r] = out[r] /\ arg'[r] = arg[r]
<1>t. TypeOK
  BY DEF IInv
<1>1. CASE Arrive(q)
  BY <1>t, <1>1 DEF Arrive, Login, Refresh, Logout, ChangePassword, ResetPassword, Begin, Goto, TypeOK
<1>2. CASE Step(q)
  BY <1>t, <1>2 DEF Step, LoginRead, LoginIssue, RefreshRead, RefreshUser, RefreshInsert, Scan,
            AuthBlacklist, AuthUser, LogoutBlacklist, Commit, Rollback, Respond, Finish,
            Goto, Raise, TypeOK
<1>3. CASE LockStep(q) \/ LoseResponse(q) \/ Fail(q) \/ BreakDeadlock(q)
  BY <1>t, <1>3 DEF LockStep, LoginFailed, LoginWrite, RefreshMark, Update, ResetHash,
            LoseResponse, Finish, Fail, BreakDeadlock, Goto, Raise, TypeOK
<1>4. QED BY <1>1, <1>2, <1>3

\* A rotation starts only through a check that found its token live.
LEMMA RotatingFrom ==
  ASSUME IInv, [Next]_vars, NEW r \in Requests, Rotating(r)'
  PROVE  arg'[r] = arg[r] /\ (Rotating(r) \/ arg[r].token \in rows \ revoked)
<1>t. TypeOK /\ RequestOK(r)
  BY DEF IInv
<1>2. CASE Arrive(r)
  <2>1. pc'[r] = "refresh_read" \/ arg'[r].op # "refresh"
    BY <1>t, <1>2 DEF Arrive, Login, Refresh, Logout, ChangePassword, ResetPassword, Begin, Goto,
              Input, TypeOK
  <2>2. QED BY <2>1 DEF Rotating
<1>3. CASE RefreshRead(r)
  BY <1>t, <1>3 DEF RefreshRead, RefreshVerdict, Goto, Raise, Rotating, TypeOK
<1>4. CASE RefreshUser(r) \/ RefreshInsert(r) \/ Scan(r) \/ RefreshMark(r) \/ Update(r)
  BY <1>t, <1>4 DEF RefreshUser, RefreshInsert, Scan, RefreshMark, Update, Goto, Raise,
                    Rotating, TypeOK
<1>5. CASE LoginRead(r) \/ LoginFailed(r) \/ LoginWrite(r) \/ LoginIssue(r)
  BY <1>t, <1>5 DEF LoginRead, LoginFailed, LoginWrite, LoginIssue, Rotating,
                    RequestOK, OperationOK
<1>6. CASE AuthBlacklist(r) \/ AuthUser(r) \/ LogoutBlacklist(r) \/ ResetHash(r)
  BY <1>t, <1>6 DEF AuthBlacklist, AuthUser, LogoutBlacklist, ResetHash, Rotating,
                    RequestOK, OperationOK
<1>7. CASE Commit(r) \/ Rollback(r) \/ Respond(r) \/ LoseResponse(r) \/ Fail(r) \/ BreakDeadlock(r)
  <2>1. pc'[r] \in {"rollback", "done"} \/ arg'[r] = NoInput
    BY <1>t, <1>7 DEF Commit, Rollback, Respond, LoseResponse, Finish, Fail, BreakDeadlock, Goto, Raise, TypeOK
  <2>2. QED BY <2>1 DEF Rotating, NoInput, Input
<1>8. CASE \/ \E v \in Users : RequestPasswordReset(v) \/ Deactivate(v)
           \/ \E t \in Tokens : LastSecond(t) \/ Expire(t)
           \/ UNCHANGED vars
  BY <1>8 DEF RequestPasswordReset, Deactivate, LastSecond, Expire, vars, Rotating
<1>9. CASE \E q \in Requests \ {r} :
             Arrive(q) \/ Step(q) \/ LockStep(q) \/ LoseResponse(q) \/ Fail(q) \/ BreakDeadlock(q)
  BY <1>9, StepTouchesOne DEF Rotating
<1>10. QED
  BY <1>2, <1>3, <1>4, <1>5, <1>6, <1>7, <1>8, <1>9 DEF Next, Step, LockStep

\* A family whose tokens are all revoked, and that no rotation in flight has
\* checked earlier, never gets a live token or such a rotation again: after a
\* logout or a reset an old token opens nothing.
THEOREM DeadFamily == Spec => DeadFamilyStaysDead
<1> DEFINE Dies == \A t \in rows :
                     LET f == family[t]
                         quiet == ~\E r \in Requests : Rotating(r) /\ family[arg[r].token] = f
                     IN FamilyDead(f) /\ quiet => FamilyDead(f)' /\ quiet'
<1>1. IInv /\ [Next]_vars => Dies
  <2> SUFFICES ASSUME IInv, [Next]_vars, NEW t \in rows, FamilyDead(family[t]),
                      ~\E r \in Requests : Rotating(r) /\ family[arg[r].token] = family[t]
               PROVE  /\ FamilyDead(family[t])'
                      /\ ~\E r \in Requests : Rotating(r)' /\ family'[arg'[r].token] = family'[t]
    OBVIOUS
  <2> DEFINE f == family[t]
  <2>1. TypeOK /\ f \in rows
    BY DEF IInv, RowsOK
  <2>2. ASSUME NEW x \in rows', family'[x] = f' PROVE x \in revoked'
    <3>1. CASE UNCHANGED <<rows, owner, family, revoked>>
      BY <2>2, <3>1 DEF FamilyDead
    <3>2. CASE \E r \in Requests : Commit(r)
      <4>1. PICK r \in Requests : Commit(r)
        BY <3>2
      <4> DEFINE new == arg[r].new
                 old == arg[r].token
                 op == arg[r].op
      <4>2. CommitFacts(r, new, old, op)
        BY <4>1, CommitEffect
      <4>3. ~(op = "refresh" /\ family[old] = f)
        BY <4>2 DEF CommitFacts, Rotating
      <4> HIDE DEF new, old, op
      <4>4. family'[t] = f /\ (x \in rows => family'[x] = family[x])
        BY <2>1, <4>2 DEF CommitFacts, TypeOK
      <4>5. x \in rows
        BY <2>1, <2>2, <4>2, <4>3, <4>4 DEF CommitFacts, TypeOK
      <4>6. QED BY <2>2, <4>2, <4>4, <4>5 DEF CommitFacts, FamilyDead
    <3>3. QED BY <3>1, <3>2, OnlyCommitWrites
  <2>3. \A x \in rows : family'[x] = family[x]
    <3>1. ASSUME NEW r \in Requests, Commit(r) PROVE \A x \in rows : family'[x] = family[x]
      <4> DEFINE new == arg[r].new
                 old == arg[r].token
                 op == arg[r].op
      <4>1. CommitFacts(r, new, old, op)
        BY <3>1, CommitEffect
      <4> HIDE DEF new, old, op
      <4>2. QED BY <2>1, <4>1 DEF CommitFacts, TypeOK
    <3>2. QED BY <3>1, OnlyCommitWrites
  <2>4. ASSUME NEW r \in Requests, Rotating(r)', family'[arg'[r].token] = family'[t]
        PROVE  FALSE
    <3>1. arg'[r] = arg[r] /\ (Rotating(r) \/ arg[r].token \in rows \ revoked)
      BY <2>4, RotatingFrom
    <3>2. arg[r].token \in rows
      BY <2>4, <3>1 DEF Rotating, IInv, RequestOK, ArgumentOK
    <3>3. family[arg[r].token] = family[t]
      BY <2>3, <2>4, <3>1, <3>2
    <3>4. QED BY <3>1, <3>3 DEF FamilyDead
  <2>5. FamilyDead(family[t])'
    BY <2>2 DEF FamilyDead
  <2>6. QED BY <2>4, <2>5
<1>2. QED BY <1>1, Invariance, PTL DEF Spec, DeadFamilyStaysDead

\* A request enters the part of login or refresh that no longer looks at
\* is_active only through a check that read it as true.
LEMMA AdmittedFrom ==
  ASSUME IInv, [Next]_vars, NEW u \in Users, NEW r \in Requests, Admitted(r, u)', ~Admitted(r, u)
  PROVE  account[u].is_active
<1>t. TypeOK /\ RequestOK(r)
  BY DEF IInv
<1>1. ASSUME NEW q \in Requests \ {r},
             Arrive(q) \/ Step(q) \/ LockStep(q) \/ LoseResponse(q) \/ Fail(q) \/ BreakDeadlock(q)
      PROVE  pc'[r] = pc[r] /\ out'[r] = out[r] /\ arg'[r] = arg[r]
  BY <1>1, StepTouchesOne
<1>2. CASE Arrive(r)
  <2>1. pc'[r] \in {"login_read", "refresh_read"} \/ arg'[r].op \notin {"login", "refresh"}
    BY <1>t, <1>2 DEF Arrive, Login, Refresh, Logout, ChangePassword, ResetPassword, Begin, Goto,
              Input, TypeOK
  <2>2. QED BY <2>1 DEF Admitted
<1>3. CASE LoginRead(r)
  BY <1>t, <1>3 DEF LoginRead, LoginVerdict, Goto, Raise, Admitted, TypeOK
<1>4. CASE RefreshUser(r)
  BY <1>t, <1>4 DEF RefreshUser, Goto, Raise, Admitted, TypeOK
<1>5. CASE LoginIssue(r) \/ RefreshRead(r) \/ RefreshInsert(r) \/ Scan(r)
  BY <1>t, <1>5 DEF LoginIssue, RefreshRead, RefreshInsert, Scan, Goto, Raise, Admitted, TypeOK,
                    RequestOK, OutcomeOK
<1>6. CASE AuthBlacklist(r) \/ AuthUser(r) \/ LogoutBlacklist(r) \/ ResetHash(r)
  BY <1>t, <1>6 DEF AuthBlacklist, AuthUser, LogoutBlacklist, ResetHash, Admitted,
                    RequestOK, OperationOK
<1>7. CASE Commit(r) \/ Rollback(r) \/ Respond(r) \/ LoseResponse(r) \/ Fail(r) \/ BreakDeadlock(r)
  <2>1. pc'[r] \in {"rollback", "done"} \/ arg'[r] = NoInput
    BY <1>t, <1>7 DEF Commit, Rollback, Respond, LoseResponse, Finish, Fail, BreakDeadlock, Goto, Raise, TypeOK
  <2>2. QED BY <2>1 DEF Admitted, NoInput, Input
<1>8. CASE LoginFailed(r) \/ LoginWrite(r) \/ RefreshMark(r) \/ Update(r)
  BY <1>t, <1>8 DEF LoginFailed, LoginWrite, RefreshMark, Update, Goto, Raise, Admitted, TypeOK
<1>9. CASE \/ \E v \in Users : RequestPasswordReset(v) \/ Deactivate(v)
           \/ \E t \in Tokens : LastSecond(t) \/ Expire(t)
           \/ UNCHANGED vars
  BY <1>9 DEF RequestPasswordReset, Deactivate, LastSecond, Expire, vars, Admitted
<1>10. CASE \E q \in Requests \ {r} :
              Arrive(q) \/ Step(q) \/ LockStep(q) \/ LoseResponse(q) \/ Fail(q) \/ BreakDeadlock(q)
  BY <1>1, <1>10 DEF Admitted
<1>11. QED
  BY <1>2, <1>3, <1>4, <1>5, <1>6, <1>7, <1>8, <1>9, <1>10 DEF Next, Step, LockStep

\* A deactivated user gets no new session, except from the requests that had
\* read is_active before the deactivation.
THEOREM InactiveUser == Spec => InactiveUserStaysOut
<1> DEFINE Out == \A u \in Users :
       ~account[u].is_active /\ (\A r \in Requests : ~Admitted(r, u)) =>
         /\ {t \in rows' : owner'[t] = u} = {t \in rows : owner[t] = u}
         /\ \A r \in Requests : ~Admitted(r, u)'
<1>1. IInv /\ [Next]_vars => Out
  <2> SUFFICES ASSUME IInv, [Next]_vars, NEW u \in Users, ~account[u].is_active,
                      \A r \in Requests : ~Admitted(r, u)
               PROVE  /\ {t \in rows' : owner'[t] = u} = {t \in rows : owner[t] = u}
                      /\ \A r \in Requests : ~Admitted(r, u)'
    OBVIOUS
  <2>1. \A r \in Requests : ~Admitted(r, u)'
    BY AdmittedFrom
  <2>2. ASSUME NEW r \in Requests, Commit(r)
        PROVE  {t \in rows' : owner'[t] = u} = {t \in rows : owner[t] = u}
    <3> DEFINE new == arg[r].new
               old == arg[r].token
               op == arg[r].op
    <3>1. CommitFacts(r, new, old, op) /\ TypeOK
      BY <2>2, CommitEffect DEF IInv
    <3>2. op \in {"login", "refresh"} => arg[r].user # u
      BY <3>1 DEF CommitFacts, Admitted
    <3> HIDE DEF new, old, op
    <3>3. CASE op \in {"login", "refresh"}
      <4>1. /\ new \in Tokens \ rows /\ rows' = rows \cup {new}
            /\ owner' = [owner EXCEPT ![new] = arg[r].user]
        BY <3>1, <3>3 DEF CommitFacts
      <4>2. QED BY <3>1, <3>2, <3>3, <4>1 DEF TypeOK
    <3>4. CASE op \in {"logout", "reset"}
      BY <3>1, <3>4 DEF CommitFacts
    <3>5. QED BY <3>1, <3>3, <3>4 DEF CommitFacts
  <2>3. QED BY <2>1, <2>2, OnlyCommitWrites
<1>2. QED BY <1>1, Invariance, PTL DEF Spec, InactiveUserStaysOut

\* The token table implements chains of sessions (any number of requests).
ConcurrentChains == INSTANCE SessionChains
  WITH Serial <- FALSE, known <- rows, live <- Live, chain <- family

\* Every commit opens, extends or closes a chain, and a token that was revoked
\* never becomes live again, whatever the interleaving of the requests.
ImplementsConcurrentChains == ConcurrentChains!ChainSpec

\* AuthService implements SessionChains: an initial state maps to an initial
\* state, and a step to an Open, a Rotate, a Close or a stutter.
THEOREM Implements == Spec => ImplementsConcurrentChains
<1>1. Init => ConcurrentChains!ChainInit
  BY DEF Init, ConcurrentChains!ChainInit, Live
<1>2. IInv /\ [Next]_vars => [ConcurrentChains!ChainNext]_ConcurrentChains!chainVars
  <2> SUFFICES ASSUME IInv, [Next]_vars
               PROVE  [ConcurrentChains!ChainNext]_ConcurrentChains!chainVars
    OBVIOUS
  <2>1. CASE UNCHANGED <<rows, owner, family, revoked>>
    BY <2>1 DEF ConcurrentChains!chainVars, Live
  <2>2. ASSUME NEW r \in Requests, Commit(r)
        PROVE  [ConcurrentChains!ChainNext]_ConcurrentChains!chainVars
    <3> DEFINE t == arg[r].new
               old == arg[r].token
               op == arg[r].op
    <3>1. CommitFacts(r, t, old, op) /\ TypeOK
      BY <2>2, CommitEffect DEF IInv
    <3>2. op # "refresh" => arg[r].op # "refresh"
      OBVIOUS
    <3> HIDE DEF t, old, op
    <3>3. CASE op = "login"
      <4>1. revoking[r] = {}
        BY <2>2, <3>1, <3>3 DEF IInv, RequestOK, TransactionOK, OperationOK, CommitFacts, op
      <4>2. t \in Tokens \ rows /\ Live' = Live \cup {t} /\ rows' = rows \cup {t}
        BY <3>1, <3>3, <4>1 DEF CommitFacts, TypeOK, Live
      <4>3. ConcurrentChains!Open(t)
        BY <3>1, <3>3, <4>2 DEF CommitFacts, ConcurrentChains!Open
      <4>4. QED BY <4>2, <4>3 DEF ConcurrentChains!ChainNext
    <3>4. CASE op = "refresh"
      <4>1. revoking[r] \subseteq {old}
        BY <2>2, <3>1, <3>4 DEF IInv, RequestOK, TransactionOK, CommitFacts, op, old
      <4>2. /\ t \in Tokens \ rows /\ old \in rows /\ rows' = rows \cup {t}
            /\ Live' = (Live \ {old}) \cup {t}
        BY <3>1, <3>4, <4>1 DEF CommitFacts, TypeOK, Live
      <4>3. ConcurrentChains!Rotate(old, t)
        BY <3>1, <3>4, <4>2 DEF CommitFacts, ConcurrentChains!Rotate
      <4>4. old \in Tokens /\ t \in Tokens
        BY <3>1, <4>2 DEF TypeOK
      <4>5. QED BY <4>3, <4>4 DEF ConcurrentChains!ChainNext
    <3>5. CASE op \in {"logout", "reset"}
      <4> DEFINE S == revoking[r] \cap Live
      <4>1. S \subseteq Live /\ Live' = Live \ S /\ UNCHANGED <<rows, family>>
        BY <3>1, <3>5 DEF CommitFacts, Live
      <4> HIDE DEF S
      <4>2. CASE S = {}
        BY <4>1, <4>2 DEF ConcurrentChains!chainVars
      <4>3. CASE S # {}
        <5>1. ConcurrentChains!Close(S)
          BY <4>1, <4>3 DEF ConcurrentChains!Close
        <5>2. QED BY <4>1, <5>1 DEF ConcurrentChains!ChainNext
      <4>4. QED BY <4>2, <4>3
    <3>6. QED BY <3>1, <3>3, <3>4, <3>5 DEF CommitFacts
  <2>3. QED BY <2>1, <2>2, OnlyCommitWrites
<1>3. QED BY <1>1, <1>2, Invariance, PTL DEF Spec, ImplementsConcurrentChains, ConcurrentChains!ChainSpec

--------------------------------------------------------------------------------
(***************************************************************************)
(* One request at a time.                                                  *)
(***************************************************************************)
OneAtATime == \A q, r \in Requests : q = r

\* What a request has read of the token table is still so when it commits.
RowsOfUser(r) == {t \in rows : owner[t] = arg[r].user}

RotatesLive(r) == Rotating(r) => arg[r].token \notin revoked

ResetKnows(r) ==
  arg[r].op = "reset" =>
    /\ pc[r] \in {"update", "commit"} => RowsOfUser(r) \subseteq targets[r] \cup revoking[r] \cup revoked
    /\ pc[r] = "commit" => targets[r] = {}

LogoutKnows(r) ==
  arg[r].op = "logout" /\ pc[r] \in {"update", "commit"} =>
    (targets[r] \cup revoking[r]) \cap revoked = {}

SerialOK == \A r \in Requests : RotatesLive(r) /\ ResetKnows(r) /\ LogoutKnows(r)

\* Steps of r that leave the rows alone and do not lead to the UPDATE or beyond.
LEMMA EarlyStep ==
  ASSUME IInv, NEW r \in Requests,
         \/ Arrive(r) \/ LoginRead(r) \/ LoginFailed(r) \/ LoginWrite(r) \/ LoginIssue(r)
         \/ RefreshRead(r) \/ RefreshUser(r) \/ RefreshInsert(r) \/ RefreshMark(r)
         \/ ResetHash(r) \/ Rollback(r) \/ Respond(r) \/ LoseResponse(r) \/ Fail(r) \/ BreakDeadlock(r)
         \/ Commit(r)
  PROVE  (ResetKnows(r) /\ LogoutKnows(r))'
<1>t. TypeOK /\ RequestOK(r) BY DEF IInv
<1>1. CASE Arrive(r)
  <2>1. pc'[r] \in {"login_read", "refresh_read", "auth_blacklist", "reset_hash"}
    BY <1>t, <1>1 DEF Arrive, Login, Refresh, Logout, ChangePassword, ResetPassword, Begin, Goto,
                      TypeOK
  <2> QED BY <2>1 DEF ResetKnows, LogoutKnows
<1>2. CASE LoginRead(r) \/ LoginFailed(r) \/ LoginWrite(r) \/ LoginIssue(r)
             \/ RefreshRead(r) \/ RefreshUser(r) \/ RefreshInsert(r) \/ RefreshMark(r)
  <2>1. arg' = arg /\ arg[r].op \in {"login", "refresh"}
    BY <1>t, <1>2 DEF LoginRead, LoginFailed, LoginWrite, LoginIssue, RefreshRead, RefreshUser,
                      RefreshInsert, RefreshMark, RequestOK, OperationOK
  <2> QED BY <2>1 DEF ResetKnows, LogoutKnows
<1>3. CASE ResetHash(r)
  <2>1. arg' = arg /\ arg[r].op = "reset" /\ pc'[r] = "scan"
    BY <1>t, <1>3 DEF ResetHash, Goto, TypeOK, RequestOK, OperationOK
  <2> QED BY <2>1 DEF ResetKnows, LogoutKnows
<1>4. CASE Rollback(r) \/ Respond(r) \/ LoseResponse(r) \/ Fail(r) \/ BreakDeadlock(r) \/ Commit(r)
  <2>1. pc'[r] \in {"rollback", "done", "idle"}
    BY <1>t, <1>4 DEF Rollback, Respond, LoseResponse, Finish, Fail, BreakDeadlock, Commit, Goto, Raise, TypeOK
  <2> QED BY <2>1 DEF ResetKnows, LogoutKnows
<1> QED BY <1>1, <1>2, <1>3, <1>4

\* The statement takes its rows without anybody in between.
LEMMA StatementStep ==
  ASSUME IInv, NEW r \in Requests, ResetKnows(r), LogoutKnows(r), Scan(r) \/ Update(r)
  PROVE  (ResetKnows(r) /\ LogoutKnows(r))'
<1>t. TypeOK /\ RequestOK(r) BY DEF IInv
<1>1. UNCHANGED <<rows, owner, revoked, arg>> BY DEF Scan, Update, db
<1>2. arg[r].op \in {"reset", "logout"} => out[r] = "none"
  BY <1>t DEF RequestOK, OutcomeOK, Scan, Update
<1>3. CASE Scan(r)
  <2>1. /\ targets'[r] = RevokeScope(r) \ revoked /\ pc'[r] = "update"
        /\ revoking' = revoking /\ revoking[r] = {}
    BY <1>t, <1>3 DEF Scan, Goto, TypeOK, RequestOK, TransactionOK
  <2>2. arg[r].op = "reset" => RevokeScope(r) = RowsOfUser(r)
    BY DEF RevokeScope, RowsOfUser
  <2> QED BY <1>1, <2>1, <2>2 DEF ResetKnows, LogoutKnows, RowsOfUser
<1>4. CASE Update(r)
  <2> DEFINE row == {next_row[r]} \ {NoToken}
  <2>1. /\ pc[r] = "update" /\ revoking'[r] = revoking[r] \cup (row \ revoked)
        /\ targets'[r] = targets[r] \ row
        /\ pc'[r] = "commit" => targets'[r] = {}
    BY <1>t, <1>4 DEF Update, Goto, TypeOK
  <2>2. row \subseteq targets[r]
    BY <1>t, <2>1 DEF RequestOK, TransactionOK
  <2> HIDE DEF row
  <2> QED BY <1>1, <2>1, <2>2 DEF ResetKnows, LogoutKnows, RowsOfUser
<1> QED BY <1>3, <1>4

\* get_current_user and the blacklist, before the statement of a logout.
LEMMA AuthStep ==
  ASSUME IInv, NEW r \in Requests, AuthBlacklist(r) \/ AuthUser(r) \/ LogoutBlacklist(r)
  PROVE  (ResetKnows(r) /\ LogoutKnows(r))'
<1>t. TypeOK /\ RequestOK(r) BY DEF IInv
<1>1. UNCHANGED <<rows, owner, revoked, arg, targets, revoking>> /\ pc'[r] # "update"
  BY <1>t DEF AuthBlacklist, AuthUser, LogoutBlacklist, Goto, Raise, TypeOK, db, tx
<1>2. arg[r].op \in {"logout", "change"}
  BY <1>t DEF AuthBlacklist, AuthUser, LogoutBlacklist, RequestOK, OperationOK
<1>3. targets[r] = {} /\ revoking[r] = {}
  BY <1>t DEF AuthBlacklist, AuthUser, LogoutBlacklist, RequestOK, TransactionOK
<1> QED BY <1>1, <1>2, <1>3 DEF ResetKnows, LogoutKnows

LEMMA SerialNext ==
  ASSUME OneAtATime, IInv, SerialOK, [Next]_vars PROVE SerialOK'
<1> SUFFICES ASSUME NEW r \in Requests
             PROVE  (RotatesLive(r) /\ ResetKnows(r) /\ LogoutKnows(r))'
  BY DEF SerialOK
<1>t. TypeOK /\ RotatesLive(r) /\ ResetKnows(r) /\ LogoutKnows(r) BY DEF IInv, SerialOK
<1>1. RotatesLive(r)'
  <2>1. SUFFICES ASSUME Rotating(r)' PROVE arg'[r].token \notin revoked'
    BY DEF RotatesLive
  <2>2. arg'[r] = arg[r] /\ arg[r].token \notin revoked
    BY <1>t, <2>1, RotatingFrom DEF RotatesLive
  <2>3. ~Commit(r) BY <1>t, <2>1 DEF Commit, Rotating, TypeOK
  <2>4. \A q \in Requests : ~Commit(q) BY <2>3 DEF OneAtATime
  <2> QED BY <2>2, <2>4, OnlyCommitWrites
<1>2. (ResetKnows(r) /\ LogoutKnows(r))'
  <2>1. ASSUME NEW q \in Requests,
               Arrive(q) \/ Step(q) \/ LockStep(q) \/ LoseResponse(q) \/ Fail(q) \/ BreakDeadlock(q)
        PROVE  (ResetKnows(r) /\ LogoutKnows(r))'
    <3>1. q = r BY DEF OneAtATime
    <3> QED BY <1>t, <2>1, <3>1, EarlyStep, StatementStep, AuthStep DEF Step, LockStep
  <2>2. CASE \/ \E u \in Users : RequestPasswordReset(u) \/ Deactivate(u)
             \/ \E t \in Tokens : LastSecond(t) \/ Expire(t)
             \/ UNCHANGED vars
    <3>1. UNCHANGED <<rows, owner, revoked, pc, arg, targets, revoking>>
      BY <2>2 DEF RequestPasswordReset, Deactivate, LastSecond, Expire, vars, db, tx
    <3> QED BY <1>t, <3>1 DEF ResetKnows, LogoutKnows, RowsOfUser
  <2> QED BY <2>1, <2>2 DEF Next
<1> QED BY <1>1, <1>2

LEMMA SerialInvariance == ASSUME OneAtATime PROVE Spec => []SerialOK
<1>1. Init => SerialOK
  BY DEF Init, SerialOK, RotatesLive, Rotating, ResetKnows, LogoutKnows, NoInput, Input
<1>2. IInv /\ SerialOK /\ [Next]_vars => SerialOK' BY SerialNext
<1> QED BY <1>1, <1>2, Invariance, PTL DEF Spec

\* A committing rotation exchanges a token that is still live.
LEMMA RotatedIsLive ==
  ASSUME IInv, SerialOK, NEW r \in Requests, Commit(r), arg[r].op = "refresh"
  PROVE  arg[r].token \in Live
<1>1. pc[r] = "commit" /\ out[r] = "none" /\ arg[r].token \in rows
  BY CommitEffect DEF CommitFacts
<1>2. Rotating(r) BY <1>1 DEF Rotating
<1> QED BY <1>1, <1>2 DEF SerialOK, RotatesLive, Live

SerialChains == INSTANCE SessionChains
  WITH Serial <- TRUE, known <- rows, live <- Live, chain <- family

\* Serial rotation keeps one live token per session, however many sessions
\* are opened and closed.
THEOREM SerialChainHasOneEnd ==
  SerialChains!ChainSpec => []SerialChains!OneLivePerChain
<1>1. SerialChains!ChainInit => SerialChains!ChainInv
  BY DEF SerialChains!ChainInit, SerialChains!ChainInv, SerialChains!ChainTypeOK,
         SerialChains!OneLivePerChain
<1>2. SerialChains!ChainInv /\ [SerialChains!ChainNext]_SerialChains!chainVars
        => SerialChains!ChainInv'
  <2> SUFFICES ASSUME SerialChains!ChainInv,
                      [SerialChains!ChainNext]_SerialChains!chainVars
               PROVE  SerialChains!ChainInv'
    OBVIOUS
  <2> USE DEF SerialChains!ChainInv, SerialChains!ChainTypeOK,
              SerialChains!OneLivePerChain
  <2>1. ASSUME NEW t \in Tokens, SerialChains!Open(t) PROVE SerialChains!ChainInv'
    BY <2>1 DEF SerialChains!Open
  <2>2. ASSUME NEW old \in Tokens, NEW t \in Tokens, SerialChains!Rotate(old, t)
        PROVE  SerialChains!ChainInv'
    BY <2>2 DEF SerialChains!Rotate
  <2>3. ASSUME NEW S \in SUBSET Live, SerialChains!Close(S)
        PROVE  SerialChains!ChainInv'
    BY <2>3 DEF SerialChains!Close
  <2>4. CASE UNCHANGED SerialChains!chainVars
    BY <2>4 DEF SerialChains!chainVars
  <2> QED BY <2>1, <2>2, <2>3, <2>4 DEF SerialChains!ChainNext
<1>3. SerialChains!ChainInv => SerialChains!OneLivePerChain
  BY DEF SerialChains!ChainInv
<1> QED BY <1>1, <1>2, <1>3, PTL DEF SerialChains!ChainSpec

\* One request at a time: every database step implements serial rotation, in
\* which only a live token is exchanged and its chain keeps one end.
ImplementsSerialChains == SerialChains!ChainSpec

\* Served one at a time, requests exchange only live tokens: nothing the
\* handlers read goes stale before they commit.
THEOREM ImplementsSerial == OneAtATime /\ Spec => ImplementsSerialChains
<1> SUFFICES ASSUME OneAtATime PROVE Spec => ImplementsSerialChains
  OBVIOUS
<1>1. Init => SerialChains!ChainInit
  BY DEF Init, SerialChains!ChainInit, Live
<1>2. IInv /\ SerialOK /\ [Next]_vars => [SerialChains!ChainNext]_SerialChains!chainVars
  <2> SUFFICES ASSUME IInv, SerialOK, [Next]_vars
               PROVE  [SerialChains!ChainNext]_SerialChains!chainVars
    OBVIOUS
  <2>1. CASE UNCHANGED <<rows, owner, family, revoked>>
    BY <2>1 DEF SerialChains!chainVars, Live
  <2>2. ASSUME NEW r \in Requests, Commit(r)
        PROVE  [SerialChains!ChainNext]_SerialChains!chainVars
    <3> DEFINE t == arg[r].new
               old == arg[r].token
               op == arg[r].op
    <3>1. CommitFacts(r, t, old, op) /\ TypeOK
      BY <2>2, CommitEffect DEF IInv
    <3>2. op = "refresh" => old \in Live /\ revoking[r] \subseteq {old}
      BY <2>2, <3>1, RotatedIsLive DEF IInv, RequestOK, TransactionOK, CommitFacts
    <3>3. op = "login" => revoking[r] = {}
      BY <2>2, <3>1 DEF IInv, RequestOK, TransactionOK
    <3> HIDE DEF t, old, op
    <3>4. CASE op = "login"
      <4>1. t \in Tokens \ rows /\ Live' = Live \cup {t} /\ rows' = rows \cup {t}
        BY <3>1, <3>3, <3>4 DEF CommitFacts, TypeOK, Live
      <4>2. SerialChains!Open(t)
        BY <3>1, <3>4, <4>1 DEF CommitFacts, SerialChains!Open
      <4> QED BY <4>1, <4>2 DEF SerialChains!ChainNext
    <3>5. CASE op = "refresh"
      <4>1. /\ t \in Tokens \ rows /\ old \in rows /\ rows' = rows \cup {t}
            /\ Live' = (Live \ {old}) \cup {t}
        BY <3>1, <3>2, <3>5 DEF CommitFacts, TypeOK, Live
      <4>2. SerialChains!Rotate(old, t)
        BY <3>1, <3>2, <3>5, <4>1 DEF CommitFacts, SerialChains!Rotate
      <4>3. old \in Tokens /\ t \in Tokens
        BY <3>1, <4>1 DEF TypeOK
      <4> QED BY <4>2, <4>3 DEF SerialChains!ChainNext
    <3>6. CASE op \in {"logout", "reset"}
      <4> DEFINE S == revoking[r] \cap Live
      <4>1. S \subseteq Live /\ Live' = Live \ S /\ UNCHANGED <<rows, family>>
        BY <3>1, <3>6 DEF CommitFacts, Live
      <4> HIDE DEF S
      <4>2. CASE S = {}
        BY <4>1, <4>2 DEF SerialChains!chainVars
      <4>3. CASE S # {}
        <5>1. SerialChains!Close(S)
          BY <4>1, <4>3 DEF SerialChains!Close
        <5> QED BY <4>1, <5>1 DEF SerialChains!ChainNext
      <4> QED BY <4>2, <4>3
    <3> QED BY <3>1, <3>4, <3>5, <3>6 DEF CommitFacts
  <2> QED BY <2>1, <2>2, OnlyCommitWrites
<1> QED
  BY <1>1, <1>2, Invariance, SerialInvariance, PTL
  DEF Spec, ImplementsSerialChains, SerialChains!ChainSpec

\* models/token.py: family_id is a chain.  Served one at a time, requests never
\* fork it: what SessionChains proves of serial chains holds for the rows.
THEOREM OneEnd == OneAtATime /\ Spec => []OneLiveTokenPerFamily
<1>1. SerialChains!OneLivePerChain => OneLiveTokenPerFamily
  BY DEF SerialChains!OneLivePerChain, OneLiveTokenPerFamily
<1>2. SerialChains!ChainSpec => []SerialChains!OneLivePerChain
  BY SerialChainHasOneEnd
<1> QED BY <1>1, <1>2, ImplementsSerial, PTL DEF ImplementsSerialChains

\* The step from "commit" to "done" is the commit.
LEMMA CommittingCommits ==
  ASSUME OneAtATime, IInv, [Next]_vars, NEW r \in Requests, NEW op, Committing(r, op)
  PROVE  Commit(r)
<1>t. TypeOK BY DEF IInv
<1>1. pc[r] = "commit" /\ pc'[r] = "done" BY DEF Committing
<1>2. ~UNCHANGED vars /\ ~(\E u \in Users : RequestPasswordReset(u) \/ Deactivate(u))
        /\ ~(\E t \in Tokens : LastSecond(t) \/ Expire(t))
  BY <1>1 DEF vars, RequestPasswordReset, Deactivate, LastSecond, Expire
<1>3. Arrive(r) \/ Step(r) \/ LockStep(r) \/ LoseResponse(r) \/ Fail(r) \/ BreakDeadlock(r)
  BY <1>2 DEF Next, OneAtATime
<1>4. ~Arrive(r) /\ ~LockStep(r) /\ ~LoseResponse(r) /\ ~Fail(r) /\ ~BreakDeadlock(r)
  BY <1>t, <1>1 DEF Arrive, Login, Refresh, Logout, ChangePassword, ResetPassword, Begin,
                    LockStep, LoginFailed, LoginWrite, RefreshMark, Update, ResetHash,
                    LoseResponse, Finish, Fail, BreakDeadlock, Raise, TypeOK
<1> QED
  BY <1>1, <1>3, <1>4 DEF Step, LoginRead, LoginIssue, RefreshRead, RefreshUser, RefreshInsert,
     Scan, AuthBlacklist, AuthUser, LogoutBlacklist, Rollback, Respond, Finish

\* A password reset ends every session of its user, when no login and no
\* rotation runs beside it.
THEOREM ResetEnds == OneAtATime /\ Spec => ResetEndsAllSessions
<1> SUFFICES ASSUME OneAtATime PROVE Spec => ResetEndsAllSessions
  OBVIOUS
<1>1. ASSUME IInv, SerialOK, [Next]_vars, NEW r \in Requests, Committing(r, "reset")
      PROVE  \A t \in rows' : owner'[t] = arg[r].user => t \in revoked'
  <2>1. Commit(r) /\ arg[r].op = "reset" /\ pc[r] = "commit"
    BY <1>1, CommittingCommits DEF Committing
  <2>2. UNCHANGED <<rows, owner>> /\ revoked' = revoked \cup revoking[r]
    BY <2>1 DEF Commit, CommitInsert
  <2>3. RowsOfUser(r) \subseteq revoking[r] \cup revoked
    BY <1>1, <2>1 DEF SerialOK, ResetKnows
  <2> QED BY <2>2, <2>3 DEF RowsOfUser
<1>2. IInv /\ SerialOK /\ [Next]_vars =>
        [\A r \in Requests :
           Committing(r, "reset") =>
             \A t \in rows' : owner'[t] = arg[r].user => t \in revoked']_vars
  BY <1>1
<1> QED BY <1>2, Invariance, SerialInvariance, PTL DEF Spec, ResetEndsAllSessions

\* A logout that matched a live refresh token ends the whole session, when no
\* rotation of it runs beside the logout.
THEOREM LogoutEnds == OneAtATime /\ Spec => LogoutEndsFamily
<1> SUFFICES ASSUME OneAtATime PROVE Spec => LogoutEndsFamily
  OBVIOUS
<1>1. ASSUME IInv, SerialOK, OneLiveTokenPerFamily, [Next]_vars, NEW r \in Requests,
             Committing(r, "logout"), revoking[r] # {}
      PROVE  FamilyDead(family[arg[r].token])'
  <2>1. Commit(r) /\ arg[r].op = "logout" /\ pc[r] = "commit"
    BY <1>1, CommittingCommits DEF Committing
  <2>2. UNCHANGED <<rows, family, arg>> /\ revoked' = revoked \cup revoking[r]
    BY <2>1 DEF Commit, CommitInsert
  <2>3. revoking[r] = {arg[r].token} /\ arg[r].token \in Live
    BY <1>1, <2>1 DEF SerialOK, LogoutKnows, IInv, RequestOK, OutcomeOK, TransactionOK, Live
  <2>4. \A t \in rows : family[t] = family[arg[r].token] => t \in revoked'
    BY <1>1, <2>2, <2>3 DEF OneLiveTokenPerFamily, Live
  <2> QED BY <2>2, <2>4 DEF FamilyDead
<1>2. IInv /\ SerialOK /\ OneLiveTokenPerFamily /\ [Next]_vars =>
        [\A r \in Requests :
           Committing(r, "logout") /\ revoking[r] # {} =>
             FamilyDead(family[arg[r].token])']_vars
  BY <1>1
<1>3. Spec => []OneLiveTokenPerFamily BY OneEnd
<1> QED BY <1>2, <1>3, Invariance, SerialInvariance, PTL DEF Spec, LogoutEndsFamily

--------------------------------------------------------------------------------
(***************************************************************************)
(* Who waits for whom, with any number of requests: who waits for a users  *)
(* row holds nothing, and only an UPDATE of many rows holds one row of     *)
(* refresh_tokens and waits for another.                                   *)
(***************************************************************************)
\* Rows are locked by one request at a time, and who has written a users row has
\* no other one to write.
LocksOK ==
  /\ \A q, r \in Requests : q # r => locks[q] \cap locks[r] = {}
  /\ \A r \in Requests : columns[r] # {} =>
       /\ arg[r].op \in {"login", "reset"}
       /\ pc[r] \in {"login_issue", "scan", "update", "commit", "rollback"}

\* A step of r locks rows that nobody else has locked, and a written users row
\* goes with it to the end of the transaction.
LEMMA StepLocks ==
  ASSUME IInv, LocksOK, NEW r \in Requests,
         Arrive(r) \/ Step(r) \/ LockStep(r) \/ LoseResponse(r) \/ Fail(r) \/ BreakDeadlock(r)
  PROVE  /\ \A q \in Requests \ {r} : /\ locks'[q] = locks[q]
                                      /\ locks[q] \cap locks'[r] = {}
                                      /\ pc'[q] = pc[q] /\ arg'[q] = arg[q]
                                      /\ columns'[q] = columns[q]
         /\ columns'[r] # {} =>
              /\ arg'[r].op \in {"login", "reset"}
              /\ pc'[r] \in {"login_issue", "scan", "update", "commit", "rollback"}
<1>t. TypeOK /\ RequestOK(r) /\ DOMAIN columns = Requests /\ DOMAIN locks = Requests
  BY DEF IInv, TypeOK
<1>c. columns[r] # {} => /\ arg[r].op \in {"login", "reset"}
                         /\ pc[r] \in {"login_issue", "scan", "update", "commit", "rollback"}
  BY DEF LocksOK
<1>d. \A q \in Requests \ {r} : locks[q] \cap locks[r] = {}
  BY DEF LocksOK
<1>1. \A q \in Requests \ {r} : pc'[q] = pc[q] /\ arg'[q] = arg[q]
  BY StepTouchesOne
<1>2. CASE Arrive(r)
  <2>1. columns' = columns /\ locks' = locks /\ columns[r] = {}
    BY <1>t, <1>c, <1>2 DEF Arrive, Login, Refresh, Logout, ChangePassword, ResetPassword,
                            Begin, tx
  <2> QED BY <1>1, <1>d, <2>1
<1>3. CASE LoginRead(r) \/ LoginFailed(r) \/ LoginWrite(r) \/ LoginIssue(r) \/ ResetHash(r)
  <2>1. /\ locks' = locks /\ arg' = arg /\ arg[r].op \in {"login", "reset"}
        /\ \A q \in Requests \ {r} : columns'[q] = columns[q]
    BY <1>t, <1>3 DEF LoginRead, LoginFailed, LoginWrite, LoginIssue, ResetHash, Wrote, tx,
                      RequestOK, OperationOK
  <2>2. columns'[r] # {} =>
          pc'[r] \in {"login_issue", "scan", "update", "commit", "rollback"}
    BY <1>t, <1>c, <1>3 DEF LoginRead, LoginFailed, LoginWrite, LoginIssue, ResetHash, Wrote,
                            tx, Goto, Raise, TypeOK
  <2> QED BY <1>1, <1>d, <2>1, <2>2
<1>4. CASE \/ RefreshRead(r) \/ RefreshUser(r) \/ RefreshInsert(r) \/ Scan(r)
           \/ AuthBlacklist(r) \/ AuthUser(r) \/ LogoutBlacklist(r)
           \/ Fail(r) \/ BreakDeadlock(r)
  <2>1. /\ columns' = columns /\ locks' = locks /\ arg' = arg
        /\ columns[r] # {} => pc'[r] \in {"update", "rollback"}
    BY <1>t, <1>c, <1>4 DEF RefreshRead, RefreshUser, RefreshInsert, Scan, AuthBlacklist,
         AuthUser, LogoutBlacklist, Fail, BreakDeadlock, Goto, Raise, tx, TypeOK
  <2> QED BY <1>1, <1>c, <1>d, <2>1
<1>5. CASE RefreshMark(r)
  <2>1. /\ columns' = columns /\ arg' = arg /\ columns[r] = {}
        /\ TokensFree(r, {arg[r].token})
        /\ locks'[r] = locks[r] \cup {arg[r].token}
        /\ \A q \in Requests \ {r} : locks'[q] = locks[q]
    BY <1>t, <1>c, <1>5 DEF RefreshMark
  <2> QED BY <1>1, <1>d, <2>1 DEF TokensFree
<1>6. CASE Update(r)
  <2> DEFINE row == {next_row[r]} \ {NoToken}
  <2>1. /\ columns' = columns /\ arg' = arg /\ TokensFree(r, row)
        /\ locks'[r] = locks[r] \cup row
        /\ \A q \in Requests \ {r} : locks'[q] = locks[q]
    BY <1>t, <1>6 DEF Update
  <2>2. columns[r] # {} => pc'[r] \in {"update", "rollback", "commit"}
    BY <1>t, <1>c, <1>6 DEF Update, AfterUpdate, Goto, TypeOK
  <2> HIDE DEF row
  <2> QED BY <1>1, <1>c, <1>d, <2>1, <2>2 DEF TokensFree
<1>7. CASE Commit(r) \/ Rollback(r)
  <2>1. /\ columns'[r] = {} /\ locks'[r] = {}
        /\ \A q \in Requests \ {r} : columns'[q] = columns[q] /\ locks'[q] = locks[q]
    BY <1>t, <1>7 DEF Commit, Rollback, EndTransaction, Goto, TypeOK
  <2> QED BY <1>1, <2>1
<1>8. CASE Respond(r) \/ LoseResponse(r)
  <2>1. columns' = columns /\ locks' = locks /\ columns[r] = {}
    BY <1>t, <1>c, <1>8 DEF Respond, LoseResponse, Finish, tx, TypeOK
  <2> QED BY <1>1, <1>d, <2>1
<1> QED
  BY <1>2, <1>3, <1>4, <1>5, <1>6, <1>7, <1>8 DEF Step, LockStep

LEMMA LocksNext == IInv /\ LocksOK /\ [Next]_vars => LocksOK'
<1> SUFFICES ASSUME IInv, LocksOK, [Next]_vars PROVE LocksOK'
  OBVIOUS
<1>1. ASSUME NEW r \in Requests,
             Arrive(r) \/ Step(r) \/ LockStep(r) \/ LoseResponse(r) \/ Fail(r) \/ BreakDeadlock(r)
      PROVE  LocksOK'
  <2>1. /\ \A q \in Requests \ {r} : /\ locks'[q] = locks[q]
                                     /\ locks[q] \cap locks'[r] = {}
                                     /\ pc'[q] = pc[q] /\ arg'[q] = arg[q]
                                     /\ columns'[q] = columns[q]
        /\ columns'[r] # {} =>
             /\ arg'[r].op \in {"login", "reset"}
             /\ pc'[r] \in {"login_issue", "scan", "update", "commit", "rollback"}
    BY <1>1, StepLocks
  <2>2. \A p, q \in Requests : p # q => locks'[p] \cap locks'[q] = {}
    BY <2>1 DEF LocksOK
  <2> QED BY <2>1, <2>2 DEF LocksOK
<1>2. CASE \/ \E u \in Users : RequestPasswordReset(u) \/ Deactivate(u)
           \/ \E t \in Tokens : LastSecond(t) \/ Expire(t)
           \/ UNCHANGED vars
  <2>1. UNCHANGED <<pc, arg, columns, locks>>
    BY <1>2 DEF RequestPasswordReset, Deactivate, LastSecond, Expire, vars, tx
  <2> QED BY <2>1 DEF LocksOK
<1> QED BY <1>1, <1>2 DEF Next

LEMMA LocksInvariance == Spec => []LocksOK
<1>1. Init => LocksOK
  BY DEF Init, LocksOK
<1> QED BY <1>1, LocksNext, Invariance, PTL DEF Spec

\* Who is on a circle waits for a row of refresh_tokens, and has locked another.
LEMMA CirclesOfUpdates == IInv /\ LocksOK => OnlyBulkUpdatesDeadlock
<1> SUFFICES ASSUME IInv, LocksOK, NEW S \in SUBSET Requests, Circle(S), NEW r \in S
             PROVE  BulkUpdate(r) /\ locks[r] # {} /\ next_row[r] \notin locks[r]
  BY DEF OnlyBulkUpdatesDeadlock
<1>1. ASSUME NEW q \in Requests, WantsUser(q)
      PROVE  locks[q] = {} /\ columns[q] = {}
  BY <1>1 DEF WantsUser, LocksOK, IInv, RequestOK, TransactionOK
<1>2. ASSUME NEW q \in S PROVE ~WantsUser(q)
  <2>1. PICK p \in S : WaitsFor(p, q)
    BY DEF Circle
  <2>2. locks[q] # {} \/ columns[q] # {}
    BY <2>1 DEF WaitsFor
  <2> QED BY <1>1, <2>2
<1>3. WantsTokens(r) # {} /\ locks[r] # {} /\ WantsTokens(r) \cap locks[r] = {}
  <2>1. PICK p \in S : WaitsFor(r, p)
    BY DEF Circle
  <2>2. PICK q \in S : WaitsFor(q, r)
    BY DEF Circle
  <2>3. locks[p] \cap WantsTokens(r) # {} /\ p # r
    BY <1>2, <2>1 DEF WaitsFor
  <2>4. locks[r] \cap WantsTokens(q) # {}
    BY <1>2, <2>2 DEF WaitsFor
  <2>5. locks[p] \cap locks[r] = {}
    BY <2>3 DEF LocksOK
  <2>6. \A x, y \in WantsTokens(r) : x = y
    BY DEF WantsTokens
  <2> QED BY <2>3, <2>4, <2>5, <2>6
<1>4. RequestOK(r) /\ r \in Requests
  BY DEF IInv
<1>5. CASE pc[r] = "refresh_mark"
  <2>1. arg[r].op = "refresh" /\ out[r] = "none" /\ targets[r] = {}
    BY <1>4, <1>5 DEF RequestOK, OperationOK, OutcomeOK, TransactionOK
  <2>2. locks[r] \subseteq WantsTokens(r)
    BY <1>4, <1>5, <2>1 DEF RequestOK, TransactionOK, WantsTokens
  <2> QED BY <1>3, <2>2
<1>6. CASE pc[r] = "update"
  <2>1. next_row[r] \in targets[r] /\ next_row[r] \notin locks[r]
    BY <1>3, <1>4, <1>6 DEF RequestOK, TransactionOK, WantsTokens
  <2>2. ~(arg[r].op \in {"refresh", "logout"} /\ out[r] = "none")
    BY <1>3, <1>4, <2>1 DEF RequestOK, TransactionOK
  <2>3. BulkUpdate(r)
    BY <1>4, <1>6, <2>2 DEF RequestOK, OperationOK, OutcomeOK, BulkUpdate
  <2> QED BY <1>3, <2>1, <2>3
<1> QED BY <1>3, <1>5, <1>6 DEF WantsTokens

\* Logins, logouts and rotations never take part in a deadlock: a circle of waits
\* consists of UPDATEs of many rows, by reuse detection and password resets.
THEOREM OnlyBulkDeadlocks == Spec => []OnlyBulkUpdatesDeadlock
<1> QED BY CirclesOfUpdates, LocksInvariance, Invariance, PTL
================================================================================
