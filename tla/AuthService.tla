------------------------------ MODULE AuthService ------------------------------
(***************************************************************************)
(* The authentication core of voltage_backend: AuthService, its token and  *)
(* user repositories, the access-token check of get_current_user, the      *)
(* Redis blacklist and the request-scoped database session, as concurrent  *)
(* requests over one PostgreSQL database (READ COMMITTED) and one Redis.   *)
(*                                                                         *)
(* A request is one slot of Requests.  Every `await` of its handler that   *)
(* touches shared state is a step; what happens between two awaits is part *)
(* of the step.  What a request writes to the database stays in its own    *)
(* transaction until Commit; what it writes to Redis is visible at once.   *)
(*                                                                         *)
(* A member of Tokens is a refresh token together with the access token    *)
(* (its jti) minted in the same pair.  A rotation family is named by the   *)
(* token that opened it.                                                   *)
(***************************************************************************)
EXTENDS Naturals, FiniteSets

CONSTANTS Users,             \* rows of the table users
          Tokens,            \* the token pairs an execution can mint (bound)
          Requests,          \* slots of requests in flight at once (bound)
          Passwords,
          NoUser, NoToken, NoPassword,
          MaxFailedAttempts, \* MAX_FAILED_ATTEMPTS
          Workload           \* endpoints and environment events explored

Operations == {"login", "refresh", "logout", "change", "reset"}
Events     == {"deactivate", "expire", "fail", "lose"}

ASSUME ConstantsAssumption ==
  /\ NoUser \notin Users
  /\ NoToken \notin Tokens
  /\ NoPassword \notin Passwords
  /\ MaxFailedAttempts \in Nat \ {0}
  /\ Workload \subseteq Operations \cup Events

VARIABLES
  rows,         \* committed rows of refresh_tokens
  owner,        \* user_id of a row
  family,       \* family_id of a row
  revoked,      \* the rows whose revoked_at is not NULL
  replaced_by,  \* replaced_by_token_id of a row
  account,      \* the columns of users the handlers read
  blacklist,    \* the jtis in Redis (their lifetime: module TokenClock)
  held,         \* the token pairs some client has received
  ending,       \* the pairs whose access token is in its last second, or past it
  expired,      \* the refresh tokens past expires_at
  reset_live,   \* the users for whom an unexpired reset token is out
  pc, out, arg, \* of a request: step, outcome, input
  targets,      \* of its transaction: rows its UPDATE has still to take,
  next_row,     \*   the one of these it has come to,
  locks,        \*   rows of refresh_tokens it has locked,
  revoking,     \*   those of them it has revoked,
  columns,      \*   users columns it has written,
  instance      \*   the ORM instance of the user

db     == <<rows, owner, family, revoked, replaced_by, account>>
client == <<held, ending, expired, reset_live>>
tx     == <<targets, next_row, locks, revoking, columns, instance>>
vars   == <<rows, owner, family, revoked, replaced_by, account, blacklist,
            held, ending, expired, reset_live, pc, out, arg,
            targets, next_row, locks, revoking, columns, instance>>

Account == [hashed_password       : Passwords \cup {NoPassword},
            failed_login_attempts : Nat,
            locked_until          : {"null", "future"},
            is_active             : BOOLEAN]

UserColumns == {"hashed_password", "failed_login_attempts", "locked_until",
                "is_active", "last_login_at"}

Labels == {"idle", "login_read", "login_failed", "login_write", "login_issue",
           "refresh_read", "refresh_user", "refresh_insert", "scan", "update",
           "refresh_mark", "auth_blacklist", "auth_user", "logout_blacklist",
           "reset_hash", "commit", "rollback", "done"}

Outcomes == {"none", "ok", "invalid_credentials", "account_locked",
             "token_invalid", "token_expired", "token_revoked",
             "unauthorized", "server_error", "unavailable"}

Inputs == [op       : Operations \cup {"none"},
           user     : Users \cup {NoUser},
           password : Passwords \cup {NoPassword},
           token    : Tokens \cup {NoToken},   \* refresh token presented
           access   : Tokens \cup {NoToken},   \* bearer access token
           new      : Tokens \cup {NoToken}]   \* pair the request would mint

Input(op, user, password, token, access, new) ==
  [op |-> op, user |-> user, password |-> password,
   token |-> token, access |-> access, new |-> new]

NoInput == Input("none", NoUser, NoPassword, NoToken, NoToken, NoToken)

NoInstance == [hashed_password |-> NoPassword, failed_login_attempts |-> 0,
               locked_until |-> "null", is_active |-> FALSE]

TypeOK ==
  /\ rows \subseteq Tokens /\ revoked \subseteq rows /\ held \subseteq rows
  /\ blacklist \subseteq Tokens
  /\ ending \subseteq rows /\ expired \subseteq ending
  /\ reset_live \subseteq Users
  /\ owner \in [Tokens -> Users \cup {NoUser}]
  /\ family \in [Tokens -> Tokens \cup {NoToken}]
  /\ replaced_by \in [Tokens -> Tokens \cup {NoToken}]
  /\ account \in [Users -> Account]
  /\ pc \in [Requests -> Labels]
  /\ out \in [Requests -> Outcomes]
  /\ arg \in [Requests -> Inputs]
  /\ targets \in [Requests -> SUBSET Tokens]
  /\ next_row \in [Requests -> Tokens \cup {NoToken}]
  /\ locks \in [Requests -> SUBSET Tokens]
  /\ revoking \in [Requests -> SUBSET Tokens]
  /\ columns \in [Requests -> SUBSET UserColumns]
  /\ instance \in [Requests -> Account]

Init ==
  /\ rows = {} /\ revoked = {} /\ blacklist = {}
  /\ held = {} /\ ending = {} /\ expired = {} /\ reset_live = {}
  /\ owner = [t \in Tokens |-> NoUser]
  /\ family = [t \in Tokens |-> NoToken]
  /\ replaced_by = [t \in Tokens |-> NoToken]
  /\ \E password \in [Users -> Passwords] :
       account = [u \in Users |-> [hashed_password |-> password[u],
                                   failed_login_attempts |-> 0,
                                   locked_until |-> "null",
                                   is_active |-> TRUE]]
  /\ pc = [r \in Requests |-> "idle"]
  /\ out = [r \in Requests |-> "none"]
  /\ arg = [r \in Requests |-> NoInput]
  /\ targets = [r \in Requests |-> {}]
  /\ next_row = [r \in Requests |-> NoToken]
  /\ locks = [r \in Requests |-> {}]
  /\ revoking = [r \in Requests |-> {}]
  /\ columns = [r \in Requests |-> {}]
  /\ instance = [r \in Requests |-> NoInstance]

(***************************************************************************)
(* Helpers.                                                                *)
(***************************************************************************)
Live == rows \ revoked

\* uuid4 never repeats: an id is fresh when no row and no request has it.  (A
\* request that is sure to be refused is given none.)
Fresh == Tokens \ (rows \cup {arg[q].new : q \in Requests})

\* BaseRepository.update assigns only the attributes the model has: a value
\* for an unknown field is dropped without an error.
UpdateFields(row, values) ==
  [c \in DOMAIN row |-> IF c \in DOMAIN values THEN values[c] ELSE row[c]]

Changed(old, new) == {c \in DOMAIN old : old[c] # new[c]}

\* Both password flows pass the field `hash_password`; the mapped column is
\* called hashed_password.
SetPasswordHash(row, password) ==
  UpdateFields(row, [c \in {"hash_password"} |-> password])

SetFailedLoginAttempts(row, attempts, locked) ==
  [hashed_password |-> row.hashed_password, failed_login_attempts |-> attempts,
   locked_until |-> locked, is_active |-> row.is_active]

\* PostgreSQL keeps the lock of a written row to the end of the transaction.
TokensFree(r, S) == \A q \in Requests \ {r} : locks[q] \cap S = {}
UserFree(r) ==
  \A q \in Requests \ {r} :
    arg[q].user = arg[r].user => columns[q] = {}

\* Control transfer: to the next step, to the exception path, to the answer.
Goto(r, label) == pc' = [pc EXCEPT ![r] = label] /\ UNCHANGED out
Raise(r, error) ==
  pc' = [pc EXCEPT ![r] = "rollback"] /\ out' = [out EXCEPT ![r] = error]
Wrote(r, cols, row) ==
  /\ columns' = [columns EXCEPT ![r] = @ \cup cols]
  /\ instance' = [instance EXCEPT ![r] = row]
  /\ UNCHANGED <<targets, next_row, locks, revoking>>
EndTransaction(r) ==
  /\ targets' = [targets EXCEPT ![r] = {}]
  /\ next_row' = [next_row EXCEPT ![r] = NoToken]
  /\ locks' = [locks EXCEPT ![r] = {}]
  /\ revoking' = [revoking EXCEPT ![r] = {}]
  /\ columns' = [columns EXCEPT ![r] = {}]
  /\ instance' = [instance EXCEPT ![r] = NoInstance]

Begin(r, input, label) ==
  /\ pc[r] = "idle"
  /\ input.op \in Workload
  /\ arg' = [arg EXCEPT ![r] = input]
  /\ Goto(r, label)
  /\ UNCHANGED <<db, blacklist, client, tx>>

(***************************************************************************)
(* POST /auth/login.                                                       *)
(***************************************************************************)
Login(r) ==
  \E u \in Users \cup {NoUser}, p \in Passwords :
    \E t \in IF u = NoUser THEN {NoToken} ELSE Fresh :
      Begin(r, Input("login", u, p, NoToken, NoToken, t), "login_read")

LoginVerdict(u, password) ==
  IF u = NoUser THEN "invalid_credentials"
  ELSE IF account[u].locked_until = "future" THEN "account_locked"
  ELSE IF account[u].hashed_password # password THEN "bad_password"
  ELSE IF ~account[u].is_active THEN "invalid_credentials"
  ELSE "ok"

LoginRead(r) ==
  LET u == arg[r].user
      verdict == LoginVerdict(u, arg[r].password)
  IN
  /\ pc[r] = "login_read"
  /\ \/ /\ verdict \in {"ok", "bad_password"}
        /\ Wrote(r, {}, account[u])
        /\ Goto(r, IF verdict = "ok" THEN "login_write" ELSE "login_failed")
     \/ /\ verdict \notin {"ok", "bad_password"}
        /\ Raise(r, verdict)
        /\ UNCHANGED tx
  /\ UNCHANGED <<db, blacklist, client, arg>>

\* Wrong password: count the attempt, lock the account at the limit, raise.
\* The exception makes get_db_session roll the counter back.
LoginFailed(r) ==
  LET attempts == instance[r].failed_login_attempts + 1
      locked == IF attempts >= MaxFailedAttempts THEN "future" ELSE "null"
      row == SetFailedLoginAttempts(instance[r], attempts, locked)
  IN
  /\ pc[r] = "login_failed"
  /\ UserFree(r)
  /\ Wrote(r, Changed(instance[r], row), row)
  /\ Raise(r, "invalid_credentials")
  /\ UNCHANGED <<db, blacklist, client, arg>>

\* set_last_login: last_login_at always changes, so the row is locked.  (The
\* rehash before it goes through SetPasswordHash and writes nothing.)
LoginWrite(r) ==
  LET row == SetFailedLoginAttempts(instance[r], 0, "null") IN
  /\ pc[r] = "login_write"
  /\ UserFree(r)
  /\ Wrote(r, Changed(instance[r], row) \cup {"last_login_at"}, row)
  /\ Goto(r, "login_issue")
  /\ UNCHANGED <<db, blacklist, client, arg>>

\* _issue_token_pair: the row arg[r].new is inserted, in a family of its own.
LoginIssue(r) ==
  /\ pc[r] = "login_issue"
  /\ Goto(r, "commit")
  /\ UNCHANGED <<db, blacklist, client, arg, tx>>

(***************************************************************************)
(* POST /auth/refresh.  Clients present any token ever delivered.          *)
(***************************************************************************)
Refresh(r) ==
  \E old \in held \ expired :            \* decode_token rejects it otherwise
    \E t \in IF old \in revoked THEN {NoToken} ELSE Fresh :
      Begin(r, Input("refresh", owner[old], NoPassword, old, NoToken, t),
            "refresh_read")

\* Mutant: the revoked_at check is forgotten.
RefreshVerdictMutant(t) ==
  IF t \notin rows THEN "token_invalid"
  ELSE IF t \in expired THEN "token_expired"
  ELSE "ok"

RefreshVerdict(t) ==
  IF t \notin rows THEN "token_invalid"
  ELSE IF t \in revoked THEN "token_revoked"
  ELSE IF t \in expired THEN "token_expired"
  ELSE "ok"

RefreshRead(r) ==
  LET verdict == RefreshVerdict(arg[r].token) IN
  /\ pc[r] = "refresh_read"
  /\ \/ verdict = "ok" /\ Goto(r, "refresh_user")
     \/ /\ verdict = "token_revoked"   \* reuse: revoke_family, then raise
        /\ out' = [out EXCEPT ![r] = verdict]
        /\ pc' = [pc EXCEPT ![r] = "scan"]
     \/ verdict \notin {"ok", "token_revoked"} /\ Raise(r, verdict)
  /\ UNCHANGED <<db, blacklist, client, arg, tx>>

\* Mutant: the user's is_active is not looked at.
RefreshUserMutant(r) ==
  /\ pc[r] = "refresh_user"
  /\ Goto(r, "refresh_insert")
  /\ UNCHANGED <<db, blacklist, client, arg, tx>>

RefreshUser(r) ==
  /\ pc[r] = "refresh_user"
  /\ IF account[arg[r].user].is_active
     THEN Goto(r, "refresh_insert")
     ELSE Raise(r, "token_invalid")
  /\ UNCHANGED <<db, blacklist, client, arg, tx>>

\* Mutant: the rotated token is linked but not revoked.
RefreshInsertMutant(r) ==
  /\ pc[r] = "refresh_insert"
  /\ Goto(r, "refresh_mark")
  /\ UNCHANGED <<db, blacklist, client, arg, tx>>

\* create: the row arg[r].new is inserted in the family of arg[r].token.
RefreshInsert(r) ==
  /\ pc[r] = "refresh_insert"
  /\ Goto(r, "scan")
  /\ UNCHANGED <<db, blacklist, client, arg, tx>>

\* mark_replaced has no revoked_at condition, so it locks the row for sure.
RefreshMark(r) ==
  /\ pc[r] = "refresh_mark"
  /\ TokensFree(r, {arg[r].token})
  /\ locks' = [locks EXCEPT ![r] = @ \cup {arg[r].token}]
  /\ Goto(r, "commit")
  /\ UNCHANGED <<db, blacklist, client, arg,
                 targets, next_row, revoking, columns, instance>>

(***************************************************************************)
(* The UPDATE ... SET revoked_at = now() WHERE ... AND revoked_at IS NULL  *)
(* of revoke, revoke_family and revoke_all_for_user, in READ COMMITTED:    *)
(* the statement matches rows in its snapshot and then takes them one by   *)
(* one, in an order no ORDER BY fixes.  At each it waits for the           *)
(* transaction that has locked the row, locks it, and evaluates the        *)
(* condition again: a row found revoked is not written, but stays locked.  *)
(***************************************************************************)
\* Mutant: a reset revokes no more than the token presented.
RevokeScopeMutant(r) ==
  IF out[r] = "token_revoked"
  THEN {t \in rows : family[t] = family[arg[r].token]}
  ELSE {arg[r].token} \cap rows

\* Mutant: a logout revokes the family of its token.
RevokeScopeLogoutMutant(r) ==
  IF arg[r].op = "reset" THEN {t \in rows : owner[t] = arg[r].user}
  ELSE IF arg[r].op = "logout" \/ out[r] = "token_revoked"
       THEN {t \in rows : family[t] = family[arg[r].token]}
       ELSE {arg[r].token} \cap rows

RevokeScope(r) ==
  IF arg[r].op = "reset" THEN {t \in rows : owner[t] = arg[r].user}
  ELSE IF out[r] = "token_revoked"
       THEN {t \in rows : family[t] = family[arg[r].token]}
       ELSE {arg[r].token} \cap rows

\* The statement comes to one of the rows S, if there is any.
ComeToOneOf(S) == IF S = {} THEN {NoToken} ELSE S

Scan(r) ==
  /\ pc[r] = "scan"
  /\ LET S == RevokeScope(r) \ revoked IN
     /\ targets' = [targets EXCEPT ![r] = S]
     /\ \E t \in ComeToOneOf(S) : next_row' = [next_row EXCEPT ![r] = t]
  /\ Goto(r, "update")
  /\ UNCHANGED <<db, blacklist, client, arg, locks, revoking, columns, instance>>

AfterUpdate(r) == IF out[r] = "token_revoked" THEN "rollback"
                  ELSE IF arg[r].op = "refresh" THEN "refresh_mark" ELSE "commit"

\* Mutant: the statement skips locked rows instead of waiting for them.
UpdateMutant(r) ==
  /\ pc[r] = "update"
  /\ locks' = [locks EXCEPT ![r] = {t \in targets[r] : TokensFree(r, {t})}]
  /\ revoking' = [revoking EXCEPT ![r] = locks'[r] \ revoked]
  /\ Goto(r, AfterUpdate(r))
  /\ UNCHANGED <<db, blacklist, client, arg, targets, next_row, columns, instance>>

Update(r) ==
  LET row == {next_row[r]} \ {NoToken}
      left == targets[r] \ row
  IN
  /\ pc[r] = "update"
  /\ TokensFree(r, row)
  /\ locks' = [locks EXCEPT ![r] = @ \cup row]
  /\ revoking' = [revoking EXCEPT ![r] = @ \cup (row \ revoked)]
  /\ targets' = [targets EXCEPT ![r] = left]
  /\ \E t \in ComeToOneOf(left) : next_row' = [next_row EXCEPT ![r] = t]
  /\ Goto(r, IF left = {} THEN AfterUpdate(r) ELSE "update")
  /\ UNCHANGED <<db, blacklist, client, arg, columns, instance>>

(***************************************************************************)
(* get_current_user, then POST /auth/logout or /auth/change-password.      *)
(***************************************************************************)
\* The empty refresh token is NoToken: nothing is looked up then.  (Nor is it for
\* a request that is sure to be refused, so no other is tried.)  An access token
\* expires before the refresh token of its pair.
Logout(r) ==
  \E a \in held \ expired :
    \E t \in {NoToken} \cup
             IF a \in blacklist \/ ~account[owner[a]].is_active THEN {} ELSE held :
      Begin(r, Input("logout", owner[a], NoPassword, t, a, NoToken),
            "auth_blacklist")

ChangePassword(r) ==
  \E a \in held \ expired :
    Begin(r, Input("change", owner[a], NoPassword, NoToken, a, NoToken),
          "auth_blacklist")

AuthBlacklist(r) ==
  /\ pc[r] = "auth_blacklist"
  /\ IF arg[r].access \in blacklist THEN Raise(r, "token_revoked")
                                    ELSE Goto(r, "auth_user")
  /\ UNCHANGED <<db, blacklist, client, arg, tx>>

\* An account with any locked_until is refused, elapsed or not.
AuthVerdict(a) == IF ~a.is_active THEN "unauthorized"
                  ELSE IF a.locked_until # "null" THEN "account_locked"
                  ELSE "ok"

\* change_password reads current_user.u_id, which CurrentUser does not have:
\* the handler raises before it reaches the service.
AuthUser(r) ==
  LET verdict == AuthVerdict(account[arg[r].user]) IN
  /\ pc[r] = "auth_user"
  /\ \/ verdict # "ok" /\ Raise(r, verdict)
     \/ verdict = "ok" /\ arg[r].op = "change" /\ Raise(r, "server_error")
     \/ verdict = "ok" /\ arg[r].op = "logout" /\ Goto(r, "logout_blacklist")
  /\ UNCHANGED <<db, blacklist, client, arg, tx>>

\* Redis is written before the database, and outside its transaction.  In the
\* last second of the access token its ttl is 0, and nothing is written.
LogoutBlacklist(r) ==
  /\ pc[r] = "logout_blacklist"
  /\ blacklist' = blacklist \cup ({arg[r].access} \ ending)
  /\ Goto(r, IF arg[r].token = NoToken THEN "commit" ELSE "scan")
  /\ UNCHANGED <<db, client, arg, tx>>

(***************************************************************************)
(* POST /auth/password-reset/request and /password-reset/confirm.          *)
(***************************************************************************)
\* The token is signed, not stored; its delivery by e-mail is still to be
\* written in the code, and is assumed here.
RequestPasswordReset(u) ==
  /\ "reset" \in Workload
  /\ u \notin reset_live                \* a second token adds nothing
  /\ reset_live' = reset_live \cup {u}
  /\ UNCHANGED <<db, blacklist, held, ending, expired, pc, out, arg, tx>>

ResetPassword(r) ==
  \E u \in reset_live, p \in Passwords :
    Begin(r, Input("reset", u, p, NoToken, NoToken, NoToken), "reset_hash")

\* set_password_hash, then revoke_all_for_user.
ResetHash(r) ==
  LET loaded == account[arg[r].user]
      row == SetPasswordHash(loaded, arg[r].password)
  IN
  /\ pc[r] = "reset_hash"
  /\ Changed(loaded, row) # {} => UserFree(r)
  /\ Wrote(r, Changed(loaded, row), row)
  /\ Goto(r, "scan")
  /\ UNCHANGED <<db, blacklist, client, arg>>

(***************************************************************************)
(* The request-scoped session: commit on a clean exit, rollback on any     *)
(* exception; the answer leaves only afterwards.                           *)
(***************************************************************************)
CommitAccount(r) ==
  [u \in Users |->
     IF u = arg[r].user
     THEN LET old == account[u]
              col(c, new, was) == IF c \in columns[r] THEN new ELSE was
          IN [hashed_password |-> col("hashed_password",
                instance[r].hashed_password, old.hashed_password),
              failed_login_attempts |-> col("failed_login_attempts",
                instance[r].failed_login_attempts, old.failed_login_attempts),
              locked_until |-> col("locked_until",
                instance[r].locked_until, old.locked_until),
              is_active |-> old.is_active]
     ELSE account[u]]

\* Mutants: the new row is never added to the session; a rotated token opens
\* a family of its own.
CommitInsertLostMutant(r) == UNCHANGED <<rows, owner, family, replaced_by>>
CommitInsertFamilyMutant(r) ==
  IF arg[r].op \in {"login", "refresh"}
  THEN LET t == arg[r].new
       IN /\ rows' = rows \cup {t}
          /\ owner' = [owner EXCEPT ![t] = arg[r].user]
          /\ family' = [family EXCEPT ![t] = t]
          /\ replaced_by' = IF arg[r].op = "login" THEN replaced_by
                            ELSE [replaced_by EXCEPT ![arg[r].token] = t]
  ELSE UNCHANGED <<rows, owner, family, replaced_by>>

\* What the transaction of r inserts and how it links it: see LoginIssue,
\* RefreshInsert and RefreshMark.
CommitInsert(r) ==
  IF arg[r].op \in {"login", "refresh"}
  THEN LET t == arg[r].new
           old == arg[r].token
       IN /\ rows' = rows \cup {t}
          /\ owner' = [owner EXCEPT ![t] = arg[r].user]
          /\ family' = [family EXCEPT ![t] =
                          IF arg[r].op = "login" THEN t ELSE family[old]]
          /\ replaced_by' = IF arg[r].op = "login" THEN replaced_by
                            ELSE [replaced_by EXCEPT ![old] = t]
  ELSE UNCHANGED <<rows, owner, family, replaced_by>>

Commit(r) ==
  /\ pc[r] = "commit"
  /\ CommitInsert(r)
  /\ revoked' = revoked \cup revoking[r]
  /\ account' = CommitAccount(r)
  /\ EndTransaction(r)
  /\ pc' = [pc EXCEPT ![r] = "done"]
  /\ out' = [out EXCEPT ![r] = "ok"]
  /\ UNCHANGED <<blacklist, client, arg>>

\* Mutant: the session is not rolled back, its locks stay.
RollbackMutant(r) ==
  /\ pc[r] = "rollback"
  /\ Goto(r, "done")
  /\ UNCHANGED <<db, blacklist, client, arg, tx>>

Rollback(r) ==
  /\ pc[r] = "rollback"
  /\ EndTransaction(r)
  /\ Goto(r, "done")
  /\ UNCHANGED <<db, blacklist, client, arg>>

Finish(r, delivered) ==
  /\ pc[r] = "done"
  /\ held' = held \cup delivered
  /\ pc' = [pc EXCEPT ![r] = "idle"]
  /\ out' = [out EXCEPT ![r] = "none"]
  /\ arg' = [arg EXCEPT ![r] = NoInput]
  /\ UNCHANGED <<db, blacklist, ending, expired, reset_live, tx>>

Minted(r) == IF out[r] = "ok" THEN {arg[r].new} \ {NoToken} ELSE {}

Respond(r) == Finish(r, Minted(r))

\* The process or the connection dies between the commit and the answer.
LoseResponse(r) ==
  /\ "lose" \in Workload
  /\ Minted(r) # {}
  /\ Finish(r, {})

\* Any await may raise: a broken connection, a PostgreSQL error, a crash.
Fail(r) ==
  /\ "fail" \in Workload
  /\ pc[r] \notin {"idle", "rollback", "done"}
  /\ Raise(r, "unavailable")
  /\ UNCHANGED <<db, blacklist, client, arg, tx>>

(***************************************************************************)
(* Row locks that close a circle.                                          *)
(***************************************************************************)
\* The row of refresh_tokens, and the users row, that the next statement needs.
WantsTokens(r) ==
  IF pc[r] = "refresh_mark" THEN {arg[r].token}
  ELSE IF pc[r] = "update" THEN {next_row[r]} \ {NoToken} ELSE {}
WantsUser(r) == pc[r] \in {"login_failed", "login_write", "reset_hash"}

\* The next statement of r needs a row that the transaction of q has locked.
WaitsFor(r, q) ==
  /\ q # r
  /\ \/ locks[q] \cap WantsTokens(r) # {}
     \/ WantsUser(r) /\ arg[q].user = arg[r].user /\ columns[q] # {}

\* A request waits for one row and a row is locked by one request, so requests
\* that wait for each other, and are waited for by each other, form circles.
Circle(S) ==
  /\ S # {}
  /\ \A q \in S : (\E p \in S : WaitsFor(q, p)) /\ (\E p \in S : WaitsFor(p, q))

\* PostgreSQL looks for a circle when a wait has lasted deadlock_timeout, and
\* breaks it by failing the statement that looked: the request gets an error.
BreakDeadlock(r) ==
  /\ \E S \in SUBSET Requests : r \in S /\ Circle(S)
  /\ Raise(r, "unavailable")
  /\ UNCHANGED <<db, blacklist, client, arg, tx>>

(***************************************************************************)
(* The environment.                                                        *)
(***************************************************************************)
\* No endpoint clears is_active; an operator does, in the database.
Deactivate(u) ==
  /\ "deactivate" \in Workload
  /\ account[u].is_active
  /\ \A q \in Requests : arg[q].user = u => columns[q] = {}
  /\ account' = [account EXCEPT ![u].is_active = FALSE]
  /\ UNCHANGED <<rows, owner, family, revoked, replaced_by,
                 blacklist, client, pc, out, arg, tx>>

\* Lifetimes are equal, so no pair ends before the one it was exchanged for.
LastSecond(t) ==
  /\ "expire" \in Workload
  /\ t \in rows \ ending
  /\ \A old \in rows : replaced_by[old] = t => old \in ending
  /\ ending' = ending \cup {t}
  /\ UNCHANGED <<db, blacklist, held, expired, reset_live, pc, out, arg, tx>>

Expire(t) ==
  /\ "expire" \in Workload
  /\ t \in ending \ expired
  /\ \A old \in rows : replaced_by[old] = t => old \in expired
  /\ expired' = expired \cup {t}
  /\ UNCHANGED <<db, blacklist, held, ending, reset_live, pc, out, arg, tx>>

(***************************************************************************)
(* The specification.                                                      *)
(***************************************************************************)
\* Steps that never wait for another request.
Step(r) ==
  \/ LoginRead(r) \/ LoginIssue(r)
  \/ RefreshRead(r) \/ RefreshUser(r) \/ RefreshInsert(r)
  \/ Scan(r)
  \/ AuthBlacklist(r) \/ AuthUser(r) \/ LogoutBlacklist(r)
  \/ Commit(r) \/ Rollback(r) \/ Respond(r)

\* Steps that wait for a row lock.
LockStep(r) ==
  \/ LoginFailed(r) \/ LoginWrite(r) \/ RefreshMark(r)
  \/ Update(r) \/ ResetHash(r)

Arrive(r) ==
  Login(r) \/ Refresh(r) \/ Logout(r) \/ ChangePassword(r) \/ ResetPassword(r)

Next ==
  \/ \E r \in Requests :
       \/ Arrive(r) \/ Step(r) \/ LockStep(r)
       \/ BreakDeadlock(r) \/ LoseResponse(r) \/ Fail(r)
  \/ \E u \in Users : RequestPasswordReset(u) \/ Deactivate(u)
  \/ \E t \in Tokens : LastSecond(t) \/ Expire(t)

Spec == Init /\ [][Next]_vars

\* The event loop runs every ready coroutine; PostgreSQL queues lock waiters
\* in arrival order, so a waiter whose lock is freed again and again gets it;
\* and it looks for circles of waits, so one does not last.
Fairness ==
  \A r \in Requests :
    WF_vars(Step(r)) /\ SF_vars(LockStep(r)) /\ WF_vars(BreakDeadlock(r))

FairSpec == Spec /\ Fairness

(***************************************************************************)
(* What the component promises.                                            *)
(***************************************************************************)
\* A rotated token is revoked, and its replacement is a committed row of the
\* same family and the same user: the rotation audit trail never dangles,
\* whatever other rotation, logout or reset touched the row meanwhile.
RotationLinked ==
  \A t \in Tokens :
    replaced_by[t] # NoToken =>
      /\ t \in revoked
      /\ replaced_by[t] \in rows
      /\ family[replaced_by[t]] = family[t]
      /\ owner[replaced_by[t]] = owner[t]

\* When a logout is answered with success its access token is refused, or is in
\* its last second, and its refresh token is revoked, also when a rotation or a
\* reset held the row.
LogoutEndsSession ==
  \A r \in Requests :
    pc[r] = "done" /\ arg[r].op = "logout" /\ out[r] = "ok" =>
      /\ arg[r].access \in blacklist \cup ending
      /\ arg[r].token \in revoked \cup {NoToken}

\* A rotation past its check of the presented token.
Rotating(r) ==
  /\ arg[r].op = "refresh" /\ out[r] = "none"
  /\ pc[r] \notin {"refresh_read", "rollback", "done"}

FamilyDead(f) == \A t \in rows : family[t] = f => t \in revoked

\* Once every token of a family is revoked, and no rotation that checked its
\* token earlier is still running, the family never has a live token again, and
\* no rotation gets past its check.
DeadFamilyStaysDead ==
  [][\A t \in rows :
       LET f == family[t]
           quiet == ~\E r \in Requests : Rotating(r) /\ family[arg[r].token] = f
       IN FamilyDead(f) /\ quiet => FamilyDead(f)' /\ quiet']_vars

\* A request that may still mint a token for u without looking at is_active.
Admitted(r, u) ==
  /\ arg[r].user = u /\ arg[r].op \in {"login", "refresh"}
  /\ out[r] = "none"
  /\ pc[r] \notin {"login_read", "login_failed", "refresh_read",
                   "refresh_user", "rollback", "done"}

\* A deactivated user gets no new session: only the requests that had read
\* is_active before the deactivation can still commit one.
InactiveUserStaysOut ==
  [][\A u \in Users :
       ~account[u].is_active /\ (\A r \in Requests : ~Admitted(r, u)) =>
         /\ {t \in rows' : owner'[t] = u} = {t \in rows : owner[t] = u}
         /\ \A r \in Requests : ~Admitted(r, u)']_vars

\* Every request that has started is answered.  Two UPDATEs of many rows can
\* meet the rows in opposite orders and wait for each other; PostgreSQL then
\* fails one, and the rollback on its error frees the rows for the other.
EveryRequestAnswered ==
  \A r \in Requests : pc[r] # "idle" ~> pc[r] = "idle"

\* An UPDATE that may lock several rows: the revocation of a family on reuse,
\* and that of a user's sessions on a password reset.
BulkUpdate(r) ==
  /\ pc[r] = "update"
  /\ arg[r].op = "reset" \/ (arg[r].op = "refresh" /\ out[r] = "token_revoked")

\* A login, a logout or a rotation never takes part in a deadlock, nor does a
\* row of users: whoever is on a circle of waits is a bulk UPDATE that has
\* locked a row and has come to another.
OnlyBulkUpdatesDeadlock ==
  \A S \in SUBSET Requests :
    Circle(S) => \A r \in S : BulkUpdate(r) /\ locks[r] # {} /\ next_row[r] \notin locks[r]

Committing(r, op) == pc[r] = "commit" /\ arg[r].op = op /\ pc'[r] = "done"

\* models/token.py: family_id is a "rotation chain id".  A chain has one end:
\* at most one token of a family can still be exchanged.
OneLiveTokenPerFamily ==
  \A t1, t2 \in Live : family[t1] = family[t2] => t1 = t2

\* revoke_all_for_user: "Revoke every active refresh token for a user".  When
\* a password reset commits, no refresh token of the user is live.
ResetEndsAllSessions ==
  [][\A r \in Requests :
       Committing(r, "reset") =>
         \A t \in rows' : owner'[t] = arg[r].user => t \in revoked']_vars

\* set_password_hash: "Persist a new password hash".  A committed password
\* reset makes the new password the user's password.
ResetChangesPassword ==
  [][\A r \in Requests :
       Committing(r, "reset") =>
         account'[arg[r].user].hashed_password = arg[r].password]_vars

\* AuthService.refresh: "Refresh token has already been used; all sessions
\* revoked".  When that answer leaves, every token of the family is revoked.
ReuseRevokesFamily ==
  \A r \in Requests :
    pc[r] = "done" /\ arg[r].op = "refresh" /\ out[r] = "token_revoked" =>
      FamilyDead(family[arg[r].token])

\* logout: "Invalidate the current session".  When a logout whose statement
\* matched a live refresh token commits, no token of that session is live.
LogoutEndsFamily ==
  [][\A r \in Requests :
       Committing(r, "logout") /\ revoking[r] # {} =>
         FamilyDead(family[arg[r].token])']_vars
================================================================================
