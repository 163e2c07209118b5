# voltage_backend in TLA+

TLA+ modules, TLC instances and TLAPS proofs for the FastAPI backend in
`src/`: a service that manages electrical projects, their payments and files,
behind JWT authentication. Line numbers below are those of `src/`.

## 1. The system

One FastAPI process (asyncio), one PostgreSQL database, one Redis, one upload
directory. A request runs as a coroutine; between two `await`s nothing else
runs in the process, at every `await` anything may. Three facts shape all of
the behaviour, and all modules share them:

* `get_db_session` (`app/database/session.py:30-43`) gives a request one
  session, commits it after the handler returned *and* its answer was rendered,
  and rolls it back on **any** exception. With FastAPI 0.115 both happen before
  the answer is sent.
* PostgreSQL runs in READ COMMITTED: a statement sees what was committed when
  it started; an `UPDATE` waits for the transaction that holds a row and then
  evaluates its condition on the new row; locks last to the end of the
  transaction.
* The session has `autoflush=False, expire_on_commit=False` and an identity map:
  a row that is queried again keeps the instance loaded first; an `UPDATE` is
  sent only for columns that changed against that instance.

Redis and the disk take part in no transaction.

### Inventory

| Component | State | Operations | What makes it correct |
|---|---|---|---|
| AuthService, token and user repositories (`services/auth_service.py`, `repositories/token_repository.py`) | `refresh_tokens`, some columns of `users` | login, refresh (rotation with reuse detection), logout, change password, request/confirm reset | rotation never forks or revives a session, logout and reset end sessions, an inactive user gets none, failures are counted, every request is answered |
| Access-token check and blacklist (`auth/dependencies.py`, `security/blacklist.py`) | Redis keys with expiry | check, add | a logged-out access token is refused as long as it is alive |
| JWT (`security/jwt.py`) | none | create, decode | expiry means the same to the token, the row and the key |
| ProjectService (`services/project_service.py`) | `projects` | create, update, delete, five status transitions | the transition matrix, a terminal FINISHED, deletion freezes |
| PaymentService (`services/payment_service.py`) | `payments`, `projects.total_paid` | create, update, delete, totals | `total_paid` is the sum of the live payments |
| FileService, FileStorage (`services/file_service.py`, `storage/file_storage.py`) | `file_assets`, files on disk | upload, delete, rename, download | disk and records agree |
| UserService, UserRepository | `users`, phones, roles | CRUD, avatar, phones, roles | uniqueness, one owner per name |
| Roles, permissions, seed scripts (`permissions/`, `scripts/`) | `roles`, `permissions`, `role_permissions`, `user_roles` | RequirePermission, seed_roles, seed_admin | the matrix is there in whole or not at all, seeding can be repeated, the guard decides by committed rights |
| Pagination (`dependencies/pagination.py`, `responses/envelope.py`, `ProjectRepository.search`) | none (reads `projects`) | list, search | pages cover every row once, or say when not |
| Dashboard (`services/dashboard_service.py`) | none (reads) | overview, stats, recent | its figures are those of the books when nothing changes meanwhile, and agree with each other as far as that can be had |
| Calendar arithmetic (`utils/datetime_utils.py`) | none | month_range, is_same_month | the range of a month holds the dates of that month and no others |
| Validators, passwords (`validators/`, `security/password.py`) | none | checks of an input | a file is measured, rewound and limited; a payment is not dated in the future |
| Middleware, limiter, settings, logging, Docker, migrations | none shared | | not modelled (section 7) |

The components meet in the session (every service), in the `users` row (login,
refresh and the access check read it, login writes it), in Redis (logout writes,
the access check reads), in the role tables (the scripts write, every guarded
request reads), in the `projects` row (status, deletion and every payment write
it, the list and the dashboard read it) and on the disk (projects and payments
own files).

Hard behaviour, in the order of importance: interleaved rotations, logouts and
resets over row locks; writes undone by the exception that answers the request;
two stores without a common transaction (Redis/PostgreSQL, disk/PostgreSQL);
read-check-write without a lock (status, total); clocks of different
resolution; scripts that race for unique keys; pages cut from a list that
changes, in an order that need not be total; one answer put together from
several snapshots. `PROJECT.json` lists the hazards one by one with the line where
each bites and the properties that watch it.

## 2. Modules

| Module | What it is |
|---|---|
| `AuthService` | the authentication core as concurrent requests |
| `SessionChains` | abstract specification: sessions are chains of tokens |
| `AuthServiceProofs` | invariants of `AuthService`, theorems, and both refinements of `SessionChains`, the concurrent and the serial one |
| `MCAuthService` | TLC instance: symmetry |
| `TokenClock` | JWT, row and Redis expiry on one clock, for one token pair |
| `TokenClockProofs` | its inductive invariant and theorems |
| `LedgerBooks` | abstract specification: books of projects and payments that change by one entry at a time |
| `ProjectLedger` | projects, statuses, payments and `total_paid` as concurrent requests; implements `LedgerBooks` |
| `ProjectLedgerProofs` | its inductive invariant, the refinement and theorems |
| `MCProjectLedger` | TLC instance: symmetry |
| `Calendar` | dates and month arithmetic |
| `Dashboard` | the overview's statements beside `LedgerBooks` and midnight; uses `Calendar` |
| `DashboardProofs` | theorems about `Calendar`, the inductive invariant of `Dashboard` and its theorems |
| `MCDashboard` | TLC instance: days at the ends of months and years, symmetry |
| `FileStore` | files on disk against their records, and the three reads of an upload |
| `FileStoreProofs` | its inductive invariant and theorems |
| `RoleSeeding` | seed_roles and seed_admin over unique keys, beside a guarded request |
| `MCRoleSeeding` | TLC instance: a reduced matrix, what earlier releases left |
| `RoleSeedingProofs` | inductive invariants of `RoleSeeding` and its theorems |
| `ProjectListing` | a walk through the pages of `GET /projects` |
| `MCProjectListing` | TLC instance: two sort columns, one of them with ties |
| `ProjectListingProofs` | invariants of `ProjectListing` and its theorems |
| `Sums` | the laws of sums over finite sets that three of the proof modules rest on |

`Dashboard` composes with the ledger through `LedgerBooks`: `ProjectLedger`
implements that module, and `Dashboard` lets its entries happen between any two
statements, instead of carrying whole payment requests along.

In the modules of requests a request is a slot of `Requests` with a program counter `pc`;
every `await` of the handler that reaches shared state is one action, and what
follows it up to the next `await` belongs to the same action. What a
transaction has written but not committed is kept per request
(`revoking`, `columns`, `wrote`, ...; `locks` are the rows it keeps others from) and merged into the tables by `Commit`.
`map` in `PROJECT.json` names the source lines of each definition; operators
whose name ends in `Mutant` are deliberate bugs, used only to show that a
property can fail.

### AuthService

State: the table `refresh_tokens` as sets and functions over `Tokens` (`rows`,
`owner`, `family`, `revoked`, `replaced_by`), the columns of `users` the handlers
read (`account`), the blacklisted jtis, what clients hold (`held`), what has
expired, and the pairs whose access token is in its last second or past it
(`ending`), when its ttl is 0 and a logout writes no key. A member of `Tokens` stands for a refresh token *and* the access token
minted with it; a family is named by the token that opened it.

| Code | Actions |
|---|---|
| `POST /login`, `AuthService.login` 53-93 | `Login`, `LoginRead` (`LoginVerdict`), `LoginFailed` or `LoginWrite`, `LoginIssue` |
| `POST /refresh`, `AuthService.refresh` 117-170 | `Refresh`, `RefreshRead` (`RefreshVerdict`), `RefreshUser`, `RefreshInsert`, `Scan`, `Update`, `RefreshMark`; on reuse `Scan`, `Update` over the family, then the exception |
| `POST /logout`, `get_current_user`, `AuthService.logout` 172-181 | `Logout`, `AuthBlacklist`, `AuthUser`, `LogoutBlacklist`, `Scan`, `Update` |
| `POST /change-password` 126-135 | `ChangePassword`, `AuthBlacklist`, `AuthUser`: it reads `current_user.u_id`, which `CurrentUser` (`schemas/auth.py:63-70`) does not have, so it always ends in an internal error |
| `POST /password-reset/*` 195-226 | `RequestPasswordReset`, `ResetPassword`, `ResetHash`, `Scan`, `Update` |
| `get_db_session` | `Commit`, `Rollback`; `Respond` sends the answer |
| PostgreSQL's deadlock detector | `BreakDeadlock` |
| the world | `LoseResponse`, `Fail`, `Deactivate`, `LastSecond`, `Expire` |

`Scan` and `Update` are one `UPDATE ... WHERE revoked_at IS NULL`. `Scan` matches
rows in the statement's snapshot; each `Update` takes one of them, in any order,
waits for the transaction that has locked it, locks it, and evaluates the
condition again: a row found revoked is not written but stays locked. So the
two statements of many rows, `revoke_family` and `revoke_all_for_user`, can meet the same
rows in opposite orders and wait for each other; `BreakDeadlock` then fails one of them,
an error no handler catches.

Modelled as the code has it, although it looks unintended: `SetPasswordHash`
passes an attribute the model does not have; `locked_until` is never committed;
a reset token can be used until it expires. `Deactivate` is an operator's
`UPDATE`, since no endpoint clears `is_active`; it stands for soft deletion of a
user too, which `get_by_id` treats alike. Delivery of a reset token is a TODO in
the code (line 213) and is assumed. An empty or unknown refresh token at logout
is `NoToken`: nothing is looked up or nothing is found. A request that is sure to be
refused before it uses a refresh token, or mints a pair, is given `NoToken` for it,
which keeps the state space small and loses no behaviour of the tables.

### TokenClock

One token pair on a clock of ticks, several to the second. `exp` claims are
whole seconds (`int(timestamp())`), `expires_at` and Redis' key expiry are not;
python-jose 3.3 refuses a token when `exp < int(now)`. Requests decode, ask the
blacklist, decode again and write the key at different ticks.

### ProjectLedger

`ProjectService.create_project`, `_transition_status`, `delete_project`, and the
three payment operations with `recalculate_total_paid`, at the level of the
services: an operation ends in a commit, or in a rollback by `Fail`.

| Code | Actions |
|---|---|
| `create_project` | `CreateProject`, `InsertProject` |
| start, stop, finish, mark_bad, restore (`_transition_status`) | `ChangeStatus`, `ReadProject` (the matrix), `FindProject`, `WriteProject` |
| `delete_project` | `DeleteProject`, `ReadProject`, `FindProject`, `WriteProject` |
| `create_payment` | `CreatePayment`, `ReadProject`, `InsertPayment`, then the total |
| `update_payment`, `delete_payment` | `ReadPayment`, `FindPayment`, `WritePayment`, then the total |
| `recalculate_total_paid` | `SumPayments`, `FindProject`, `WriteProject` |
| `get_db_session` | `Commit`, `Fail` |
 The nondeterminism of
`Fail` at the very end covers the endpoints whose answer needs a column the
session has not loaded back (`updated_at` after an `UPDATE`, an unloaded
`owner` or `project`): SQLAlchemy cannot load it while the answer is rendered,
and the request is rolled back. The two deletions answer with a plain message
and do commit; the lost update of section 6 uses only those. `loaded` is what
the identity map keeps for a comparison. `overlapped` is a history variable.

### FileStore

`FileService.upload`, `delete`, `get_download_path` with `FileStorage`, at the
level of the service (the two upload endpoints pass `current_user.u_id`, as
above). An upload reads its body three times: `Validate` measures it against the
limit, `Sniff` looks at its first bytes, `WriteChunks` saves it; `unread` is what
is left to read, and each reader but the last rewinds. Of the bytes the model
keeps how many there are. `os.remove` runs as soon as the record is found, before the record is
marked; bytes are written before the record is inserted. `failed` is a history
variable: the files whose bytes an upload or a deletion had touched when it
failed, and that no deletion has committed since.

### RoleSeeding

A table is the set of its unique keys: names of roles, codes of permissions,
granted pairs, the administrator, the administrator's membership. `rows` is
what is committed, `own` what each running script has inserted.

| Code | Actions |
|---|---|
| `get_or_create` (`role_repository.py:22-31`, `permission_repository.py:22-30`), `attach_permission` | `Look` (its SELECT), `Insert` (its flush) |
| `seed_roles.seed` | `SeedRoles`, then `Look` and `Insert` along `RolesPlan`, `Commit` |
| `seed_admin.seed` | `SeedAdmin`, `FindUser`, then along `AdminPlan`: role, user, membership |
| `get_db_session_ctx` | `Commit`, `Rollback`; `Fail` ends a script anywhere |
| `get_current_user` 51-72, `RequirePermission` | `Request` (the user's roles are read), `LoadPermissions` per role, `Verdict` |

An INSERT waits for a transaction that holds the same key and is refused when
that one commits (PostgreSQL; `IntegrityError`, which ends the script). Both
scripts can be started again whenever they have ended. `RolesPlan` is
`DEFAULT_ROLE_PERMISSIONS` flattened in the order of the loops; `MCRoleSeeding`
flattens a matrix of two roles. Rights are only ever added:
`detach_permission` has no caller, so a permission that a release takes out of
the matrix stays granted, although `permissions/roles.py:54` calls the matrix
"the single source of truth".

### ProjectListing

One client that walks from page 1 as long as `has_next` says so, with a fixed
limit, sort column and direction; `Count` and `Select` are the two statements of
`ProjectRepository.search`, each with its own snapshot. Projects are numbered
in the order of `created_at`, the default sort column, taken to be distinct (it
is the start of the creating transaction, in microseconds). Any other column of
`sort_by` is a function `Key[column]` that may give several projects one value;
there is no second sort key, so `Selected` lets the database choose the order of
ties anew in each statement: a page is what `ORDER BY ... OFFSET ... LIMIT` may
return. The values of the sort column do not change during a walk. `Enter` and `Leave`
are what other requests commit, at the level of the services as in
`ProjectLedger`; `Enter` can be in the middle, since a creation may commit
later than a younger one. `listed`, `entered`, `left` and `raced` are history
variables.

### Calendar and Dashboard

`Calendar` translates `month_range` (the first of the month, and the day before
the first of the next month) and `is_same_month` over Gregorian dates.

`Dashboard` runs `get_overview` as its five statements: `CountByStatus`,
`GetTotalAmount`, `GetThisMonthTotal`, `GetRecentProjects`, `GetRecentPayments`
(`get_stats` is the first three, `get_recent` the last two). `CommitProject`,
`CommitPayment`, `CommitAmendment` and `CommitRemoval` are entries of
`LedgerBooks`; `Midnight` changes the day that the month's sum goes by. A
payment's date is at most the day of its commit (`validate_not_future_date`).
The user figures are left out: they read the `users` table, which the books do
not have.

## 3. Runs

All bounds are constants of the `.cfg` files. Tokens, payments and requests are
symmetric where nothing distinguishes them and no liveness is checked.

| Run | Instance | Shows |
|---|---|---|
| `auth_concurrent` | 1 user, 3 tokens, 2 requests; login, refresh, logout, reset | `TypeOK`, `RotationLinked`, `LogoutEndsSession`, `DeadFamilyStaysDead`, `OnlyBulkUpdatesDeadlock` under every interleaving of two requests; the token table implements `SessionChains` with `Serial = FALSE` |
| `auth_sequential` | 1 user, 3 tokens, 2 passwords, 1 request; all operations and events | `IInv` (the inductive invariant of the proofs), `InactiveUserStaysOut`, and what holds only without overlap: `OneLiveTokenPerFamily`, `ResetEndsAllSessions`, `SessionChains` with `Serial = TRUE` |
| `auth_liveness` | 1 user, 2 tokens, 2 requests, fair; login, refresh, logout, reset | `EveryRequestAnswered` |
| `token_clock` | 2 ticks per second, lifetimes 2 s and 3 s, 10 ticks, 2 requests | `LogoutHolds`, `RefreshWindowExact`, `KeyReachesExp` |
| `ledger` | 1 project, 2 payments, amounts 1 and 2, 2 requests | `LedgerHeals`, `DeletedProjectFrozen`, `StatusFollowsMatrix`; the tables implement `LedgerBooks` (`ImplementsBooks`) |
| `dashboard` | 1 project, 2 payments, amounts 1 and 2, 4 days, limit 1, at most 2 commits of others during one overview | `QuietOverviewExact`, `MonthWithinTotal`, `MonthShownInRecent` |
| `file_store` | 2 files of 0, 2 or 3 bytes, limit 2, 3 requests | `DiskMatchesRecords`, `DeletedBytesAreGone`, `WholeFilesServed` |
| `listing` | 4 projects, 2 sort columns (one with 3 ties), pages of 1 to 3 | `QuietWalkExact`, `NoneMissed`, `NoneRepeated` |
| `seeding` | 2 roles, 2 permissions, 2 scripts, 3 kinds of request, 3 earlier contents; fair | `MatrixWholeOrUntouched`, `RerunIsHarmless`, `CollisionHasWinner`, `AdministratorComplete`, `GuardIsJust`, `EverySeedEnds` |
| `find_*` | as small as the violation | section 6 |

Why the bounds suffice for what is claimed. Three tokens make two families or a
family with two rotations, so a reuse, a fork and a stale revocation all occur;
one user is enough because no step relates two users (rows are disjoint by
owner), and the proofs hold for any number. Two requests give every pair of
overlapping handlers; lock waits are pairwise. `auth_sequential` keeps the
failures, the expiry, the deactivation and the second password that would make the
concurrent instance too large; a deactivation is a step of the operator, so one slot
lets it fall between any two steps of a request. A pair ends no earlier than the one it
was exchanged for, since all lifetimes are equal (`LastSecond`, `Expire`). Two ticks to a second are the smallest clock that has a fraction; ten
ticks reach past both lifetimes from the first two seconds of issue. In
`ledger` the seeded payments make every operation possible at once; two
payments are enough for two overlapping writes. `file_store` and `token_clock`
stop when the pool of names or the clock is used up, hence
`CHECK_DEADLOCK FALSE`. The other runs check deadlock, which says little: a request
that waits can also fail, so TLC always finds a next step. Circles of waits have
statements of their own: in `AuthService` they exist, `OnlyBulkUpdatesDeadlock` says
between whom, and `EveryRequestAnswered` that they pass; in `ProjectLedger` and
`RoleSeeding` there are none (`NoDeadlock`, section 5), and `EverySeedEnds` has no
failure and no detector to help it.

One project is enough in `ledger`: no handler touches two, and `ProjectLedgerProofs`
covers any number. The tables start with or without that project, and with zero,
one or two payments. In `dashboard` the days are the last of December, the first of
January and the end of a leap February, and the same December a year later, so
that a month begins, ends and has a namesake; two days of the list follow each
other, which lets `Midnight` cross a month and a year. Two payments and a limit
of one make `recent_payments` leave something out (the order of recent projects takes
two projects, which the instance does not have; `QuietOverviewIsExact` covers it); two commits of others reach
every pair of gaps between two statements. In `file_store` the sizes are nothing,
exactly the limit and one more.

In `listing`, four projects and pages of up to three give walks of one to four
pages, with full, partial and single last pages, and room for projects to
enter and leave between any two statements; three of four ties fill more than
one page. In `seeding`, two scripts
give every pair (twice the same one, or one of each) at every pair of
positions; collisions are pairwise. The two roles share a permission, so a code
is found as well as created, and the tables start empty, with an administrator
only, or with the matrix of an earlier release.

`auth_liveness` has two tokens of one user: enough for a rotation to be queued behind
another, a logout behind a reset, and for two resets to meet two rows in
opposite orders and deadlock. The circle of a reset with a detected reuse takes a
third token, and is among the states of `auth_concurrent`; to the scheduler it is the
same circle of two bulk updates.

Fairness (`AuthService!Fairness`): weak for steps that never wait, since the
event loop runs every ready coroutine; strong for steps that wait for a row
lock, since PostgreSQL queues waiters in order of arrival, so that a lock which
is freed again and again is eventually granted; weak for `BreakDeadlock`, since
PostgreSQL looks for circles whenever a wait has lasted `deadlock_timeout`. `RoleSeeding!Fairness` says the
same of scripts and of an INSERT that waits for a key. Arrivals, failures and events
of the environment have no fairness.

## 4. The abstract specifications

`SessionChains` knows only issued tokens, live tokens and the chain each belongs
to: `Open`, `Rotate`, `Close`. Under `Serial`, only a live token is rotated.
`AuthService` implements it with `known <- rows, live <- rows \ revoked,
chain <- family`: for `Serial = FALSE` in every interleaving, for `Serial = TRUE`
when one request runs at a time; both are model-checked and proved.
`SerialChainHasOneEnd` proves that serial chains have at most one live token, so
the fork of a family under concurrent refreshes is the one place where the
implementation falls short of the serial specification.

`LedgerBooks` knows projects with a status and payments with their terms, and
changes them by one entry at a time: `Open`, `Move`, `Delete`, `Record`, `Amend`,
`Remove`. A payment stays on its project and does not come back once removed.
`Amend` is allowed on a removed payment: an update that matched the payment before
a deletion committed still writes its row (`BaseRepository.update` compares by
primary key). `ProjectLedger` implements it with `terms <- amount`, whatever
interleaves, model-checked and proved; `total_paid` is not part of the books, since
overlapping requests lose it (section 6).

## 5. Proofs

`tlapm` checks `AuthServiceProofs`, `TokenClockProofs`, `ProjectLedgerProofs`,
`FileStoreProofs`, `RoleSeedingProofs`, `ProjectListingProofs`, `DashboardProofs` and
`Sums` to the last leaf. The only assumptions are

* `ConstantsAssumption`: the `No...` values are outside their sets,
  `MaxFailedAttempts` is positive, `Workload` names known operations;
* `ClockAssumption`: a second has at least one tick, the lifetimes are positive
  numbers of seconds, the bound on ticks is a number;
* `LedgerAssumption`: the `No...` values are outside their sets, the rows of the two
  tables are told apart, there are finitely many payments, amounts are positive;
* `FileAssumption`: `NoFile` is no file, sizes and the limit are numbers;
* `SeedAssumption`: the plan names roles, codes and grants, the role admin among
  them; an earlier release left no administrator without the role;
* `ListingAssumption`: positive bounds, every column gives every project a number,
  `created_at` its own;
* `DashboardAssumption`: days are dates, there are finitely many projects and
  payments, amounts are positive, limits and the bound on edits are numbers.

The sets of users, tokens, requests, passwords, files, roles, codes and scripts are
arbitrary, those of projects and payments arbitrary as far as said here. Before an
invariant was proved, TLC checked it on the instance of its module.

`AuthServiceProofs`:

* `Invariance`: `Spec => []IInv`. `RotationLinked` and `LogoutEndsSession` are
  not inductive: a step of one request can only be judged with what the request
  knows from its earlier steps. `IInv` therefore adds, for each request,
  `OperationOK` (which operation can be at which label), `ArgumentOK` (the
  input's tokens are rows and belong to the user), `OutcomeOK` (where an outcome
  is decided), `NewOK` (the pair a request would mint is no row before its
  commit), `TransactionOK` (what a transaction matched, and that a token it
  matched but did not revoke was revoked by somebody else), and for the tables
  `RowsOK` (owners and families of rows are defined) and `NewDistinct` (no two
  requests mint the same pair). There is one lemma per group of actions; each
  first states the effect of the step and then the invariant of the request
  that moved, and `OtherRequest` and `LocalStep` settle the others.
* `TypeCorrect`, `AuditTrail`, `LogoutCloses`: `TypeOK`, `RotationLinked`,
  `LogoutEndsSession` follow from `IInv`.
* `DeadFamily`, `InactiveUser`: the two action properties, from `IInv` and
  `OnlyCommitWrites` (no other step changes the token table).
* `Implements`: the refinement of `SessionChains`, step by step.
* `SerialChainHasOneEnd`: about the abstract specification.
* One request at a time (`OneAtATime`: there is one slot; any number of requests
  pass through it). `SerialOK` adds to `IInv` what nobody can make stale: a
  rotation under way still holds a live token (`RotatesLive`), a reset has matched
  every live row of its user (`ResetKnows`), a logout its own (`LogoutKnows`).
  From it: `ImplementsSerial`, every step is one of serial `SessionChains`;
  `OneEnd`, which carries `SerialChainHasOneEnd` over to the rows
  (`OneLiveTokenPerFamily`); `ResetEnds` and `LogoutEnds`. Section 6 says how each
  fails with two slots: the hypothesis is needed.
* `OnlyBulkDeadlocks`, for any number of slots. `WaitsFor` says whose row the next
  statement of a request needs. `LocksOK`, inductive beside `IInv`, says that no two
  requests have locked one row of `refresh_tokens`, and that a request that has
  written a `users` row has no other left to write. With `TransactionOK`: who waits for
  a `users` row has locked nothing, and a logout or a rotation at most the row of the
  token presented, the only one it asks for. So whoever is on a circle of waits
  (`CirclesOfUpdates`) is a `revoke_family` or a `revoke_all_for_user` between two of its
  rows. Such circles are real, and PostgreSQL, not the code, ends them. Inserts that
  refer to a row take a shared lock on its key, which no `UPDATE` of other columns
  waits for.

`TokenClockProofs` proves every property of the `token_clock` run, for any number
of ticks to the second, any lifetimes and any number of requests. Its `ClockInv`
adds to `TypeOK` that requests exist only after the pair was issued (`Issued`), that
the lifetime a logout has computed, counted from whatever second it is written
in, reaches `exp` (`LifetimeReaches`), and that an answered logout has left a key
that lasts to `exp` or a token at its end (`LogoutLasts`). `KeyReaches` says of every key
that a logout writes, the first or a later one, that it ends in or after the
second `exp`; not that it lasts as long as the token, nor that a later one
ends no earlier (section 6). Lemmas about whole
seconds (`SecondOrdered`, `SecondShift`) carry the arithmetic.

`ProjectLedgerProofs` proves the refinement of `LedgerBooks` and the two action
properties about projects. `LedgerInv` says, of the tables, what the books do; of
a request, that what its input says of the tables stays true (`InputHolds`: its
payment is fresh, or recorded, its project known), which steps its operation can
be at and that an unoverlapped status change still has the status it checked
(`StepHolds`); and of two requests, that they insert different rows and that two
status changes of one project know of each other (`Apart`). Row locks play no
part in it: an entry is a single commit. `LedgerImplementsBooks` shows that each
commit is one entry or none; `MatrixFollowed` that a status moves along the matrix
unless overlapped; `DeletedFrozen` that a deleted project keeps its status and its total and gets no
new payment except through requests that had found it, and that no request finds it any
more (`NeverFound`); its payments can still be amended and removed (section 6);
`PaymentsKept` that no payment changes its project or returns.

`AccountInv` adds what `LedgerInv` leaves out, the numbers. Of a payment request that
no other one of its project has overlapped it says (`SumHolds`) that the sum it has
selected is the one its commit will leave, that what `create_payment` keeps loaded is
still the total, and that a total it does not write is right already. A commit of
another request is then either of another project, or leaves the project's payments
alone (`EntryAway`, `CommitAway`), or comes from a payment request and ends the
exemption. From it: `TypeCorrect`, whose point is that totals are sums of amounts, and
`HealsTheTotal` (`LedgerHeals`). `NoDeadlock`: a request writes its payment before its
project and no other row (`Locks`), so who has written the project is past its last
wait, chains of waits end after two, and no two transactions in flight have written
the same row.

`Sums` gives these proofs, and those of `DashboardProofs` and `ProjectListingProofs`,
the laws of `SumFunctionOnSet`. The community module defines the sum by recursion over
subsets, whose induction theorem the prover cannot instantiate. Instead the sum is
shown to be the cardinality of a set of units, `f[x]` of them for each `x`: this number
solves the recursion, and two solutions agree, because a least subset on which they
differ, which exists as strict inclusion is well-founded on finite sets, has a smaller
one. What a sum is over a union, one element more or a smaller set are then facts
about cardinalities.

`DashboardProofs` proves every property of the `dashboard` run, for any books, days and
limits. First `MonthRangeExact` (a date is in the range of a month exactly when
`is_same_month` says so, leap years and December included) and `MonthsTile` (the
ranges meet without a gap), for every date: it is why `QuietOverviewExact` may state
the month's figure by `IsSameMonth`. `OverviewInv` says of each figure what it is still
worth while the request has statements to send: `FiguresExact`, when nothing has
changed, each figure read is the one of the books; `TotalCovers`, while nothing was
recorded or amended since the total, it covers all live payments, so this month's, a
part of them, cannot exceed it (`SumMonotone`); `MonthStands`, while nothing was
withdrawn since the month's sum, a payment of the month is live, and since none is
dated in the future, the most recent ones are of this month too (`RecentShowsMonth`).

`FileStoreProofs` proves every property of the `file_store` run, for any sizes and
any limit. Its `IInv` adds to `DiskMatchesRecords` and `DeletedBytesAreGone`:

* `UploadOK`: an upload shares its file with no other request and no record, and
  knows how much of it is on disk;
* `DeleteOK`: past the look-up the bytes are gone, and a deletion that leaves
  the record alone does so because another one has marked it;
* `BytesOK`: every file that is closed is on disk as it was sent and within the
  limit, and a record's size is what was sent, even when its bytes are gone;
* `RecordsWhole`: no record stands for a file that is still being written, which
  is why a download, that goes by the record alone, delivers whole files.

`StepOK` reduces a step to the request that takes it and to its own file
(`OnlyRequest`, `OnlyFile`); there is one lemma per action.

`RoleSeedingProofs` proves every safety property of the `seeding` run. Its `IInv`
adds, per script, what its position says (`RolesRunOK`, `AdminRunOK`: the keys
before it are committed or its own, so at the commit the plan is complete), that
a seed_roles never holds the administrator's keys nor a seed_admin any grant,
and `Overtaken`: when the key a script is about to insert has been committed
meanwhile, the one who did it has committed all of its plan. A step that leaves
the tables alone is judged by its own script (`LocalStep`); `CommitOK` alone has
to look at the others. `GuardInv` is a second invariant, for the guard: because
committed keys stay (`KeysStay`), what was granted at the start is contained in
what has been read and what is still to be read.

`NoDeadlock` is about any number of scripts of both kinds. Both take the unique keys in
one order (`Order`: the plan, then the administrator, then the membership): a script
holds keys of its plan that it has passed, and the one it inserts is none of those
(`Passed`, inductive beside `IInv`), so whatever it holds comes before what it wants
(`HeldBeforeWanted`). Of scripts that all wait, one wants a key that is last in that
order, and nobody among them holds it; that there is a last one is again the
well-foundedness of strict inclusion.

`ProjectListingProofs` proves every property of the `listing` run. First `TypeOK`,
whose point is that `page` stays within the number of projects (`PagesBounded`: never
more pages than items), then `NoneRepeated` and `NoneMissed`. Both rest on ranks: a project whose sort value is its own has one
place, and is on a page exactly when its place is, whatever the database does with
ties (`PlaceOnPage`, `PageOfPlace`). `RankedBelow` says that a delivered project that
is still listed ranks below the offset of every page to come; ranks only fall when
projects leave (`RankFalls`). `Awaited` is its counterpart: while none leaves, what has
not been delivered ranks on a page to come, since ranks only grow (`RankGrows`); at
the end of a walk there is no such page, because the pages of the metadata hold
the items it counts (`PagesSuffice`) and the count is right (`Counted`).

`WalkIsExact` (`QuietWalkExact`) needs more, since with ties a single place says
nothing. `Quiet` says of an undisturbed walk that every delivered page holds rows whose
places reach into it, and that of the rows with one value as many have been delivered
as have their places on the pages so far; a page takes exactly its share of them,
whichever the database picks (`Shares`, summed over the pages by `SumAppend`). At the
end of the walk the pages cover all places, so of each value as many rows have been
delivered as there are, and in order (`PlacesInOrder`); where no two rows share a
value, that is each row once.

Model-checked only: the liveness properties `EveryRequestAnswered` and `EverySeedEnds`,
since the prover does not reason about fairness. Every invariant and action property
of the passing runs is proved for all values of the constants, within the assumptions
above; those of `auth_sequential` except `IInv` for one request at a time.

## 6. Divergences

Runs that show the code doing something else than the repository says:

* `find_reuse_rolled_back`: "Reuse of an already-rotated token revokes the entire
  session family" (`routes/auth_routes.py:65`). The revocation is rolled back by
  the exception that answers the request. The failed-login counter goes the same
  way ("Persist updated brute-force counters", `repositories/user_repository.py:147`):
  `LoginFailed` writes it and the exception rolls it back, so the lockout of
  `README.md:115` never happens.
* `find_reset_password`: "Persist a new password hash"
  (`repositories/user_repository.py:159`). The attribute is misspelt and skipped.
* `find_lost_total`: "Recompute and persist `total_paid` from the sum of related
  (non-deleted) payments" (`repositories/project_repository.py:66`). Overlapping
  requests overwrite each other.

Properties that hold without overlap and fail with it (set `Requests = {r1, r2}`
in the sequential instance): `OneLiveTokenPerFamily` (two refreshes of one
token), `LogoutEndsFamily` (a logout beside a rotation), `ResetEndsAllSessions`
(a reset beside a login or a rotation); and the matrix for two overlapping
status changes, which `StatusFollowsMatrix` exempts by `overlapped`: both read
an active project, one finishes it, the other marks it bad.

Other properties exempt what the code does not protect, and say nothing about it:

* `DiskMatchesRecords` leaves out `failed`, the files whose upload or deletion failed
  half-way: a live record without its bytes, or bytes without a record, that
  nothing cleans up.
* `LedgerHeals` speaks of a payment request that no other one of its project overlapped;
  `find_lost_total` shows what happens otherwise.
* `NoneMissed` leaves out walks in which a project entered between the count and the rows
  of the last page, which can push another one off that page (`raced`), or in which
  one left.
* `QuietOverviewExact` is about an overview beside which nothing changes, and
  `MonthShownInRecent` about one without an amendment, a removal or a midnight after the
  sum.

Seen in the code and not the subject of a run of their own:

* The blacklist key lasts to the beginning of second `exp`, the token to its end
  (`services/auth_service.py:174`, `security/jwt.py:86-89`), against "for (at least)
  its remaining lifetime" (`security/blacklist.py:21`). `LogoutHolds` states what
  is left of the promise. Of two logouts of one pair that both passed the check, the
  later one can also bring the end of the key forward: with two ticks to a second, a
  lifetime of two seconds and a pair issued at tick 0, a first logout at tick 1 leaves a
  key to tick 5, a second at tick 2 one to tick 4, and at tick 4 the token still
  decodes. `KeyReachesExp` states what no logout falls short of. In the last
  second the ttl is 0 and no key is written at all (`security/blacklist.py:22`).
* A detected reuse and a password reset of one user, or two resets, update several rows of
  `refresh_tokens` in an order that no `ORDER BY` fixes
  (`repositories/token_repository.py:34-53`), and can deadlock. PostgreSQL fails one;
  nothing catches the error or tries again, so that client gets an internal error.
* A payment of a deleted project can still be updated and deleted:
  `PaymentService` looks only the payment up, and `recalculate_total_paid` leaves a project
  that it does not find as it is, with the total it had.
* The database part of a logout can fail after Redis was written; the retry is
  then refused.
* `/change-password` and the two upload endpoints always end in an internal error
  because `CurrentUser` has no `u_id`.
* User management does not run: `schemas/user.py:46` uses `Literal` without
  importing it; `UserService.get_user` reads `payload.user_id` (`user_service.py:55`)
  from the UUID its other methods pass; the answer of createUser touches
  relationships that were not loaded, so the creation is rolled back; the route
  of updateUser uses an undefined `user_id`.
* `getUsers` takes the page number for the offset (`user_service.py:66`, described
  as "Page number, 1-indexed" in `schemas/user.py:39`) and filters by `Is_active`,
  which is no attribute and is skipped (`user_repository.py:73`).
* `RoleRepository.list_all` refers to `elf` (`role_repository.py:59`); it has no caller.
* Answers are rendered before the commit, and a relationship or column that was
  not loaded cannot be loaded then: the answers of `POST /projects`,
  `POST` and `PATCH /payments` need `owner` or `project`, so the request fails and is
  rolled back. That is one of the outcomes of `Fail`; the other outcome, a commit,
  is what the services promise and is kept in `ProjectLedger`.
* `GET /payments` always ends in an internal error: the count is taken from the
  wrong statement (`payment_repository.py:57` passes `stmt` where `count_stmt` is
  built). `GET /payments/project/{id}` hands the pair (rows, count) to its answer as
  if it were the rows, and `/payments/total` answers the count 0 whatever there is.
* The dashboard's sums include the payments of deleted projects, whose number
  `projects_count` leaves out; deleting a project leaves its payments live. The
  model has both as they are.
* `sort_by` without a second sort key (`project_repository.py:54`): with ties, a
  walk over a list that nobody changes may deliver a project twice and another
  never. `QuietWalkExact` states what remains true.
* Two deploys that run seed_roles on empty tables at once: one of them fails with
  `IntegrityError`, although `get_or_create` is called idempotent
  (`role_repository.py:23`). `CollisionHasWinner` shows that nothing is lost by it,
  unless the winner was seed_admin: then the matrix is missing until the next run.

## 7. Not modelled

Signatures, hashing, password rules, regular expressions, extension tables and
magic bytes (pure functions on data); rate limits (state of the slowapi library);
middleware, logging, settings, error formatting, Docker and migrations (no shared
state); the payment lists, which do not run (section 6), and reads of a single row;
the search term of `GET /projects`, which is one more filter, and a sort column
whose values change during a walk; the dashboard's user figures;
`update_project` and `rename`, which write columns no model keeps; user management,
for the reason in section 6 - in particular its uniqueness checks
(`user_service.py:32`), a query before an insert, cannot race as long as no
creation commits; repository methods without a caller (`purge_expired`, `restore`,
`hard_delete`, `list_active_for_user`, `count_active_for_user`, `get_by_owner`);
connection-pool limits.

## 8. Plan

Done: `AuthService` with both abstractions and its proofs; `TokenClock`,
`ProjectLedger` with `LedgerBooks`, `FileStore`, `RoleSeeding`, `ProjectListing`, each with
its proofs; `Dashboard` over `LedgerBooks` and `Calendar`.

Left, in this order:

1. In the proofs: `TotalIsSum` for requests that do not overlap at all, beside
   `HealsTheTotal`, and what a chain of tokens looks like after any number of
   overlapping rotations (how many ends a family can have).
2. User management, once it runs: creation and update racing for one username,
   phone or email, and the avatar's file beside its column.
3. The payment lists beside `ProjectListing`, once they run.
4. The user figures of the dashboard over an abstract table of users, when 2
   provides one.
5. A walk sorted by `total_paid`, whose values payments change between two pages.
