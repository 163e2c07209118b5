------------------------------- MODULE RoleSeeding -------------------------------
(***************************************************************************)
(* The scripts seed_roles and seed_admin, run on every deploy and possibly *)
(* twice at once, beside requests that RequirePermission guards.           *)
(*                                                                         *)
(* A table is the set of its unique keys: the name of a role, the code of  *)
(* a permission, the pair of a role and a permission that it grants, the   *)
(* name of the administrator, and the administrator's membership in the    *)
(* role admin.                                                             *)
(***************************************************************************)
EXTENDS Naturals, Sequences

CONSTANTS Roles, Codes,
          AdminRole,     \* RoleName.ADMIN
          RolesPlan,     \* the keys seed_roles ensures, in the order it does
          Earlier,       \* contents of the tables that earlier releases left
          Runs,          \* slots of scripts that run at once (bound)
          Asked          \* the guarded requests: roles of the user, its flag
                         \* is_superuser, permissions needed (bound)

Role(r)     == <<"role", r>>
Code(c)     == <<"code", c>>
Grant(r, c) == <<"grant", r, c>>
AdminUser   == <<"user", AdminRole>>
Membership  == <<"member", AdminRole>>

Keys == {Role(r) : r \in Roles} \cup {Code(c) : c \in Codes}
        \cup {Grant(r, c) : r \in Roles, c \in Codes}
        \cup {AdminUser, Membership}

\* The keys that DEFAULT_ROLE_PERMISSIONS stands for.
Matrix == {RolesPlan[i] : i \in 1..Len(RolesPlan)}

ASSUME SeedAssumption ==
  /\ AdminRole \in Roles
  /\ RolesPlan \in Seq(Keys \ {AdminUser, Membership}) /\ Role(AdminRole) \in Matrix
  /\ Earlier \subseteq SUBSET Keys
  /\ Asked \subseteq [roles : SUBSET Roles, superuser : BOOLEAN, need : SUBSET Codes]
  /\ \A rows \in Earlier :
       AdminUser \in rows => {Role(AdminRole), Membership} \subseteq rows

VARIABLES
  rows,          \* committed keys
  pc, script, position, \* of a run: step, program, next key of its plan
  own,           \* of a run: keys it has inserted and not committed
  step, asked,   \* of the guarded request: step, input
  unread, gathered, \* roles to load permissions of; permissions loaded
  before,        \* history: the tables at the first moment
  knew, granted  \* history: the matrix was complete when the run started;
                 \* the permissions of the user when the request started

seeds  == <<pc, script, position, own, knew>>
guard  == <<step, asked, unread, gathered, granted>>
vars   == <<rows, pc, script, position, own, step, asked, unread, gathered,
            before, knew, granted>>

Ended == {"idle", "done", "conflict", "failed"}
Labels == Ended \cup {"find_user", "look", "insert", "commit"}
NoRequest == [roles |-> {}, superuser |-> FALSE, need |-> {}]

\* A unique key is inserted once: by a committed transaction or by one run.
TypeOK ==
  /\ rows \subseteq Keys /\ before \subseteq rows
  /\ pc \in [Runs -> Labels]
  /\ script \in [Runs -> {"roles", "admin"}]
  /\ position \in [Runs -> 1..Len(RolesPlan) + 4]
  /\ own \in [Runs -> SUBSET Keys]
  /\ \A r \in Runs : own[r] \cap rows = {} /\ (pc[r] \in Ended => own[r] = {})
  /\ \A r, q \in Runs : r # q => own[r] \cap own[q] = {}
  /\ knew \in [Runs -> BOOLEAN]
  /\ step \in {"idle", "load", "allowed", "denied"}
  /\ asked \in Asked \cup {NoRequest} /\ unread \subseteq asked.roles
  /\ gathered \subseteq Codes /\ granted \subseteq Codes

Init ==
  /\ rows \in Earlier /\ before = rows
  /\ pc = [r \in Runs |-> "idle"]
  /\ script = [r \in Runs |-> "roles"]
  /\ position = [r \in Runs |-> 1]
  /\ own = [r \in Runs |-> {}]
  /\ knew = [r \in Runs |-> FALSE]
  /\ step = "idle" /\ asked = NoRequest
  /\ unread = {} /\ gathered = {} /\ granted = {}

(***************************************************************************)
(* The scripts.  A step is a statement of the database.                    *)
(***************************************************************************)
\* get_or_create of the role, then the user, then assign_roles.
AdminPlan == <<Role(AdminRole), AdminUser, Membership>>
Plan(r) == IF script[r] = "roles" THEN RolesPlan ELSE AdminPlan

Key(r) == Plan(r)[position[r]]

\* Only seed_admin inserts without looking first: FindUser has looked.
Looks(key) == key \notin {AdminUser, Membership}

GoOn(r) ==
  LET next == position[r] + 1
  IN /\ position' = [position EXCEPT ![r] = next]
     /\ pc' = [pc EXCEPT ![r] =
                 IF next > Len(Plan(r)) THEN "commit"
                 ELSE IF Looks(Plan(r)[next]) THEN "look" ELSE "insert"]

Start(r, program, label) ==
  /\ pc[r] \in Ended
  /\ script' = [script EXCEPT ![r] = program]
  /\ knew' = [knew EXCEPT ![r] = Matrix \subseteq rows]
  /\ pc' = [pc EXCEPT ![r] = label]
  /\ UNCHANGED <<rows, position, own, before, guard>>

End(r, label) ==
  /\ pc' = [pc EXCEPT ![r] = label]
  /\ position' = [position EXCEPT ![r] = 1]

SeedRoles(r) == Start(r, "roles", "look")
SeedAdmin(r) == Start(r, "admin", "find_user")

\* get_by_username: an administrator that exists ends the script.
FindUser(r) ==
  /\ pc[r] = "find_user"
  /\ pc' = [pc EXCEPT ![r] = IF AdminUser \in rows THEN "commit" ELSE "look"]
  /\ UNCHANGED <<rows, script, position, own, knew, before, guard>>

\* The SELECT of get_or_create, or attach_permission's refresh.
\* Mutant: it looks in the session only.
PresentMutant(r, key) == key \in own[r]
Present(r, key) == key \in rows \cup own[r]

Look(r) ==
  /\ pc[r] = "look"
  /\ IF Present(r, Key(r))
       THEN GoOn(r)
       ELSE pc' = [pc EXCEPT ![r] = "insert"] /\ UNCHANGED position
  /\ UNCHANGED <<rows, script, own, knew, before, guard>>

\* The transaction ends without effect.  Mutants: the session is not closed and
\* its transaction stays open; the context manager commits what there is.
RollbackMutant(r, label) ==
  /\ End(r, label)
  /\ UNCHANGED <<rows, script, own, knew, before, guard>>

RollbackCommitsMutant(r, label) ==
  /\ rows' = rows \cup own[r]
  /\ own' = [own EXCEPT ![r] = {}]
  /\ End(r, label)
  /\ UNCHANGED <<script, knew, before, guard>>

Rollback(r, label) ==
  /\ own' = [own EXCEPT ![r] = {}]
  /\ End(r, label)
  /\ UNCHANGED <<rows, script, knew, before, guard>>

\* An INSERT waits while another transaction holds its key; when that one has
\* committed the key, it is refused and the script ends with IntegrityError.
Insert(r) ==
  /\ pc[r] = "insert"
  /\ \A q \in Runs \ {r} : Key(r) \notin own[q]
  /\ IF Key(r) \in rows
       THEN Rollback(r, "conflict")
       ELSE /\ own' = [own EXCEPT ![r] = @ \cup {Key(r)}]
            /\ GoOn(r)
            /\ UNCHANGED <<rows, script, knew, before, guard>>

\* Mutants: the rows stay pending in the session; its transaction commits in
\* the middle (a commit after the first role).
CommitMutant(r) ==
  /\ pc[r] = "commit"
  /\ rows' = rows \cup own[r]
  /\ End(r, "done")
  /\ UNCHANGED <<script, own, knew, before, guard>>

CommitEarlyMutant(r) ==
  /\ \/ pc[r] = "commit" /\ End(r, "done")
     \/ pc[r] = "look" /\ Key(r)[1] = "role" /\ UNCHANGED <<pc, position>>
  /\ rows' = rows \cup own[r]
  /\ own' = [own EXCEPT ![r] = {}]
  /\ UNCHANGED <<script, knew, before, guard>>

Commit(r) ==
  /\ pc[r] = "commit"
  /\ rows' = rows \cup own[r]
  /\ own' = [own EXCEPT ![r] = {}]
  /\ End(r, "done")
  /\ UNCHANGED <<script, knew, before, guard>>

\* The process or its connection dies.
Fail(r) == pc[r] \notin Ended /\ Rollback(r, "failed")

(***************************************************************************)
(* get_current_user and RequirePermission: the roles of the user are read  *)
(* first, then the permissions of one role after the other.                *)
(***************************************************************************)
GrantsOf(roles) == {c \in Codes : \E r \in roles : Grant(r, c) \in rows}

Request(input) ==
  /\ step # "load"
  /\ \A role \in input.roles : Role(role) \in rows
  /\ step' = "load" /\ asked' = input
  /\ unread' = input.roles /\ gathered' = {}
  /\ granted' = GrantsOf(input.roles)
  /\ UNCHANGED <<rows, before, seeds>>

LoadPermissions(role) ==
  /\ step = "load" /\ role \in unread
  /\ gathered' = gathered \cup GrantsOf({role})
  /\ unread' = unread \ {role}
  /\ UNCHANGED <<rows, before, seeds, step, asked, granted>>

\* Mutant: one of the permissions is enough.
MayMutant == asked.superuser \/ asked.need \cap gathered # {}
May == asked.superuser \/ asked.need \subseteq gathered

Verdict ==
  /\ step = "load" /\ unread = {}
  /\ step' = IF May THEN "allowed" ELSE "denied"
  /\ UNCHANGED <<rows, before, seeds, asked, unread, gathered, granted>>

Next ==
  \/ \E r \in Runs : \/ SeedRoles(r) \/ SeedAdmin(r) \/ FindUser(r) \/ Look(r)
                     \/ Insert(r) \/ Commit(r) \/ Fail(r)
  \/ \E input \in Asked : Request(input)
  \/ \E role \in Roles : LoadPermissions(role)
  \/ Verdict

\* A script that has started runs on; a waiting INSERT is granted its key in
\* the order of arrival.
Fairness ==
  \A r \in Runs : /\ WF_vars(FindUser(r) \/ Look(r) \/ Commit(r))
                  /\ SF_vars(Insert(r))

Spec == Init /\ [][Next]_vars
FairSpec == Spec /\ Fairness

(***************************************************************************)
(* What the scripts and the guard promise.                                 *)
(***************************************************************************)
\* seed_roles is one transaction: whoever looks at the tables, and however many
\* scripts ran, overlapped, collided or died, finds the matrix of the earlier
\* release (with the role of a new administrator) or the whole of the new one.
MatrixWholeOrUntouched ==
  Matrix \subseteq rows \/ rows \subseteq before \cup {AdminUser, Membership, Role(AdminRole)}

\* "Idempotent - safe to re-run on every deploy": seed_roles on complete tables
\* inserts nothing and collides with nobody.
RerunIsHarmless ==
  \A r \in Runs :
    script[r] = "roles" /\ knew[r] =>
      own[r] = {} /\ pc[r] \notin {"insert", "conflict"}

\* A seed_roles that is refused for a collision has lost against one that was
\* not, or against seed_admin: without a new administrator the matrix is there.
CollisionHasWinner ==
  \A r \in Runs :
    pc[r] = "conflict" /\ script[r] = "roles" =>
      Matrix \subseteq rows \/ AdminUser \in rows \ before

\* An administrator is never there without the role, and a seed_admin that has
\* ended well leaves one.
AdministratorComplete ==
  /\ AdminUser \in rows => {Role(AdminRole), Membership} \subseteq rows
  /\ \A r \in Runs :
       pc[r] = "done" =>
         IF script[r] = "admin" THEN AdminUser \in rows ELSE Matrix \subseteq rows

\* The guard reads the tables piecemeal while scripts commit; still it refuses
\* nobody who was allowed when the request came, and lets nobody in who is not
\* allowed now.
GuardIsJust ==
  /\ step = "denied" => ~asked.superuser /\ ~(asked.need \subseteq granted)
  /\ step = "allowed" =>
       asked.superuser \/ asked.need \subseteq GrantsOf(asked.roles)

\* Scripts take unique keys in one order and never wait for each other in a
\* circle: each one ends.
EverySeedEnds == \A r \in Runs : pc[r] \notin Ended ~> pc[r] \in Ended
================================================================================
