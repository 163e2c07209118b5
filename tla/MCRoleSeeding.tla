----------------------------- MODULE MCRoleSeeding -----------------------------
(***************************************************************************)
(* An instance of RoleSeeding for TLC: two roles and two permissions, the  *)
(* administrator holding all of them, the other role one.                  *)
(***************************************************************************)
EXTENDS RoleSeeding, SequencesExt

CONSTANTS admin, viewer, read, write

\* seed_roles: for each role, get_or_create it; for each of its permissions,
\* get_or_create it and attach it.
PlanOf(role, codes) ==
  <<Role(role)>> \o FlattenSeq([i \in DOMAIN codes |-> <<Code(codes[i]), Grant(role, codes[i])>>])

MatrixPlan == PlanOf(admin, <<read, write>>) \o PlanOf(viewer, <<read>>)

\* An empty database; one where only seed_admin ran; the matrix of a release
\* without the permission write.
EarlierTables ==
  {{}, {Role(admin), AdminUser, Membership},
   {Role(admin), Role(viewer), Code(read), Grant(admin, read), Grant(viewer, read)}}

\* A viewer and an administrator by role, and a superuser without roles.
Requests ==
  {[roles |-> {viewer}, superuser |-> FALSE, need |-> {read}],
   [roles |-> {admin, viewer}, superuser |-> FALSE, need |-> {read, write}],
   [roles |-> {}, superuser |-> TRUE, need |-> {write}]}
================================================================================
