---------------------------- MODULE RoleSeedingProofs ----------------------------
(***************************************************************************)
(* The theorems of RoleSeeding, for any roles, codes, plan and number of   *)
(* scripts.                                                                *)
(***************************************************************************)
EXTENDS RoleSeeding, FiniteSetTheorems, SequenceTheorems,
        WellFoundedInduction, TLAPS

(***************************************************************************)
(* The inductive invariant.                                                *)
(***************************************************************************)
Running == {"find_user", "look", "insert", "commit"}

\* What a seed_roles has done up to its position.
RolesRunOK(r) ==
  /\ pc[r] # "find_user"
  /\ own[r] \subseteq Matrix
  /\ pc[r] \in Running => \A i \in 1..position[r] - 1 : RolesPlan[i] \in rows \cup own[r]
  /\ pc[r] \in {"look", "insert"} => position[r] \in 1..Len(RolesPlan)
  /\ pc[r] = "commit" => position[r] = Len(RolesPlan) + 1
  /\ pc[r] = "done" => Matrix \subseteq rows

\* What a seed_admin has done up to its position.
AdminRunOK(r) ==
  /\ own[r] \subseteq {Role(AdminRole), AdminUser, Membership}
  /\ pc[r] = "find_user" => position[r] = 1
  /\ pc[r] = "look" => position[r] = 1
  /\ pc[r] = "insert" => position[r] \in 1..3
  /\ pc[r] = "commit" => position[r] = 4 \/ (position[r] = 1 /\ AdminUser \in rows /\ own[r] = {})
  /\ pc[r] \in Running /\ position[r] = 1 => own[r] = {}
  /\ pc[r] \in Running /\ position[r] = 2 =>
       own[r] \subseteq {Role(AdminRole)} /\ Role(AdminRole) \in rows \cup own[r]
  /\ pc[r] \in Running /\ position[r] = 3 =>
       Role(AdminRole) \in rows \cup own[r] /\ AdminUser \in own[r]
  /\ pc[r] \in Running /\ position[r] = 4 =>
       /\ Role(AdminRole) \in rows \cup own[r]
       /\ {AdminUser, Membership} \subseteq own[r]
  /\ pc[r] = "done" => AdminUser \in rows

RunOK(r) ==
  /\ IF script[r] = "roles" THEN RolesRunOK(r) ELSE AdminRunOK(r)
  /\ pc[r] \in Ended => position[r] = 1

\* An INSERT that will be refused has a winner already.
Overtaken(r) ==
  script[r] = "roles" /\ pc[r] = "insert" /\ Key(r) \in rows =>
    Matrix \subseteq rows \/ AdminUser \in rows \ before

AdministratorRowComplete ==
  AdminUser \in rows => {Role(AdminRole), Membership} \subseteq rows

KnewOK(r) == knew[r] => Matrix \subseteq rows

IInv ==
  /\ TypeOK
  /\ MatrixWholeOrUntouched
  /\ AdministratorRowComplete
  /\ \A r \in Runs : RunOK(r) /\ Overtaken(r) /\ KnewOK(r)
  /\ RerunIsHarmless
  /\ CollisionHasWinner

LEMMA KeysDiffer ==
  /\ AdminUser # Membership
  /\ Role(AdminRole) # AdminUser /\ Role(AdminRole) # Membership
  /\ AdminUser \notin Matrix /\ Membership \notin Matrix
  /\ Role(AdminRole) \in Matrix
  /\ Matrix \subseteq Keys
  /\ {AdminUser, Membership, Role(AdminRole)} \subseteq Keys
<1>1. AdminUser # Membership
  BY DEF AdminUser, Membership
<1>2. \A i \in 1..Len(RolesPlan) : RolesPlan[i] \in Keys \ {AdminUser, Membership}
  BY SeedAssumption
<1>3. AdminUser \notin Matrix /\ Membership \notin Matrix /\ Matrix \subseteq Keys
  BY <1>2 DEF Matrix
<1>4. Role(AdminRole) \in Matrix
  BY SeedAssumption
<1>5. AdminUser \in Keys /\ Membership \in Keys
  BY DEF Keys
<1> QED
  BY <1>1, <1>3, <1>4, <1>5

(***************************************************************************)
(* A step of one run that leaves the tables alone is judged by what it     *)
(* does to that run.                                                       *)
(***************************************************************************)
Harmless(r) ==
  script[r] = "roles" /\ knew[r] => own[r] = {} /\ pc[r] \notin {"insert", "conflict"}

Winner(r) ==
  pc[r] = "conflict" /\ script[r] = "roles" =>
    Matrix \subseteq rows \/ AdminUser \in rows \ before

OnlyRun(r) ==
  \A q \in Runs \ {r} :
    /\ pc'[q] = pc[q] /\ script'[q] = script[q] /\ position'[q] = position[q]
    /\ own'[q] = own[q] /\ knew'[q] = knew[q]

LEMMA SameRun ==
  ASSUME NEW q \in Runs, rows' = rows, before' = before,
         pc'[q] = pc[q], script'[q] = script[q], position'[q] = position[q],
         own'[q] = own[q], knew'[q] = knew[q],
         RunOK(q), Overtaken(q), KnewOK(q), Harmless(q), Winner(q)
  PROVE  (RunOK(q) /\ Overtaken(q) /\ KnewOK(q) /\ Harmless(q) /\ Winner(q))'
<1>1. RolesRunOK(q)' <=> RolesRunOK(q)
  BY DEF RolesRunOK
<1>2. AdminRunOK(q)' <=> AdminRunOK(q)
  BY DEF AdminRunOK
<1>3. RunOK(q)'
  BY <1>1, <1>2 DEF RunOK
<1>4. Overtaken(q)'
  BY DEF Overtaken, Key, Plan
<1>5. KnewOK(q)' /\ Harmless(q)' /\ Winner(q)'
  BY DEF KnewOK, Harmless, Winner
<1> QED
  BY <1>3, <1>4, <1>5

LEMMA LocalStep ==
  ASSUME IInv, NEW r \in Runs, rows' = rows, before' = before, OnlyRun(r),
         TypeOK', (RunOK(r) /\ Overtaken(r) /\ KnewOK(r) /\ Harmless(r) /\ Winner(r))'
  PROVE  IInv'
<1>1. \A q \in Runs : RunOK(q) /\ Overtaken(q) /\ KnewOK(q) /\ Harmless(q) /\ Winner(q)
  BY DEF IInv, RerunIsHarmless, CollisionHasWinner, Harmless, Winner
<1>2. ASSUME NEW q \in Runs \ {r}
      PROVE  (RunOK(q) /\ Overtaken(q) /\ KnewOK(q) /\ Harmless(q) /\ Winner(q))'
  <2>1. q \in Runs /\ pc'[q] = pc[q] /\ script'[q] = script[q] /\ position'[q] = position[q]
        /\ own'[q] = own[q] /\ knew'[q] = knew[q]
    BY <1>2 DEF OnlyRun
  <2> QED
    BY <2>1, <1>1, SameRun
<1>3. \A q \in Runs : (RunOK(q) /\ Overtaken(q) /\ KnewOK(q) /\ Harmless(q) /\ Winner(q))'
  BY <1>2
<1>4. RerunIsHarmless' /\ CollisionHasWinner'
  BY <1>3 DEF RerunIsHarmless, CollisionHasWinner, Harmless, Winner
<1>5. MatrixWholeOrUntouched' /\ AdministratorRowComplete'
  BY DEF IInv, MatrixWholeOrUntouched, AdministratorRowComplete
<1> QED
  BY <1>3, <1>4, <1>5 DEF IInv

LEMMA StartOK ==
  ASSUME IInv, NEW r \in Runs, SeedRoles(r) \/ SeedAdmin(r)
  PROVE  IInv'
<1>1. OnlyRun(r) /\ rows' = rows /\ before' = before
  BY DEF IInv, TypeOK, SeedRoles, SeedAdmin, Start, OnlyRun
<1>2. /\ \/ script'[r] = "roles" /\ pc'[r] = "look"
         \/ script'[r] = "admin" /\ pc'[r] = "find_user"
      /\ own' = own /\ position' = position
      /\ knew'[r] => Matrix \subseteq rows
  BY DEF IInv, TypeOK, SeedRoles, SeedAdmin, Start
<1>3. position[r] = 1 /\ own[r] = {}
  <2>1. pc[r] \in Ended /\ RunOK(r)
    BY DEF IInv, SeedRoles, SeedAdmin, Start
  <2>2. own[r] = {}
    BY <2>1 DEF IInv, TypeOK
  <2> QED
    BY <2>1, <2>2 DEF RunOK
<1>4. TypeOK'
  BY DEF IInv, TypeOK, SeedRoles, SeedAdmin, Start, Labels, Ended, guard
<1>5. Len(RolesPlan) \in Nat \ {0}
  BY KeysDiffer, SeedAssumption DEF Matrix
<1>6. RunOK(r)'
  BY <1>1, <1>2, <1>3, <1>5 DEF RunOK, RolesRunOK, AdminRunOK, Ended
<1>7. (Overtaken(r) /\ KnewOK(r) /\ Harmless(r) /\ Winner(r))'
  BY <1>1, <1>2, <1>3 DEF Overtaken, KnewOK, Harmless, Winner
<1> QED
  BY <1>1, <1>4, <1>6, <1>7, LocalStep

LEMMA FindUserOK ==
  ASSUME IInv, NEW r \in Runs, FindUser(r)
  PROVE  IInv'
<1>1. OnlyRun(r) /\ rows' = rows /\ before' = before
  BY DEF IInv, TypeOK, FindUser, OnlyRun
<1>2. /\ pc[r] = "find_user" /\ script'[r] = script[r] /\ own'[r] = own[r]
      /\ position'[r] = position[r] /\ knew'[r] = knew[r]
      /\ pc'[r] = IF AdminUser \in rows THEN "commit" ELSE "look"
  BY DEF IInv, TypeOK, FindUser
<1>3. script[r] = "admin" /\ position[r] = 1 /\ own[r] = {} /\ KnewOK(r)
  BY <1>2 DEF IInv, TypeOK, RunOK, RolesRunOK, AdminRunOK, Running
<1>4. TypeOK'
  BY DEF IInv, TypeOK, FindUser, Labels, Ended, guard
<1>5. RunOK(r)'
  BY <1>1, <1>2, <1>3 DEF RunOK, AdminRunOK, Ended
<1>6. (Overtaken(r) /\ KnewOK(r) /\ Harmless(r) /\ Winner(r))'
  BY <1>1, <1>2, <1>3 DEF Overtaken, KnewOK, Harmless, Winner
<1> QED
  BY <1>1, <1>4, <1>5, <1>6, LocalStep

\* What a run's next key is, and where it goes on from there.
LEMMA NextKey ==
  ASSUME IInv, NEW r \in Runs, pc[r] \in {"look", "insert"}
  PROVE  /\ Key(r) \in Keys /\ position[r] \in Nat \ {0}
         /\ Len(Plan(r)) \in Nat /\ position[r] <= Len(Plan(r))
         /\ script[r] = "roles" => /\ Plan(r) = RolesPlan /\ Key(r) = RolesPlan[position[r]]
                                  /\ Key(r) \in Matrix
         /\ script[r] = "admin" =>
              /\ Len(Plan(r)) = 3
              /\ Plan(r)[1] = Role(AdminRole) /\ Plan(r)[2] = AdminUser /\ Plan(r)[3] = Membership
<1>1. script[r] \in {"roles", "admin"} /\ RunOK(r)
  BY DEF IInv, TypeOK
<1>2. CASE script[r] = "roles"
  <2>1. Plan(r) = RolesPlan /\ position[r] \in 1..Len(RolesPlan)
    BY <1>1, <1>2 DEF Plan, RunOK, RolesRunOK
  <2>2. Len(RolesPlan) \in Nat
    BY SeedAssumption
  <2>3. Key(r) = RolesPlan[position[r]] /\ Key(r) \in Matrix
    BY <2>1 DEF Key, Matrix
  <2> QED
    BY <1>2, <2>1, <2>2, <2>3, KeysDiffer
<1>3. CASE script[r] = "admin"
  <2>1. Plan(r) = AdminPlan /\ position[r] \in 1..3
    BY <1>1, <1>3 DEF Plan, RunOK, AdminRunOK
  <2>2. Len(AdminPlan) = 3 /\ AdminPlan[1] = Role(AdminRole) /\ AdminPlan[2] = AdminUser
        /\ AdminPlan[3] = Membership
    BY DEF AdminPlan
  <2>3. Key(r) \in Keys
    BY <2>1, <2>2, KeysDiffer DEF Key
  <2> QED
    BY <1>3, <2>1, <2>2, <2>3
<1> QED
  BY <1>1, <1>2, <1>3

\* GoOn from a key that is now there.
LEMMA GoOnOK ==
  ASSUME IInv, NEW r \in Runs, pc[r] \in {"look", "insert"}, GoOn(r),
         rows' = rows, script' = script,
         own'[r] \in {own[r], own[r] \cup {Key(r)}},
         Key(r) \in rows \cup own'[r],
         pc[r] = "insert" => Key(r) \in own'[r]
  PROVE  /\ RunOK(r)'
         /\ pc'[r] \in {"look", "insert", "commit"}
         /\ position'[r] \in 1..Len(RolesPlan) + 4
         /\ script[r] = "roles" => pc'[r] # "insert"
<1>1. script[r] \in {"roles", "admin"} /\ RunOK(r)
  BY DEF IInv, TypeOK
<1> DEFINE n == position[r] + 1
<1>2. /\ position'[r] = n
      /\ pc'[r] = IF n > Len(Plan(r)) THEN "commit"
                 ELSE IF Looks(Plan(r)[n]) THEN "look" ELSE "insert"
  BY DEF IInv, TypeOK, GoOn
<1>3. position[r] \in Nat \ {0} /\ position[r] <= Len(Plan(r)) /\ Len(Plan(r)) \in Nat
  BY NextKey
<1>4. CASE script[r] = "roles"
  <2>1. Plan(r) = RolesPlan /\ Key(r) = RolesPlan[position[r]] /\ Key(r) \in Matrix
    BY <1>4, NextKey
  <2>2. n <= Len(RolesPlan) => Looks(RolesPlan[n])
    BY <1>3, <2>1, KeysDiffer DEF Looks, Matrix
  <2>3. pc'[r] = IF n > Len(RolesPlan) THEN "commit" ELSE "look"
    BY <1>2, <1>3, <2>1, <2>2
  <2>4. \A i \in 1..n - 1 : RolesPlan[i] \in rows \cup own'[r]
    <3>1. \A i \in 1..position[r] - 1 : RolesPlan[i] \in rows \cup own[r]
      BY <1>1, <1>4 DEF RunOK, RolesRunOK, Running
    <3> QED
      BY <1>3, <2>1, <3>1
  <2>5. own'[r] \subseteq Matrix
    BY <1>1, <1>4, <2>1 DEF RunOK, RolesRunOK
  <2>6. RolesRunOK(r)'
    BY <1>2, <1>3, <2>1, <2>3, <2>4, <2>5 DEF RolesRunOK
  <2> QED
    BY <1>2, <1>3, <1>4, <2>1, <2>3, <2>6 DEF RunOK, Ended
<1>5. CASE script[r] = "admin"
  <2>1. Len(Plan(r)) = 3 /\ Plan(r)[1] = Role(AdminRole) /\ Plan(r)[2] = AdminUser
        /\ Plan(r)[3] = Membership
    BY <1>5, NextKey
  <2>2. AdminRunOK(r)
    BY <1>1, <1>5 DEF RunOK
  <2>3. CASE position[r] = 1
    <3>1. Key(r) = Role(AdminRole) /\ own[r] = {}
      BY <2>1, <2>2, <2>3 DEF Key, AdminRunOK, Running
    <3>2. position'[r] = 2 /\ pc'[r] = "insert"
      BY <1>2, <2>1, <2>3 DEF Looks
    <3>3. AdminRunOK(r)'
      BY <3>1, <3>2, KeysDiffer DEF AdminRunOK
    <3> QED
      BY <1>5, <3>2, <3>3, SeedAssumption DEF RunOK, Ended
  <2>4. CASE position[r] = 2
    <3>1. Key(r) = AdminUser /\ pc[r] = "insert"
          /\ own[r] \subseteq {Role(AdminRole)} /\ Role(AdminRole) \in rows \cup own[r]
      BY <2>1, <2>2, <2>4 DEF Key, AdminRunOK, Running
    <3>2. position'[r] = 3 /\ pc'[r] = "insert"
      BY <1>2, <2>1, <2>4 DEF Looks
    <3>3. AdminRunOK(r)'
      BY <3>1, <3>2, KeysDiffer DEF AdminRunOK
    <3> QED
      BY <1>5, <3>2, <3>3, SeedAssumption DEF RunOK, Ended
  <2>5. CASE position[r] = 3
    <3>1. Key(r) = Membership /\ pc[r] = "insert"
          /\ own[r] \subseteq {Role(AdminRole), AdminUser, Membership}
          /\ Role(AdminRole) \in rows \cup own[r] /\ AdminUser \in own[r]
      BY <2>1, <2>2, <2>5 DEF Key, AdminRunOK, Running
    <3>2. position'[r] = 4 /\ pc'[r] = "commit"
      BY <1>2, <2>1, <2>5
    <3>3. AdminRunOK(r)'
      BY <3>1, <3>2, KeysDiffer DEF AdminRunOK
    <3> QED
      BY <1>5, <3>2, <3>3, SeedAssumption DEF RunOK, Ended
  <2> QED
    BY <1>3, <2>1, <2>3, <2>4, <2>5
<1> QED
  BY <1>1, <1>4, <1>5

LEMMA LookOK ==
  ASSUME IInv, NEW r \in Runs, Look(r)
  PROVE  IInv'
<1>1. OnlyRun(r) /\ rows' = rows /\ before' = before
  BY DEF IInv, TypeOK, Look, GoOn, OnlyRun
<1>2. /\ pc[r] = "look" /\ script' = script /\ own' = own /\ knew' = knew
      /\ RunOK(r) /\ KnewOK(r) /\ Harmless(r)
      /\ guard' = guard
  BY DEF IInv, TypeOK, Look, guard, RerunIsHarmless, Harmless
<1>3. CASE Present(r, Key(r))
  <2>1. GoOn(r) /\ Key(r) \in rows \cup own[r]
    BY <1>3 DEF Look, Present
  <2>2. /\ RunOK(r)' /\ pc'[r] \in {"look", "insert", "commit"}
        /\ position'[r] \in 1..Len(RolesPlan) + 4
        /\ script[r] = "roles" => pc'[r] # "insert"
    BY <1>1, <1>2, <2>1, GoOnOK
  <2>3. TypeOK'
    BY <1>1, <1>2, <2>1, <2>2 DEF IInv, TypeOK, GoOn, Labels, Ended, guard
  <2>4. (Overtaken(r) /\ KnewOK(r) /\ Harmless(r) /\ Winner(r))'
    BY <1>1, <1>2, <2>2 DEF Overtaken, KnewOK, Harmless, Winner
  <2> QED
    BY <1>1, <2>2, <2>3, <2>4, LocalStep
<1>4. CASE ~Present(r, Key(r))
  <2>1. pc' = [pc EXCEPT ![r] = "insert"] /\ position' = position /\ Key(r) \notin rows
    BY <1>4 DEF Look, Present
  <2>2. pc'[r] = "insert"
    BY <2>1 DEF IInv, TypeOK
  <2>3. TypeOK'
    BY <1>1, <1>2, <2>1 DEF IInv, TypeOK, Labels, Ended, guard
  <2>4. RunOK(r)'
    BY <1>1, <1>2, <2>1, <2>2 DEF RunOK, RolesRunOK, AdminRunOK, Running, Ended
  <2>5. script[r] = "roles" => Key(r) \in Matrix
    BY <1>2, NextKey
  <2>6. (Overtaken(r) /\ KnewOK(r) /\ Harmless(r) /\ Winner(r))'
    <3>1. Overtaken(r)'
      BY <1>1, <1>2, <2>1 DEF Overtaken, Key, Plan
    <3>2. KnewOK(r)' /\ Harmless(r)' /\ Winner(r)'
      BY <1>1, <1>2, <2>1, <2>2, <2>5 DEF KnewOK, Harmless, Winner
    <3> QED
      BY <3>1, <3>2
  <2> QED
    BY <1>1, <2>3, <2>4, <2>6, LocalStep
<1> QED
  BY <1>3, <1>4

LEMMA RollbackOK ==
  ASSUME IInv, NEW r \in Runs, NEW label \in {"conflict", "failed"}, Rollback(r, label),
         label = "conflict" => Winner(r)' /\ Harmless(r)'
  PROVE  IInv'
<1>1. OnlyRun(r) /\ rows' = rows /\ before' = before
  BY DEF IInv, TypeOK, Rollback, End, OnlyRun
<1>2. /\ pc'[r] = label /\ own'[r] = {} /\ position'[r] = 1 /\ script' = script /\ knew' = knew
      /\ KnewOK(r)
  BY DEF IInv, TypeOK, Rollback, End
<1>3. TypeOK'
  <2>1. guard' = guard
    BY DEF Rollback
  <2>2. /\ rows' \subseteq Keys /\ before' \subseteq rows'
        /\ pc' \in [Runs -> Labels] /\ script' \in [Runs -> {"roles", "admin"}]
        /\ position' \in [Runs -> 1..Len(RolesPlan) + 4]
        /\ own' \in [Runs -> SUBSET Keys] /\ knew' \in [Runs -> BOOLEAN]
    BY <1>1, <1>2, SeedAssumption DEF IInv, TypeOK, Rollback, End, Labels, Ended
  <2>3. \A q \in Runs : own'[q] \cap rows' = {} /\ (pc'[q] \in Ended => own'[q] = {})
    BY <1>1, <1>2 DEF IInv, TypeOK, OnlyRun
  <2>4. \A p, q \in Runs : p # q => own'[p] \cap own'[q] = {}
    BY <1>1, <1>2 DEF IInv, TypeOK, OnlyRun
  <2> QED
    BY <2>1, <2>2, <2>3, <2>4 DEF IInv, TypeOK, guard
<1>4. RunOK(r)'
  BY <1>2 DEF RunOK, RolesRunOK, AdminRunOK, Ended, Running
<1>5. (Overtaken(r) /\ KnewOK(r) /\ Harmless(r) /\ Winner(r))'
  BY <1>1, <1>2 DEF Overtaken, KnewOK, Harmless, Winner
<1> QED
  BY <1>1, <1>3, <1>4, <1>5, LocalStep

LEMMA InsertOK ==
  ASSUME IInv, NEW r \in Runs, Insert(r)
  PROVE  IInv'
<1>1. /\ pc[r] = "insert" /\ RunOK(r) /\ KnewOK(r) /\ Harmless(r) /\ Overtaken(r)
      /\ \A q \in Runs \ {r} : Key(r) \notin own[q]
  BY DEF IInv, Insert, RerunIsHarmless, Harmless
<1>2. Key(r) \in Keys
  BY <1>1, NextKey
<1>3. CASE Key(r) \in rows
  <2>1. Rollback(r, "conflict")
    BY <1>3 DEF Insert
  <2>2. rows' = rows /\ before' = before /\ script' = script /\ knew' = knew
    BY <2>1 DEF Rollback
  <2>3. Winner(r)' /\ Harmless(r)'
    BY <1>1, <1>3, <2>2 DEF Winner, Harmless, Overtaken
  <2> QED
    BY <2>1, <2>3, RollbackOK
<1>4. CASE Key(r) \notin rows
  <2>1. /\ own' = [own EXCEPT ![r] = @ \cup {Key(r)}] /\ GoOn(r)
        /\ rows' = rows /\ script' = script /\ knew' = knew /\ before' = before /\ guard' = guard
    BY <1>4 DEF Insert
  <2>2. OnlyRun(r) /\ own'[r] = own[r] \cup {Key(r)}
    BY <2>1 DEF IInv, TypeOK, GoOn, OnlyRun
  <2>3. /\ RunOK(r)' /\ pc'[r] \in {"look", "insert", "commit"}
        /\ position'[r] \in 1..Len(RolesPlan) + 4
        /\ script[r] = "roles" => pc'[r] # "insert"
    BY <1>1, <2>1, <2>2, GoOnOK
  <2>4. TypeOK'
    <3>1. /\ rows' \subseteq Keys /\ before' \subseteq rows'
          /\ pc' \in [Runs -> Labels] /\ script' \in [Runs -> {"roles", "admin"}]
          /\ position' \in [Runs -> 1..Len(RolesPlan) + 4]
          /\ own' \in [Runs -> SUBSET Keys] /\ knew' \in [Runs -> BOOLEAN]
      BY <1>2, <2>1, <2>2, <2>3 DEF IInv, TypeOK, GoOn, Labels, Ended
    <3>2. \A q \in Runs : own'[q] \cap rows' = {} /\ (pc'[q] \in Ended => own'[q] = {})
      BY <1>4, <2>1, <2>2, <2>3 DEF IInv, TypeOK, OnlyRun, Ended
    <3>3. \A p, q \in Runs : p # q => own'[p] \cap own'[q] = {}
      BY <1>1, <2>2 DEF IInv, TypeOK, OnlyRun
    <3> QED
      BY <2>1, <3>1, <3>2, <3>3 DEF IInv, TypeOK, guard
  <2>5. (Overtaken(r) /\ KnewOK(r) /\ Harmless(r) /\ Winner(r))'
    <3>1. KnewOK(r)' /\ Overtaken(r)' /\ Winner(r)'
      BY <1>1, <2>1, <2>3 DEF Overtaken, KnewOK, Winner
    <3>2. Harmless(r)'
      BY <1>1, <2>1 DEF Harmless
    <3> QED
      BY <3>1, <3>2
  <2> QED
    BY <2>1, <2>2, <2>3, <2>4, <2>5, LocalStep
<1> QED
  BY <1>3, <1>4

(***************************************************************************)
(* The commit of one run concerns the others through the tables.           *)
(***************************************************************************)
LEMMA CommitOK ==
  ASSUME IInv, NEW r \in Runs, Commit(r)
  PROVE  IInv'
<1>1. /\ pc[r] = "commit" /\ rows' = rows \cup own[r] /\ own' = [own EXCEPT ![r] = {}]
      /\ script' = script /\ knew' = knew /\ before' = before /\ guard' = guard
      /\ OnlyRun(r) /\ pc'[r] = "done" /\ own'[r] = {} /\ position'[r] = 1
  BY DEF IInv, TypeOK, Commit, End, OnlyRun
<1>2. script[r] \in {"roles", "admin"} /\ RunOK(r) /\ own[r] \cap rows = {} /\ before \subseteq rows
  BY DEF IInv, TypeOK
<1>3. script[r] = "roles" => Matrix \subseteq rows' /\ own[r] \subseteq Matrix
  <2> SUFFICES ASSUME script[r] = "roles"
               PROVE  Matrix \subseteq rows' /\ own[r] \subseteq Matrix
    OBVIOUS
  <2>1. RolesRunOK(r)
    BY <1>2 DEF RunOK
  <2>2. position[r] = Len(RolesPlan) + 1 /\ Len(RolesPlan) \in Nat
    BY <1>1, <2>1, SeedAssumption DEF RolesRunOK
  <2>3. \A i \in 1..Len(RolesPlan) : RolesPlan[i] \in rows'
    BY <1>1, <2>1, <2>2 DEF RolesRunOK, Running
  <2> QED
    BY <2>1, <2>3 DEF Matrix, RolesRunOK
<1>4. script[r] = "admin" =>
        /\ AdminUser \in rows'
        /\ \/ own[r] = {}
           \/ {Role(AdminRole), Membership} \subseteq rows' /\ AdminUser \in own[r]
        /\ own[r] \subseteq {Role(AdminRole), AdminUser, Membership}
  BY <1>1, <1>2 DEF RunOK, AdminRunOK, Running
<1>5. TypeOK'
  <2>1. /\ rows' \subseteq Keys /\ before' \subseteq rows'
        /\ pc' \in [Runs -> Labels] /\ script' \in [Runs -> {"roles", "admin"}]
        /\ position' \in [Runs -> 1..Len(RolesPlan) + 4]
        /\ own' \in [Runs -> SUBSET Keys] /\ knew' \in [Runs -> BOOLEAN]
    BY <1>1, SeedAssumption DEF IInv, TypeOK, Commit, End, Labels, Ended
  <2>2. \A q \in Runs : own'[q] \cap rows' = {} /\ (pc'[q] \in Ended => own'[q] = {})
    BY <1>1 DEF IInv, TypeOK, OnlyRun
  <2>3. \A p, q \in Runs : p # q => own'[p] \cap own'[q] = {}
    BY <1>1 DEF IInv, TypeOK, OnlyRun
  <2> QED
    BY <1>1, <2>1, <2>2, <2>3 DEF IInv, TypeOK, guard
<1>6. MatrixWholeOrUntouched'
  BY <1>1, <1>2, <1>3, <1>4 DEF IInv, MatrixWholeOrUntouched
<1>7. AdministratorRowComplete'
  BY <1>1, <1>2, <1>3, <1>4, KeysDiffer DEF IInv, AdministratorRowComplete
<1>8. (RunOK(r) /\ Overtaken(r) /\ KnewOK(r) /\ Harmless(r) /\ Winner(r))'
  <2>1. RunOK(r)'
    BY <1>1, <1>2, <1>3, <1>4 DEF RunOK, RolesRunOK, AdminRunOK, Ended, Running
  <2>2. KnewOK(r)'
    BY <1>1 DEF IInv, KnewOK
  <2> QED
    BY <1>1, <2>1, <2>2 DEF Overtaken, Harmless, Winner
<1>9. ASSUME NEW q \in Runs \ {r}
      PROVE  (RunOK(q) /\ Overtaken(q) /\ KnewOK(q) /\ Harmless(q) /\ Winner(q))'
  <2>1. /\ pc'[q] = pc[q] /\ script'[q] = script[q] /\ position'[q] = position[q]
        /\ own'[q] = own[q] /\ knew'[q] = knew[q]
        /\ RunOK(q) /\ Overtaken(q) /\ KnewOK(q) /\ Harmless(q) /\ Winner(q)
        /\ script[q] \in {"roles", "admin"}
    BY <1>1, <1>9 DEF OnlyRun, IInv, TypeOK, RerunIsHarmless, CollisionHasWinner, Harmless, Winner
  <2>2. RolesRunOK(q) => RolesRunOK(q)'
    BY <1>1, <2>1 DEF RolesRunOK
  <2>3. AdminRunOK(q) => AdminRunOK(q)'
    BY <1>1, <2>1 DEF AdminRunOK
  <2>4. RunOK(q)'
    BY <2>1, <2>2, <2>3 DEF RunOK
  <2>5. Overtaken(q)'
    <3> SUFFICES ASSUME script[q] = "roles", pc[q] = "insert", Key(q)' \in rows'
                 PROVE  Matrix \subseteq rows' \/ AdminUser \in rows' \ before
      BY <1>1, <2>1 DEF Overtaken
    <3>1. Key(q)' = Key(q)
      BY <2>1 DEF Key, Plan
    <3>2. Key(q) \in Matrix
      BY NextKey
    <3>3. CASE Key(q) \in rows
      BY <1>1, <2>1, <3>3 DEF Overtaken
    <3>4. CASE Key(q) \in own[r]
      BY <1>1, <1>2, <1>3, <1>4, <3>4
    <3> QED
      BY <1>1, <3>1, <3>3, <3>4
  <2>6. KnewOK(q)' /\ Harmless(q)' /\ Winner(q)'
    BY <1>1, <2>1 DEF KnewOK, Harmless, Winner
  <2> QED
    BY <2>4, <2>5, <2>6
<1>10. \A q \in Runs : (RunOK(q) /\ Overtaken(q) /\ KnewOK(q) /\ Harmless(q) /\ Winner(q))'
  BY <1>8, <1>9
<1>11. RerunIsHarmless' /\ CollisionHasWinner'
  BY <1>10 DEF RerunIsHarmless, CollisionHasWinner, Harmless, Winner
<1> QED
  BY <1>5, <1>6, <1>7, <1>10, <1>11 DEF IInv

(***************************************************************************)
(* The guarded request only reads.                                         *)
(***************************************************************************)
LEMMA ReadOnly ==
  ASSUME IInv, TypeOK', UNCHANGED <<rows, before, seeds>>
  PROVE  IInv'
<1>1. /\ rows' = rows /\ before' = before /\ pc' = pc /\ script' = script
      /\ position' = position /\ own' = own /\ knew' = knew
  BY DEF seeds
<1>2. \A q \in Runs : (RunOK(q) /\ Overtaken(q) /\ KnewOK(q) /\ Harmless(q) /\ Winner(q))'
  BY <1>1, SameRun DEF IInv, RerunIsHarmless, CollisionHasWinner, Harmless, Winner
<1> QED
  BY <1>1, <1>2 DEF IInv, RerunIsHarmless, CollisionHasWinner, Harmless, Winner,
                    MatrixWholeOrUntouched, AdministratorRowComplete

LEMMA InitOK == Init => IInv
<1> SUFFICES ASSUME Init PROVE IInv
  OBVIOUS
<1>1. rows \subseteq Keys /\ before = rows /\ AdministratorRowComplete
  BY SeedAssumption DEF Init, AdministratorRowComplete
<1>2. TypeOK
  BY <1>1, SeedAssumption DEF Init, TypeOK, Labels, Ended, NoRequest
<1>3. \A r \in Runs : RunOK(r) /\ Overtaken(r) /\ KnewOK(r)
  BY DEF Init, RunOK, RolesRunOK, Overtaken, KnewOK, Ended, Running
<1>4. MatrixWholeOrUntouched /\ RerunIsHarmless /\ CollisionHasWinner
  BY <1>1 DEF Init, MatrixWholeOrUntouched, RerunIsHarmless, CollisionHasWinner
<1> QED
  BY <1>1, <1>2, <1>3, <1>4 DEF IInv

LEMMA NextOK == IInv /\ [Next]_vars => IInv'
<1> SUFFICES ASSUME IInv, [Next]_vars PROVE IInv'
  OBVIOUS
<1>1. CASE UNCHANGED vars
  <2>1. TypeOK' /\ UNCHANGED <<rows, before, seeds>>
    BY <1>1 DEF vars, seeds, IInv, TypeOK
  <2> QED
    BY <2>1, ReadOnly
<1>2. ASSUME NEW r \in Runs, SeedRoles(r) \/ SeedAdmin(r) PROVE IInv'
  BY <1>2, StartOK
<1>3. ASSUME NEW r \in Runs, FindUser(r) PROVE IInv'
  BY <1>3, FindUserOK
<1>4. ASSUME NEW r \in Runs, Look(r) PROVE IInv'
  BY <1>4, LookOK
<1>5. ASSUME NEW r \in Runs, Insert(r) PROVE IInv'
  BY <1>5, InsertOK
<1>6. ASSUME NEW r \in Runs, Commit(r) PROVE IInv'
  BY <1>6, CommitOK
<1>7. ASSUME NEW r \in Runs, Fail(r) PROVE IInv'
  BY <1>7, RollbackOK DEF Fail
<1>8. ASSUME NEW input \in Asked, Request(input) PROVE IInv'
  <2>1. TypeOK'
    <3>1. GrantsOf(input.roles) \subseteq Codes
      BY DEF GrantsOf
    <3> QED
      BY <1>8, <3>1 DEF IInv, TypeOK, Request, seeds
  <2> QED
    BY <1>8, <2>1, ReadOnly DEF Request
<1>9. ASSUME NEW role \in Roles, LoadPermissions(role) PROVE IInv'
  <2>1. TypeOK'
    <3>1. GrantsOf({role}) \subseteq Codes
      BY DEF GrantsOf
    <3> QED
      BY <1>9, <3>1 DEF IInv, TypeOK, LoadPermissions, seeds
  <2> QED
    BY <1>9, <2>1, ReadOnly DEF LoadPermissions
<1>10. CASE Verdict
  <2>1. TypeOK'
    BY <1>10 DEF IInv, TypeOK, Verdict, seeds
  <2> QED
    BY <1>10, <2>1, ReadOnly DEF Verdict
<1> QED
  BY <1>1, <1>2, <1>3, <1>4, <1>5, <1>6, <1>7, <1>8, <1>9, <1>10 DEF Next

\* Every reachable state satisfies the inductive invariant.
THEOREM Invariance == Spec => []IInv
<1> QED
  BY InitOK, NextOK, PTL DEF Spec

\* Types, and every unique key in one place: a table or one run's transaction.
THEOREM TypeCorrect == Spec => []TypeOK
<1>1. IInv => TypeOK
  BY DEF IInv
<1> QED
  BY <1>1, Invariance, PTL

\* The tables hold the earlier matrix or the whole new one, at every moment.
THEOREM AllOrNothing == Spec => []MatrixWholeOrUntouched
<1>1. IInv => MatrixWholeOrUntouched
  BY DEF IInv
<1> QED
  BY <1>1, Invariance, PTL

\* seed_roles on complete tables changes nothing and is never refused.
THEOREM Idempotent == Spec => []RerunIsHarmless
<1>1. IInv => RerunIsHarmless
  BY DEF IInv
<1> QED
  BY <1>1, Invariance, PTL

\* A refused seed_roles leaves the matrix complete or a new administrator.
THEOREM CollisionWon == Spec => []CollisionHasWinner
<1>1. IInv => CollisionHasWinner
  BY DEF IInv
<1> QED
  BY <1>1, Invariance, PTL

\* The administrator has the role; a script that ended well has done its work.
THEOREM Administrator == Spec => []AdministratorComplete
<1>1. IInv => AdministratorComplete
  BY DEF IInv, TypeOK, AdministratorComplete, AdministratorRowComplete, RunOK, RolesRunOK,
         AdminRunOK
<1> QED
  BY <1>1, Invariance, PTL

(***************************************************************************)
(* The guard.  Committed keys stay, so what a request has read of one role *)
(* remains right while it reads the next.                                  *)
(***************************************************************************)
GuardInv ==
  /\ asked.roles \subseteq Roles /\ unread \subseteq asked.roles
  /\ granted \subseteq GrantsOf(asked.roles)
  /\ gathered \subseteq GrantsOf(asked.roles)
  /\ step = "load" => granted \subseteq gathered \cup GrantsOf(unread)
  /\ step = "denied" => ~asked.superuser /\ ~(asked.need \subseteq granted)
  /\ step = "allowed" => asked.superuser \/ asked.need \subseteq gathered

LEMMA KeysStay == IInv /\ [Next]_vars => rows \subseteq rows'
BY DEF Next, vars, SeedRoles, SeedAdmin, Start, FindUser, Look, Insert, Rollback, Commit,
       Fail, Request, LoadPermissions, Verdict

LEMMA GuardStep == IInv /\ GuardInv /\ [Next]_vars => GuardInv'
<1> SUFFICES ASSUME IInv, GuardInv, [Next]_vars PROVE GuardInv'
  OBVIOUS
<1>1. \A roles \in SUBSET Roles : GrantsOf(roles) \subseteq GrantsOf(roles)'
  BY KeysStay DEF GrantsOf
<1>2. CASE UNCHANGED guard
  <2>1. /\ asked' = asked /\ step' = step /\ unread' = unread /\ gathered' = gathered
        /\ granted' = granted
    BY <1>2 DEF guard
  <2> QED
    BY <1>1, <2>1 DEF GuardInv
<1>3. ASSUME NEW input \in Asked, Request(input) PROVE GuardInv'
  <2>1. input.roles \subseteq Roles
    BY SeedAssumption
  <2> QED
    BY <1>3, <2>1 DEF GuardInv, Request, GrantsOf
<1>4. ASSUME NEW role \in Roles, LoadPermissions(role) PROVE GuardInv'
  <2>1. /\ step = "load" /\ role \in unread /\ gathered' = gathered \cup GrantsOf({role})
        /\ unread' = unread \ {role} /\ rows' = rows /\ step' = step /\ asked' = asked
        /\ granted' = granted
    BY <1>4 DEF LoadPermissions
  <2>2. GrantsOf(unread) \subseteq GrantsOf({role}) \cup GrantsOf(unread \ {role})
    BY DEF GrantsOf
  <2>3. GrantsOf({role}) \subseteq GrantsOf(asked.roles)
    BY <2>1 DEF GuardInv, GrantsOf
  <2>4. granted \subseteq gathered' \cup GrantsOf(unread \ {role})
    BY <2>1, <2>2 DEF GuardInv
  <2>5. GrantsOf(unread)' = GrantsOf(unread \ {role}) /\ GrantsOf(asked.roles)' = GrantsOf(asked.roles)
    BY <2>1 DEF GrantsOf
  <2> QED
    BY <2>1, <2>3, <2>4, <2>5 DEF GuardInv
<1>5. CASE Verdict
  <2>1. /\ step = "load" /\ unread = {} /\ rows' = rows /\ asked' = asked /\ unread' = unread
        /\ gathered' = gathered /\ granted' = granted
        /\ step' = IF May THEN "allowed" ELSE "denied"
    BY <1>5 DEF Verdict
  <2>2. granted \subseteq gathered
    BY <2>1 DEF GuardInv, GrantsOf
  <2> QED
    BY <2>1, <2>2 DEF GuardInv, GrantsOf, May
<1> QED
  BY <1>2, <1>3, <1>4, <1>5
     DEF Next, vars, guard, SeedRoles, SeedAdmin, Start, FindUser, Look, Insert, Rollback,
         Commit, Fail

\* The guard refuses nobody who was allowed when the request came and admits
\* nobody who is not allowed now, while scripts commit between its reads.
THEOREM Guard == Spec => []GuardIsJust
<1>1. Init => GuardInv
  BY DEF Init, GuardInv, NoRequest, GrantsOf
<1>2. GuardInv => GuardIsJust
  BY DEF GuardInv, GuardIsJust
<1> QED
  BY <1>1, <1>2, GuardStep, Invariance, PTL DEF Spec

(***************************************************************************)
(* The order of the locks.  An INSERT locks its unique key until the       *)
(* transaction ends.  Both scripts take the keys in one order, Order.      *)
(***************************************************************************)
WaitsFor(q, r) == q # r /\ pc[q] = "insert" /\ Key(q) \in own[r]

NoCircularWait ==
  \A S \in SUBSET Runs : S # {} => \E q \in S : \A r \in S : ~WaitsFor(q, r)

\* An INSERT goes on exactly when it waits for nobody.
LEMMA GuardIsWait ==
  ASSUME NEW r \in Runs, pc[r] = "insert"
  PROVE  (\A q \in Runs \ {r} : Key(r) \notin own[q]) <=> (\A q \in Runs : ~WaitsFor(r, q))
BY DEF WaitsFor

Order == RolesPlan \o <<AdminUser, Membership>>

\* The positions of Order from the first one that holds the key.
From(key) == {i \in 1..Len(Order) : \E j \in 1..i : Order[j] = key}

\* A run holds keys of its plan that it has passed, and the key it inserts is
\* none of those.
Passed(r) ==
  /\ pc[r] \in Running =>
       \A key \in own[r] : \E j \in 1..position[r] - 1 : Plan(r)[j] = key
  /\ pc[r] = "insert" => \A j \in 1..position[r] - 1 : Plan(r)[j] # Key(r)

AllPassed == \A r \in Runs : Passed(r)

LEMMA OrderIs ==
  /\ Len(RolesPlan) \in Nat /\ Len(Order) = Len(RolesPlan) + 2
  /\ \A i \in 1..Len(RolesPlan) : Order[i] = RolesPlan[i] /\ RolesPlan[i] \in Matrix
  /\ Order[Len(RolesPlan) + 1] = AdminUser
  /\ Order[Len(RolesPlan) + 2] = Membership
<1> DEFINE tail == <<AdminUser, Membership>>
           n == Len(RolesPlan)
<1>1. RolesPlan \in Seq(Keys) /\ tail \in Seq(Keys) /\ n \in Nat
  BY SeedAssumption, KeysDiffer
<1>2. Len(tail) = 2 /\ tail[1] = AdminUser /\ tail[2] = Membership
  OBVIOUS
<1>3. Order = RolesPlan \o tail
  BY DEF Order
<1> HIDE DEF tail
<1>4. Len(RolesPlan \o tail) = n + Len(tail)
  BY <1>1
<1>5. \A i \in 1..n : (RolesPlan \o tail)[i] = RolesPlan[i]
  BY <1>1
<1>6. \A i \in 1..2 : (RolesPlan \o tail)[n + i] = tail[i]
  <2>1. \A k \in 1..n + Len(tail) :
          (RolesPlan \o tail)[k] = IF k <= n THEN RolesPlan[k] ELSE tail[k - n]
    BY <1>1, ConcatProperties
  <2>2. \A i \in 1..2 : n + i \in 1..n + Len(tail) /\ ~(n + i <= n) /\ n + i - n = i
    BY <1>1, <1>2
  <2> QED
    BY <2>1, <2>2
<1>7. \A i \in 1..n : RolesPlan[i] \in Matrix
  BY DEF Matrix
<1> QED
  BY <1>1, <1>2, <1>3, <1>4, <1>5, <1>6, <1>7

LEMMA LaterKey ==
  ASSUME NEW held, NEW wanted, NEW i \in 1..Len(Order), Order[i] = held,
         \A j \in 1..i : Order[j] # wanted
  PROVE  From(wanted) \subseteq From(held) /\ From(wanted) # From(held)
<1>1. Len(Order) \in Nat
  BY OrderIs
<1>2. i \in From(held) /\ i \notin From(wanted)
  BY DEF From
<1>3. ASSUME NEW m \in From(wanted) PROVE m \in From(held)
  <2>1. m \in 1..Len(Order) /\ \E j \in 1..m : Order[j] = wanted
    BY DEF From
  <2>2. i \in 1..m
    BY <1>1, <2>1
  <2> QED
    BY <2>1, <2>2 DEF From
<1> QED
  BY <1>2, <1>3

\* Whatever a run holds comes before what it wants.
LEMMA HeldBeforeWanted ==
  ASSUME IInv, AllPassed, NEW r \in Runs, pc[r] = "insert", NEW held \in own[r]
  PROVE  From(Key(r)) \subseteq From(held) /\ From(Key(r)) # From(held)
<1>1. /\ script[r] \in {"roles", "admin"} /\ position[r] \in Nat \ {0}
      /\ position[r] <= Len(Plan(r)) /\ Len(Plan(r)) \in Nat
  BY NextKey DEF IInv, TypeOK
<1>2. PICK i \in 1..position[r] - 1 : Plan(r)[i] = held
  BY DEF AllPassed, Passed, Running
<1>3. \A j \in 1..position[r] - 1 : Plan(r)[j] # Key(r)
  BY DEF AllPassed, Passed
<1>4. CASE script[r] = "roles"
  <2>1. Plan(r) = RolesPlan
    BY <1>4, NextKey
  <2>2. i \in 1..Len(Order) /\ Order[i] = held /\ \A j \in 1..i : Order[j] # Key(r)
    BY <1>1, <1>2, <1>3, <2>1, OrderIs
  <2> QED
    BY <2>2, LaterKey
<1>5. CASE script[r] = "admin"
  <2>1. /\ Len(Plan(r)) = 3 /\ Plan(r)[1] = Role(AdminRole) /\ Plan(r)[2] = AdminUser
        /\ Plan(r)[3] = Membership
    BY <1>5, NextKey
  <2> DEFINE n == Len(RolesPlan)
  <2>2. \A j \in 1..n : Order[j] # AdminUser /\ Order[j] # Membership
    BY OrderIs, KeysDiffer
  <2>3. CASE position[r] = 2
    <3>1. Key(r) = AdminUser /\ held = Role(AdminRole)
      BY <1>2, <2>1, <2>3 DEF Key
    <3>2. PICK k \in 1..n : RolesPlan[k] = Role(AdminRole)
      BY KeysDiffer DEF Matrix
    <3>3. k \in 1..Len(Order) /\ Order[k] = held /\ \A j \in 1..k : Order[j] # Key(r)
      BY <2>2, <3>1, <3>2, OrderIs
    <3> QED
      BY <3>3, LaterKey
  <2>4. CASE position[r] = 3
    <3>1. Key(r) = Membership /\ (held = Role(AdminRole) \/ held = AdminUser)
      BY <1>2, <2>1, <2>4 DEF Key
    <3>2. PICK k \in 1..n + 1 : Order[k] = held
      BY <3>1, OrderIs, KeysDiffer DEF Matrix
    <3>3. k \in 1..Len(Order) /\ \A j \in 1..k : Order[j] # Key(r)
      BY <2>2, <3>1, <3>2, OrderIs, KeysDiffer
    <3> QED
      BY <3>2, <3>3, LaterKey
  <2> QED
    BY <1>1, <1>2, <2>1, <2>3, <2>4
<1> QED
  BY <1>1, <1>4, <1>5

LEMMA PassedElsewhere ==
  ASSUME NEW q \in Runs, pc'[q] = pc[q], script'[q] = script[q], position'[q] = position[q],
         own'[q] = own[q], Passed(q)
  PROVE  Passed(q)'
BY DEF Passed, Key, Plan

LEMMA EndPassed ==
  ASSUME NEW r \in Runs, own'[r] = {}, pc'[r] # "insert"
  PROVE  Passed(r)'
BY DEF Passed

\* The key that GoOn leaves behind is the only one that may have become held.
LEMMA GoOnPassed ==
  ASSUME IInv, AllPassed, NEW r \in Runs, pc[r] \in {"look", "insert"}, GoOn(r),
         script' = script, own'[r] \subseteq own[r] \cup {Key(r)}
  PROVE  Passed(r)'
<1> DEFINE n == position[r] + 1
<1>1. /\ script[r] \in {"roles", "admin"} /\ position[r] \in Nat \ {0}
      /\ position[r] <= Len(Plan(r)) /\ Len(Plan(r)) \in Nat
      /\ position'[r] = n
      /\ pc'[r] = IF n > Len(Plan(r)) THEN "commit"
                 ELSE IF Looks(Plan(r)[n]) THEN "look" ELSE "insert"
      /\ Plan(r)' = Plan(r) /\ Key(r)' = Plan(r)[n]
  BY NextKey DEF IInv, TypeOK, GoOn, Plan, Key
<1>2. \A key \in own[r] : \E j \in 1..position[r] - 1 : Plan(r)[j] = key
  BY DEF AllPassed, Passed, Running
<1>3. \A key \in own'[r] : \E j \in 1..n - 1 : Plan(r)[j] = key
  <2> SUFFICES ASSUME NEW key \in own'[r] PROVE \E j \in 1..n - 1 : Plan(r)[j] = key
    OBVIOUS
  <2>1. CASE key = Key(r)
    BY <1>1, <2>1 DEF Key
  <2>2. CASE key \in own[r]
    BY <1>1, <1>2, <2>2
  <2> QED
    BY <2>1, <2>2
<1>4. pc'[r] = "insert" => \A j \in 1..n - 1 : Plan(r)[j] # Plan(r)[n]
  <2> SUFFICES ASSUME pc'[r] = "insert" PROVE \A j \in 1..n - 1 : Plan(r)[j] # Plan(r)[n]
    OBVIOUS
  <2>1. n <= Len(Plan(r)) /\ ~Looks(Plan(r)[n])
    BY <1>1
  <2>2. script[r] = "admin"
    <3> SUFFICES ASSUME script[r] = "roles" PROVE FALSE
      BY <1>1
    <3>1. Plan(r) = RolesPlan
      BY NextKey
    <3>2. RolesPlan[n] \in Matrix
      BY <1>1, <2>1, <3>1 DEF Matrix
    <3> QED
      BY <2>1, <3>1, <3>2, KeysDiffer DEF Looks
  <2>3. /\ Len(Plan(r)) = 3 /\ Plan(r)[1] = Role(AdminRole) /\ Plan(r)[2] = AdminUser
        /\ Plan(r)[3] = Membership
    BY <2>2, NextKey
  <2>4. n = 2 \/ n = 3
    BY <1>1, <2>1, <2>3
  <2> QED
    BY <2>3, <2>4, KeysDiffer
<1> QED
  BY <1>1, <1>3, <1>4 DEF Passed

LEMMA LookPassed ==
  ASSUME IInv, AllPassed, NEW r \in Runs, Look(r)
  PROVE  Passed(r)'
<1>1. pc[r] = "look" /\ script' = script /\ own' = own /\ RunOK(r)
      /\ script[r] \in {"roles", "admin"}
  BY DEF Look, IInv, TypeOK
<1>2. CASE Present(r, Key(r))
  BY <1>1, <1>2, GoOnPassed DEF Look
<1>3. CASE ~Present(r, Key(r))
  <2>1. pc'[r] = "insert" /\ position' = position /\ Key(r)' = Key(r) /\ Plan(r)' = Plan(r)
    BY <1>1, <1>3 DEF Look, IInv, TypeOK, Key, Plan
  <2>2. \A j \in 1..position[r] - 1 : Plan(r)[j] \in rows \cup own[r]
    <3>1. CASE script[r] = "roles"
      BY <1>1, <3>1 DEF RunOK, RolesRunOK, Running, Plan
    <3>2. CASE script[r] = "admin"
      BY <1>1, <3>2 DEF RunOK, AdminRunOK
    <3> QED
      BY <1>1, <3>1, <3>2
  <2>3. \A j \in 1..position[r] - 1 : Plan(r)[j] # Key(r)
    BY <1>3, <2>2 DEF Present
  <2> QED
    BY <1>1, <2>1, <2>3 DEF AllPassed, Passed, Running
<1> QED
  BY <1>2, <1>3

LEMMA PassedNext == IInv /\ AllPassed /\ [Next]_vars => AllPassed'
<1> SUFFICES ASSUME IInv, AllPassed, [Next]_vars PROVE AllPassed'
  OBVIOUS
<1>1. ASSUME NEW r \in Runs, OnlyRun(r), Passed(r)' PROVE AllPassed'
  BY <1>1, PassedElsewhere DEF AllPassed, OnlyRun
<1>2. CASE UNCHANGED seeds
  BY <1>2, PassedElsewhere DEF AllPassed, seeds
<1>3. ASSUME NEW r \in Runs, SeedRoles(r) \/ SeedAdmin(r) PROVE AllPassed'
  <2>1. OnlyRun(r) /\ own'[r] = {} /\ pc'[r] # "insert"
    BY <1>3 DEF IInv, TypeOK, SeedRoles, SeedAdmin, Start, OnlyRun
  <2> QED
    BY <1>1, <2>1, EndPassed
<1>4. ASSUME NEW r \in Runs, FindUser(r) PROVE AllPassed'
  <2>1. OnlyRun(r) /\ pc[r] = "find_user" /\ pc'[r] # "insert" /\ own' = own
        /\ position' = position /\ script' = script
    BY <1>4 DEF IInv, TypeOK, FindUser, OnlyRun
  <2>2. Passed(r)'
    BY <2>1 DEF AllPassed, Passed, Running, Plan
  <2> QED
    BY <1>1, <2>1, <2>2
<1>5. ASSUME NEW r \in Runs, Look(r) PROVE AllPassed'
  <2>1. OnlyRun(r)
    BY <1>5 DEF IInv, TypeOK, Look, GoOn, OnlyRun
  <2> QED
    BY <1>1, <1>5, <2>1, LookPassed
<1>6. ASSUME NEW r \in Runs, NEW label \in {"conflict", "failed"}, Rollback(r, label)
      PROVE  AllPassed'
  <2>1. OnlyRun(r) /\ own'[r] = {} /\ pc'[r] # "insert"
    BY <1>6 DEF IInv, TypeOK, Rollback, End, OnlyRun
  <2> QED
    BY <1>1, <2>1, EndPassed
<1>7. ASSUME NEW r \in Runs, Insert(r) PROVE AllPassed'
  <2>1. CASE Key(r) \in rows
    BY <1>6, <1>7, <2>1 DEF Insert
  <2>2. CASE Key(r) \notin rows
    <3>1. /\ pc[r] = "insert" /\ GoOn(r) /\ script' = script /\ knew' = knew
          /\ own' = [own EXCEPT ![r] = @ \cup {Key(r)}]
      BY <1>7, <2>2 DEF Insert
    <3>2. OnlyRun(r) /\ own'[r] = own[r] \cup {Key(r)}
      BY <3>1 DEF IInv, TypeOK, GoOn, OnlyRun
    <3> QED
      BY <1>1, <3>1, <3>2, GoOnPassed
  <2> QED
    BY <2>1, <2>2
<1>8. ASSUME NEW r \in Runs, Commit(r) PROVE AllPassed'
  <2>1. OnlyRun(r) /\ own'[r] = {} /\ pc'[r] # "insert"
    BY <1>8 DEF IInv, TypeOK, Commit, End, OnlyRun
  <2> QED
    BY <1>1, <2>1, EndPassed
<1>9. ASSUME NEW r \in Runs, Fail(r) PROVE AllPassed'
  BY <1>6, <1>9 DEF Fail
<1> QED
  BY <1>2, <1>3, <1>4, <1>5, <1>7, <1>8, <1>9
     DEF Next, vars, seeds, Request, LoadPermissions, Verdict

LEMMA NobodyWaits ==
  ASSUME IInv, AllPassed
  PROVE  NoCircularWait
<1> SUFFICES ASSUME NEW S \in SUBSET Runs, S # {}
             PROVE  \E q \in S : \A r \in S : ~WaitsFor(q, r)
  BY DEF NoCircularWait
<1>1. CASE \E q \in S : pc[q] # "insert"
  BY <1>1 DEF WaitsFor
<1>2. CASE \A q \in S : pc[q] = "insert"
  <2> DEFINE N == 1..Len(Order)
             T == {From(Key(q)) : q \in S}
             R == StrictSubsetOrdering(N)
  <2>1. IsFiniteSet(N)
    BY OrderIs, FS_Interval
  <2>2. IsWellFoundedOn(R, FiniteSubsetsOf(N))
    BY FS_StrictSubsetOrderingWellFounded
  <2>3. FiniteSubsetsOf(N) = SUBSET N
    BY <2>1, FS_FiniteSubsetsOfFinite
  <2>4. T \subseteq SUBSET N /\ T # {}
    <3>1. \A key : From(key) \subseteq N
      BY DEF From
    <3> QED
      BY <3>1
  <2>5. PICK least \in T : \A x \in T : ~(<<x, least>> \in R)
    <3> HIDE DEF T, R, N
    <3> QED
      BY <2>2, <2>3, <2>4, WFMin
  <2>6. PICK q \in S : From(Key(q)) = least
    BY <2>5
  <2>7. ASSUME NEW r \in S, WaitsFor(q, r) PROVE FALSE
    <3>1. pc[r] = "insert" /\ Key(q) \in own[r]
      BY <1>2, <2>7 DEF WaitsFor
    <3>2. From(Key(r)) \subseteq From(Key(q)) /\ From(Key(r)) # From(Key(q))
      BY <3>1, HeldBeforeWanted
    <3>3. From(Key(r)) \in T /\ From(Key(r)) \in SUBSET N /\ From(Key(q)) \in SUBSET N
      BY <2>4, <2>6
    <3>4. <<From(Key(r)), least>> \in R
      BY <2>6, <3>2, <3>3 DEF StrictSubsetOrdering
    <3> QED
      BY <2>5, <3>3, <3>4
  <2> QED
    BY <2>7
<1> QED
  BY <1>1, <1>2

\* Any number of scripts, of both kinds, never wait for each other's keys in a
\* circle: among any of them one waits for none of the others.
THEOREM NoDeadlock == Spec => []NoCircularWait
<1>1. Init => AllPassed
  BY DEF Init, AllPassed, Passed, Running
<1>2. IInv /\ AllPassed => NoCircularWait
  BY NobodyWaits
<1> QED
  BY <1>1, <1>2, PassedNext, Invariance, PTL DEF Spec
================================================================================
