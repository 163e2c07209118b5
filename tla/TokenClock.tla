------------------------------- MODULE TokenClock ------------------------------
(***************************************************************************)
(* The clock of the tokens.  AuthService treats "expired" and              *)
(* "blacklisted" as facts; here they are computed the way the code does:   *)
(* JWT expiry in whole seconds, the database's expires_at and Redis' key   *)
(* expiry in fractions of a second (ticks).                                *)
(*                                                                         *)
(* A token pair is issued at some tick; its two tokens have fixed          *)
(* lifetimes.  Requests that present one of them take each step at a later *)
(* tick, or the same one.                                                  *)
(***************************************************************************)
EXTENDS Integers

CONSTANTS Requests,         \* slots of requests in flight
          TicksPerSecond,
          AccessSeconds,    \* ACCESS_TOKEN_EXPIRE_MINUTES, in seconds
          RefreshSeconds,   \* REFRESH_TOKEN_EXPIRE_DAYS, in seconds
          MaxTick           \* the run ends here (bound)

ASSUME ClockAssumption ==
  /\ TicksPerSecond \in Nat \ {0} /\ MaxTick \in Nat
  /\ AccessSeconds \in Nat \ {0} /\ RefreshSeconds \in Nat \ {0}

Never == -1
Ticks == {Never} \cup 0..MaxTick

VARIABLES now,         \* the wall clock, in ticks
          issued,      \* when the pair was issued, or Never
          gone_at,     \* when its blacklist key vanishes, or Never
          logged_out,  \* some logout of the pair was answered with success
          pc, after,   \* of a request: step; it arrived after logged_out
          ttl          \* of a logout: the key's lifetime, in seconds

vars == <<now, issued, gone_at, logged_out, pc, after, ttl>>

Labels == {"idle", "use", "logout_check", "logout_decode", "logout_add",
           "refresh_row", "accepted", "refused", "refreshed", "too_late",
           "error"}
Verdicts == {"accepted", "refused", "refreshed", "too_late", "error"}

TypeOK ==
  /\ now \in 0..MaxTick /\ issued \in Ticks
  /\ gone_at \in {Never} \cup Nat
  /\ logged_out \in BOOLEAN
  /\ pc \in [Requests -> Labels]
  /\ after \in [Requests -> BOOLEAN]
  /\ ttl \in [Requests -> 0..AccessSeconds]

Init ==
  /\ now = 0 /\ issued = Never /\ gone_at = Never
  /\ logged_out = FALSE
  /\ pc = [r \in Requests |-> "idle"]
  /\ after = [r \in Requests |-> FALSE]
  /\ ttl = [r \in Requests |-> 0]

(***************************************************************************)
(* Times.  int(t.timestamp()) cuts the fraction off.                       *)
(***************************************************************************)
Second(t) == t \div TicksPerSecond

\* The `exp` claims, in whole seconds, and the row's expires_at, in ticks.
AccessExp == Second(issued + AccessSeconds * TicksPerSecond)
ExpiresAt == issued + RefreshSeconds * TicksPerSecond
RefreshExp == Second(ExpiresAt)

\* jwt.decode refuses a token once the current whole second is past exp: a
\* token is good to the end of that second.  Mutant: to its beginning.
DecodesMutant(exp) == exp > Second(now)
Decodes(exp) == exp >= Second(now)

\* TokenBlacklist.add writes a key only for ttl > 0; Redis drops it ttl
\* seconds after the write.  Mutants: exp itself is passed; the remaining
\* lifetime is cut by one.
SecondsLeftAbsoluteMutant == AccessExp
SecondsLeftMutant == IF AccessExp > Second(now) THEN AccessExp - Second(now) - 1 ELSE 0
SecondsLeft == IF AccessExp > Second(now) THEN AccessExp - Second(now) ELSE 0

\* TokenBlacklist.is_blacklisted.
Blacklisted == gone_at > now

\* RefreshToken.is_active, for a row that is not revoked.  Mutant: in seconds.
RowActiveMutant == RefreshExp > Second(now)
RowActive == ExpiresAt > now

(***************************************************************************)
(* Steps.                                                                  *)
(***************************************************************************)
Tick ==
  /\ now < MaxTick
  /\ now' = now + 1
  /\ UNCHANGED <<issued, gone_at, logged_out, pc, after, ttl>>

Issue ==
  /\ issued = Never
  /\ issued' = now
  /\ UNCHANGED <<now, gone_at, logged_out, pc, after, ttl>>

Goto(r, label) ==
  /\ pc' = [pc EXCEPT ![r] = label]
  /\ UNCHANGED <<now, issued>>

\* A request arrives; its bearer or refresh token is decoded.
Arrive(r, label) ==
  /\ pc[r] = "idle" /\ issued # Never
  /\ after' = [after EXCEPT ![r] = logged_out]
  /\ Goto(r, label)
  /\ UNCHANGED <<gone_at, logged_out, ttl>>

\* get_current_user, in front of any endpoint and of POST /auth/logout.
Use(r) == Arrive(r, IF Decodes(AccessExp) THEN "use" ELSE "refused")
Logout(r) == Arrive(r, IF Decodes(AccessExp) THEN "logout_check" ELSE "refused")
Refresh(r) == Arrive(r, IF Decodes(RefreshExp) THEN "refresh_row" ELSE "too_late")

\* The blacklist is asked at a later moment than the token was decoded.
Check(r) ==
  /\ \/ pc[r] = "use" /\ Goto(r, IF Blacklisted THEN "refused" ELSE "accepted")
     \/ pc[r] = "logout_check"
        /\ Goto(r, IF Blacklisted THEN "refused" ELSE "logout_decode")
  /\ UNCHANGED <<gone_at, logged_out, after, ttl>>

\* The logout handler decodes the token again (one that has expired since is
\* an internal error there); AuthService.logout computes the time to live.
LogoutDecode(r) ==
  /\ pc[r] = "logout_decode"
  /\ Goto(r, IF Decodes(AccessExp) THEN "logout_add" ELSE "error")
  /\ ttl' = [ttl EXCEPT ![r] = IF Decodes(AccessExp) THEN SecondsLeft ELSE 0]
  /\ UNCHANGED <<gone_at, logged_out, after>>

\* SET key "1" EX ttl; then the logout is answered.
LogoutAdd(r) ==
  /\ pc[r] = "logout_add"
  /\ gone_at' = IF ttl[r] > 0 THEN now + ttl[r] * TicksPerSecond ELSE gone_at
  /\ logged_out' = TRUE
  /\ ttl' = [ttl EXCEPT ![r] = 0]
  /\ Goto(r, "accepted")
  /\ UNCHANGED after

RefreshRow(r) ==
  /\ pc[r] = "refresh_row"
  /\ Goto(r, IF RowActive THEN "refreshed" ELSE "too_late")
  /\ UNCHANGED <<gone_at, logged_out, after, ttl>>

Answer(r) ==
  /\ pc[r] \in Verdicts
  /\ after' = [after EXCEPT ![r] = FALSE]
  /\ Goto(r, "idle")
  /\ UNCHANGED <<gone_at, logged_out, ttl>>

Next ==
  \/ Tick
  \/ Issue
  \/ \E r \in Requests :
       \/ Use(r) \/ Logout(r) \/ Refresh(r)
       \/ Check(r) \/ LogoutDecode(r) \/ LogoutAdd(r) \/ RefreshRow(r)
       \/ Answer(r)

Spec == Init /\ [][Next]_vars

(***************************************************************************)
(* What the times promise.                                                 *)
(***************************************************************************)
Passes(r, from, to) == pc[r] = from /\ pc'[r] = to

\* TokenBlacklist.add promises "(at least) its remaining lifetime"; the code does
\* this much: a request that starts after a logout was answered is refused as
\* long as the access token has a whole second left: it can get through only if the
\* blacklist is asked in or after the second named by exp.
LogoutHolds ==
  [][\A r \in Requests :
       Passes(r, "use", "accepted") /\ after[r] => Second(now) >= AccessExp]_vars

\* A refresh token is good exactly until expires_at: the coarser exp claim
\* neither ends it sooner nor keeps it alive longer, whatever time passes
\* between the decoding and the look at the row.
RefreshWindowExact ==
  [][\A r \in Requests :
       /\ pc'[r] = "refreshed" /\ pc[r] # "refreshed" => now < ExpiresAt
       /\ pc'[r] = "too_late" /\ pc[r] # "too_late" => now >= ExpiresAt]_vars

\* Two logouts of one pair, decoded and written in any order: the later write
\* replaces the key, and may end it sooner than the earlier one would have, but
\* no write of TokenBlacklist.add ends it before the second named by exp begins.
\* The token itself still decodes to the end of that second.
KeyReachesExp ==
  [][gone_at' # gone_at => Second(gone_at') >= AccessExp]_vars
================================================================================
