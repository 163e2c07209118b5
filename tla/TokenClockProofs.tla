---------------------------- MODULE TokenClockProofs ----------------------------
(***************************************************************************)
(* What the three clocks of a token promise, for every resolution of the   *)
(* wall clock, every pair of lifetimes and any number of requests.         *)
(*                                                                         *)
(* A logout computes the key's lifetime in one second and writes the key   *)
(* in a later one: the lifetime, counted from the present second, never    *)
(* falls short of exp.  That, and that an answered logout leaves such a    *)
(* key or a token at its end, is the inductive invariant.                  *)
(***************************************************************************)
EXTENDS TokenClock, TLAPS

--------------------------------------------------------------------------------
(***************************************************************************)
(* Whole seconds.                                                          *)
(***************************************************************************)
LEMMA SecondTyped == ASSUME NEW t \in Nat PROVE Second(t) \in Nat
BY ClockAssumption DEF Second

\* Cutting the fraction off keeps the order.
LEMMA SecondOrdered ==
  ASSUME NEW s \in Nat, NEW t \in Nat, s <= t PROVE Second(s) <= Second(t)
BY ClockAssumption DEF Second

\* A whole number of seconds later, that many seconds have passed.
LEMMA SecondShift ==
  ASSUME NEW t \in Nat, NEW k \in Nat
  PROVE  /\ t + k * TicksPerSecond \in Nat
         /\ Second(t + k * TicksPerSecond) = Second(t) + k
BY ClockAssumption DEF Second

--------------------------------------------------------------------------------
InProgress == {"use", "logout_check", "logout_decode", "logout_add", "refresh_row"}

\* Nothing happens before the pair is issued.
Issued ==
  /\ issued # Never => issued <= now
  /\ issued = Never => ~logged_out /\ gone_at = Never
                         /\ \A r \in Requests : pc[r] \notin InProgress

\* The lifetime a logout has computed reaches exp from every later second.
LifetimeReaches ==
  \A r \in Requests :
    pc[r] = "logout_add" => Second(now) + ttl[r] >= AccessExp

\* An answered logout has left a key that lasts to exp, or a token at its end.
LogoutLasts ==
  /\ \A r \in Requests : after[r] => logged_out
  /\ logged_out => \/ gone_at \in Nat /\ Second(gone_at) >= AccessExp
                   \/ Second(now) >= AccessExp

ClockInv == TypeOK /\ Issued /\ LifetimeReaches /\ LogoutLasts

LEMMA ExpTyped ==
  ASSUME TypeOK, issued # Never
  PROVE  /\ issued \in Nat
         /\ AccessExp = Second(issued) + AccessSeconds /\ AccessExp \in Nat
         /\ ExpiresAt \in Nat
<1>1. issued \in Nat BY DEF TypeOK, Ticks
<1>2. AccessExp = Second(issued) + AccessSeconds
  BY <1>1, SecondShift, ClockAssumption DEF AccessExp
<1>3. ExpiresAt \in Nat BY <1>1, SecondShift, ClockAssumption DEF ExpiresAt
<1> QED BY <1>1, <1>2, <1>3, SecondTyped, ClockAssumption

\* SecondsLeft is at most the lifetime of an access token, and reaches exp.
LEMMA SecondsLeftReach ==
  ASSUME TypeOK, Issued, issued # Never
  PROVE  SecondsLeft \in 0..AccessSeconds /\ Second(now) + SecondsLeft >= AccessExp
<1>1. issued \in Nat /\ now \in Nat /\ issued <= now
  BY ExpTyped DEF TypeOK, Issued
<1>2. Second(issued) <= Second(now) /\ Second(now) \in Nat /\ Second(issued) \in Nat
  BY <1>1, SecondOrdered, SecondTyped
<1>3. AccessExp = Second(issued) + AccessSeconds BY ExpTyped
<1> QED BY <1>2, <1>3, ClockAssumption DEF SecondsLeft

--------------------------------------------------------------------------------
LEMMA InitHolds == ASSUME Init PROVE ClockInv
<1>1. \A r \in Requests : pc[r] = "idle" /\ after[r] = FALSE BY DEF Init
<1>2. TypeOK
  <2>1. 0 \in 0..MaxTick /\ 0 \in 0..AccessSeconds BY ClockAssumption
  <2>2. "idle" \in Labels BY DEF Labels
  <2> QED BY <2>1, <2>2 DEF Init, TypeOK, Ticks
<1>3. Issued BY <1>1 DEF Init, Issued, InProgress
<1>4. LifetimeReaches /\ LogoutLasts BY <1>1 DEF Init, LifetimeReaches, LogoutLasts
<1> QED BY <1>2, <1>3, <1>4 DEF ClockInv

LEMMA TickHolds == ASSUME ClockInv, Tick PROVE ClockInv'
<1>1. TypeOK /\ now \in Nat /\ now' = now + 1 BY DEF ClockInv, TypeOK, Tick
<1>2. Second(now) \in Nat /\ Second(now') \in Nat /\ Second(now) <= Second(now')
  BY <1>1, SecondTyped, SecondOrdered
<1>3. AccessExp' = AccessExp BY DEF Tick, AccessExp, Second
<1>4. TypeOK' BY <1>1, ClockAssumption DEF Tick, TypeOK, Ticks
<1>5. Issued' BY <1>1 DEF ClockInv, Tick, Issued, TypeOK, Ticks, Never
<1>6. LifetimeReaches'
  <2> SUFFICES ASSUME NEW r \in Requests, pc'[r] = "logout_add"
               PROVE  Second(now') + ttl'[r] >= AccessExp'
    BY DEF LifetimeReaches, Second
  <2>1. issued # Never BY DEF ClockInv, Issued, InProgress, Tick
  <2>2. AccessExp \in Nat /\ ttl[r] \in Nat
    BY <1>1, <2>1, ExpTyped, ClockAssumption DEF TypeOK
  <2>3. Second(now) + ttl[r] >= AccessExp BY DEF ClockInv, LifetimeReaches, Tick
  <2> QED BY <1>2, <1>3, <2>2, <2>3 DEF Tick
<1>7. LogoutLasts'
  <2>1. logged_out => AccessExp \in Nat
    BY <1>1, ExpTyped DEF ClockInv, Issued
  <2>2. logged_out' => \/ gone_at' \in Nat /\ Second(gone_at') >= AccessExp'
                       \/ Second(now') >= AccessExp'
    BY <1>2, <1>3, <2>1 DEF ClockInv, LogoutLasts, Tick
  <2>3. \A r \in Requests : after'[r] => logged_out' BY DEF ClockInv, LogoutLasts, Tick
  <2> QED BY <2>2, <2>3 DEF LogoutLasts, Second
<1> QED BY <1>4, <1>5, <1>6, <1>7 DEF ClockInv

LEMMA IssueHolds == ASSUME ClockInv, Issue PROVE ClockInv'
<1>1. /\ TypeOK /\ ~logged_out /\ \A r \in Requests : pc[r] \notin InProgress
  BY DEF ClockInv, Issued, Issue
<1>2. TypeOK' BY <1>1 DEF Issue, TypeOK, Ticks
<1>3. Issued' BY <1>1 DEF Issue, TypeOK, Issued, Never
<1>4. LifetimeReaches' BY <1>1 DEF Issue, LifetimeReaches, InProgress
<1>5. LogoutLasts' BY <1>1 DEF ClockInv, Issue, LogoutLasts
<1> QED BY <1>2, <1>3, <1>4, <1>5 DEF ClockInv

--------------------------------------------------------------------------------
\* A step of a request that neither writes the key nor enters "logout_add".
Quiet(r) ==
  /\ UNCHANGED <<now, issued, gone_at, logged_out>>
  /\ \E label \in Labels \ {"logout_add"} :
       /\ pc' = [pc EXCEPT ![r] = label]
       /\ label \in InProgress => issued # Never
  /\ \/ after' = after
     \/ \E b \in BOOLEAN : after' = [after EXCEPT ![r] = b] /\ (b => logged_out)
  /\ \/ ttl' = ttl
     \/ ttl' = [ttl EXCEPT ![r] = 0]

LEMMA QuietHolds == ASSUME ClockInv, NEW r \in Requests, Quiet(r) PROVE ClockInv'
<1>1. TypeOK /\ Issued /\ LifetimeReaches /\ LogoutLasts BY DEF ClockInv
<1>2. PICK label \in Labels \ {"logout_add"} :
        pc' = [pc EXCEPT ![r] = label] /\ (label \in InProgress => issued # Never)
  BY DEF Quiet
<1>3. UNCHANGED <<now, issued, gone_at, logged_out>> BY DEF Quiet
<1>4. Second(now)' = Second(now) /\ AccessExp' = AccessExp /\ Second(gone_at)' = Second(gone_at)
  BY <1>3 DEF Second, AccessExp
<1>5. ttl' \in [Requests -> 0..AccessSeconds]
  BY <1>1, ClockAssumption DEF Quiet, TypeOK
<1>6. after' \in [Requests -> BOOLEAN] BY <1>1 DEF Quiet, TypeOK
<1>7. pc' \in [Requests -> Labels] BY <1>1, <1>2 DEF TypeOK
<1>8. TypeOK' BY <1>1, <1>3, <1>5, <1>6, <1>7 DEF TypeOK
<1>9. Issued' BY <1>1, <1>2, <1>3 DEF Issued, TypeOK
<1>10. ASSUME NEW q \in Requests, pc'[q] = "logout_add"
       PROVE  q # r /\ pc[q] = "logout_add" /\ ttl'[q] = ttl[q]
  BY <1>1, <1>2, <1>10 DEF Quiet, TypeOK
<1>11. LifetimeReaches' BY <1>1, <1>4, <1>10 DEF LifetimeReaches
<1>12. \A q \in Requests : after'[q] => logged_out'
  BY <1>1, <1>3 DEF LogoutLasts, Quiet, TypeOK
<1>13. LogoutLasts' BY <1>1, <1>3, <1>4, <1>12 DEF LogoutLasts
<1> QED BY <1>8, <1>9, <1>11, <1>13 DEF ClockInv

LEMMA ArriveQuiet ==
  ASSUME ClockInv, NEW r \in Requests, Use(r) \/ Logout(r) \/ Refresh(r)
  PROVE  Quiet(r)
<1>1. PICK label \in {"use", "refused", "logout_check", "refresh_row", "too_late"} :
        Arrive(r, label)
  BY DEF Use, Logout, Refresh
<1>2. logged_out \in BOOLEAN BY DEF ClockInv, TypeOK
<1> QED BY <1>1, <1>2 DEF Arrive, Goto, Quiet, Labels

LEMMA WorkQuiet ==
  ASSUME ClockInv, NEW r \in Requests,
         Check(r) \/ RefreshRow(r) \/ Answer(r) \/ (LogoutDecode(r) /\ ~Decodes(AccessExp))
  PROVE  Quiet(r)
<1>1. pc[r] \in InProgress => issued # Never BY DEF ClockInv, Issued
<1>2. CASE Check(r)
  <2>1. PICK label \in {"refused", "accepted", "logout_decode"} :
          /\ Goto(r, label) /\ pc[r] \in InProgress
    BY <1>2 DEF Check, InProgress
  <2> QED BY <1>1, <1>2, <2>1 DEF Check, Goto, Quiet, Labels
<1>3. CASE RefreshRow(r)
  <2>1. PICK label \in {"refreshed", "too_late"} : Goto(r, label)
    BY <1>3 DEF RefreshRow
  <2> QED BY <1>3, <2>1 DEF RefreshRow, Goto, Quiet, Labels, InProgress
<1>4. CASE Answer(r)
  <2>1. /\ UNCHANGED <<now, issued, gone_at, logged_out, ttl>>
        /\ pc' = [pc EXCEPT ![r] = "idle"] /\ after' = [after EXCEPT ![r] = FALSE]
    BY <1>4 DEF Answer, Goto
  <2>2. "idle" \in Labels \ {"logout_add"} /\ "idle" \notin InProgress
    BY DEF Labels, InProgress
  <2>3. \E b \in BOOLEAN : after' = [after EXCEPT ![r] = b] /\ (b => logged_out)
    <3> WITNESS FALSE \in BOOLEAN
    <3> QED BY <2>1
  <2> QED BY <2>1, <2>2, <2>3 DEF Quiet
<1>5. CASE LogoutDecode(r) /\ ~Decodes(AccessExp)
  <2>1. /\ UNCHANGED <<now, issued, gone_at, logged_out, after>>
        /\ pc' = [pc EXCEPT ![r] = "error"] /\ ttl' = [ttl EXCEPT ![r] = 0]
    BY <1>5, Zenon DEF LogoutDecode, Goto
  <2>2. "error" \in Labels \ {"logout_add"} /\ "error" \notin InProgress
    BY DEF Labels, InProgress
  <2> QED BY <2>1, <2>2 DEF Quiet
<1> QED BY <1>2, <1>3, <1>4, <1>5

--------------------------------------------------------------------------------
\* The lifetime is computed.
LEMMA DecodeHolds ==
  ASSUME ClockInv, NEW r \in Requests, LogoutDecode(r), Decodes(AccessExp)
  PROVE  ClockInv'
<1>1. TypeOK /\ Issued /\ LifetimeReaches /\ LogoutLasts BY DEF ClockInv
<1>2. issued # Never BY <1>1 DEF Issued, InProgress, LogoutDecode
<1>3. SecondsLeft \in 0..AccessSeconds /\ Second(now) + SecondsLeft >= AccessExp
  BY <1>1, <1>2, SecondsLeftReach
<1>4. /\ UNCHANGED <<now, issued, gone_at, logged_out, after>>
      /\ pc' = [pc EXCEPT ![r] = "logout_add"]
      /\ ttl' = [ttl EXCEPT ![r] = SecondsLeft]
  BY DEF LogoutDecode, Goto
<1>5. Second(now)' = Second(now) /\ AccessExp' = AccessExp /\ Second(gone_at)' = Second(gone_at)
  BY <1>4 DEF Second, AccessExp
<1>6. TypeOK' BY <1>1, <1>3, <1>4 DEF TypeOK, Labels
<1>7. Issued' BY <1>1, <1>2, <1>4 DEF Issued, TypeOK
<1>8. ASSUME NEW q \in Requests, pc'[q] = "logout_add"
      PROVE  Second(now) + ttl'[q] >= AccessExp
  BY <1>1, <1>3, <1>4, <1>8 DEF LifetimeReaches, TypeOK
<1>9. LifetimeReaches' BY <1>5, <1>8 DEF LifetimeReaches
<1>10. LogoutLasts' BY <1>1, <1>4, <1>5 DEF LogoutLasts
<1> QED BY <1>6, <1>7, <1>9, <1>10 DEF ClockInv

\* The key is written: it lasts to exp, or there was nothing left to cover.
LEMMA AddReaches ==
  ASSUME ClockInv, NEW r \in Requests, LogoutAdd(r)
  PROVE  /\ gone_at' \in {Never} \cup Nat
         /\ gone_at' # gone_at => gone_at' \in Nat /\ Second(gone_at') >= AccessExp
         /\ \/ gone_at' \in Nat /\ Second(gone_at') >= AccessExp
            \/ Second(now) >= AccessExp
<1>1. TypeOK /\ Issued /\ LifetimeReaches BY DEF ClockInv
<1>2. issued # Never /\ Second(now) + ttl[r] >= AccessExp
  BY <1>1 DEF Issued, InProgress, LifetimeReaches, LogoutAdd
<1>3. now \in Nat /\ ttl[r] \in Nat /\ gone_at \in {Never} \cup Nat /\ AccessExp \in Nat
  BY <1>1, <1>2, ExpTyped, ClockAssumption DEF TypeOK
<1>4. /\ now + ttl[r] * TicksPerSecond \in Nat
      /\ Second(now + ttl[r] * TicksPerSecond) = Second(now) + ttl[r]
  BY <1>3, SecondShift
<1>5. Second(now) \in Nat BY <1>3, SecondTyped
<1>6. CASE ttl[r] > 0
  <2>1. gone_at' = now + ttl[r] * TicksPerSecond BY <1>6 DEF LogoutAdd
  <2> QED BY <1>2, <1>4, <2>1
<1>7. CASE ttl[r] = 0
  <2>1. gone_at' = gone_at BY <1>7 DEF LogoutAdd
  <2> QED BY <1>2, <1>3, <1>5, <1>7, <2>1
<1> QED BY <1>3, <1>6, <1>7

LEMMA AddHolds ==
  ASSUME ClockInv, NEW r \in Requests, LogoutAdd(r) PROVE ClockInv'
<1>1. TypeOK /\ Issued /\ LifetimeReaches /\ LogoutLasts BY DEF ClockInv
<1>2. /\ UNCHANGED <<now, issued, after>> /\ logged_out' = TRUE
      /\ pc' = [pc EXCEPT ![r] = "accepted"] /\ ttl' = [ttl EXCEPT ![r] = 0]
  BY DEF LogoutAdd, Goto
<1>3. /\ gone_at' \in {Never} \cup Nat
      /\ \/ gone_at' \in Nat /\ Second(gone_at') >= AccessExp
         \/ Second(now) >= AccessExp
  BY AddReaches
<1>4. Second(now)' = Second(now) /\ AccessExp' = AccessExp
  BY <1>2 DEF Second, AccessExp
<1>5. issued # Never BY <1>1 DEF Issued, InProgress, LogoutAdd
<1>6. TypeOK' BY <1>1, <1>2, <1>3, ClockAssumption DEF TypeOK, Labels
<1>7. Issued' BY <1>1, <1>2, <1>5 DEF Issued, TypeOK
<1>8. ASSUME NEW q \in Requests, pc'[q] = "logout_add"
      PROVE  pc[q] = "logout_add" /\ ttl'[q] = ttl[q]
  BY <1>1, <1>2, <1>8 DEF TypeOK
<1>9. LifetimeReaches' BY <1>1, <1>4, <1>8 DEF LifetimeReaches
<1>10. LogoutLasts' BY <1>1, <1>2, <1>3, <1>4 DEF LogoutLasts, Second
<1> QED BY <1>6, <1>7, <1>9, <1>10 DEF ClockInv

LEMMA NextHolds == ASSUME ClockInv, [Next]_vars PROVE ClockInv'
<1>1. CASE UNCHANGED vars
  BY <1>1 DEF vars, ClockInv, TypeOK, Issued, LifetimeReaches, LogoutLasts, AccessExp, Second
<1>2. CASE Tick BY <1>2, TickHolds
<1>3. CASE Issue BY <1>3, IssueHolds
<1>4. ASSUME NEW r \in Requests,
             \/ Use(r) \/ Logout(r) \/ Refresh(r)
             \/ Check(r) \/ LogoutDecode(r) \/ LogoutAdd(r) \/ RefreshRow(r) \/ Answer(r)
      PROVE  ClockInv'
  BY <1>4, ArriveQuiet, WorkQuiet, QuietHolds, DecodeHolds, AddHolds
<1> QED BY <1>1, <1>2, <1>3, <1>4 DEF Next

THEOREM InvariantHolds == Spec => []ClockInv
<1>1. Init => ClockInv BY InitHolds
<1>2. ClockInv /\ [Next]_vars => ClockInv' BY NextHolds
<1> QED BY <1>1, <1>2, PTL DEF Spec

--------------------------------------------------------------------------------
\* TokenBlacklist.add: whatever the resolution of the clock, the lifetime of a
\* key is never negative nor above that of an access token.
THEOREM TypeCorrect == Spec => []TypeOK
<1>1. ClockInv => TypeOK BY DEF ClockInv
<1> QED BY <1>1, InvariantHolds, PTL

\* An access token that was logged out gets through again only in or after the
\* second its exp names, although the key's lifetime is cut to whole seconds
\* and computed some time before the key is written.
THEOREM LogoutLastsToExp == Spec => LogoutHolds
<1>1. ASSUME ClockInv, [Next]_vars, NEW r \in Requests, Passes(r, "use", "accepted"), after[r]
      PROVE  Second(now) >= AccessExp
  <2>1. TypeOK /\ Issued /\ LogoutLasts BY <1>1 DEF ClockInv
  <2>2. pc[r] = "use" /\ pc'[r] = "accepted" BY <1>1 DEF Passes
  <2>3. ~Blacklisted
    <3>1. ASSUME NEW q \in Requests,
                 \/ Use(q) \/ Logout(q) \/ Refresh(q)
                 \/ LogoutDecode(q) \/ LogoutAdd(q) \/ RefreshRow(q) \/ Answer(q)
          PROVE  FALSE
      BY <2>1, <2>2, <3>1
      DEF Use, Logout, Refresh, Arrive, LogoutDecode, LogoutAdd, RefreshRow, Answer,
          Goto, TypeOK, Verdicts
    <3>2. ~UNCHANGED vars /\ ~Tick /\ ~Issue BY <2>2 DEF vars, Tick, Issue
    <3>3. PICK q \in Requests : Check(q) BY <1>1, <3>1, <3>2 DEF Next
    <3> QED BY <2>1, <2>2, <3>3 DEF Check, Goto, TypeOK
  <2>4. logged_out /\ issued # Never BY <1>1, <2>1, <2>2 DEF LogoutLasts, Issued, InProgress
  <2>5. now \in Nat /\ Second(now) \in Nat /\ AccessExp \in Nat
    BY <2>1, <2>4, SecondTyped, ExpTyped DEF TypeOK
  <2>6. CASE gone_at \in Nat /\ Second(gone_at) >= AccessExp
    <3>1. gone_at <= now BY <2>3, <2>5, <2>6 DEF Blacklisted
    <3>2. Second(gone_at) <= Second(now) /\ Second(gone_at) \in Nat
      BY <2>5, <2>6, <3>1, SecondOrdered, SecondTyped
    <3> QED BY <2>5, <2>6, <3>2
  <2> QED BY <2>1, <2>4, <2>6 DEF LogoutLasts
<1>2. ClockInv /\ [Next]_vars =>
        [\A r \in Requests :
           Passes(r, "use", "accepted") /\ after[r] => Second(now) >= AccessExp]_vars
  BY <1>1
<1> QED BY <1>2, InvariantHolds, PTL DEF Spec, LogoutHolds

\* Whichever of several logouts of a pair writes last, the key it leaves ends in
\* or after the second that exp names, although the lifetime was computed at an
\* earlier moment than the key is written.
THEOREM KeyReaches == Spec => KeyReachesExp
<1>1. ASSUME ClockInv, [Next]_vars, gone_at' # gone_at
      PROVE  Second(gone_at') >= AccessExp
  <2>1. ASSUME NEW r \in Requests, LogoutAdd(r) PROVE Second(gone_at') >= AccessExp
    BY <1>1, <2>1, AddReaches
  <2>2. \E r \in Requests : LogoutAdd(r)
    BY <1>1 DEF Next, vars, Tick, Issue, Use, Logout, Refresh, Arrive, Check, LogoutDecode,
                RefreshRow, Answer
  <2> QED BY <2>1, <2>2
<1>2. ClockInv /\ [Next]_vars =>
        [gone_at' # gone_at => Second(gone_at') >= AccessExp]_vars
  BY <1>1
<1> QED BY <1>2, InvariantHolds, PTL DEF Spec, KeyReachesExp

\* A refresh token is good exactly until expires_at: a token whose exp claim has
\* passed is past expires_at, so that the coarser claim never decides alone.
THEOREM RefreshExact == Spec => RefreshWindowExact
<1>1. ASSUME ClockInv, [Next]_vars, NEW r \in Requests, pc'[r] # pc[r]
      PROVE  /\ pc'[r] = "refreshed" => now < ExpiresAt
             /\ pc'[r] = "too_late" => now >= ExpiresAt
  <2>1. TypeOK /\ Issued BY <1>1 DEF ClockInv
  <2>2. PICK q \in Requests :
          \/ Use(q) \/ Logout(q) \/ Refresh(q)
          \/ Check(q) \/ LogoutDecode(q) \/ LogoutAdd(q) \/ RefreshRow(q) \/ Answer(q)
    BY <1>1 DEF Next, vars, Tick, Issue
  <2>3. CASE Use(q) \/ Logout(q) \/ Check(q) \/ LogoutDecode(q) \/ LogoutAdd(q) \/ Answer(q)
    BY <1>1, <2>1, <2>3
    DEF Use, Logout, Arrive, Check, LogoutDecode, LogoutAdd, Answer, Goto, TypeOK
  <2>4. CASE Refresh(q)
    <3>1. issued # Never BY <2>4 DEF Refresh, Arrive
    <3>2. now \in Nat /\ ExpiresAt \in Nat BY <2>1, <3>1, ExpTyped DEF TypeOK
    <3>3. CASE ~Decodes(RefreshExp)
      <4>1. ~(now <= ExpiresAt)
        <5>1. Second(ExpiresAt) \in Nat /\ Second(now) \in Nat BY <3>2, SecondTyped
        <5>2. Second(ExpiresAt) < Second(now) BY <3>3, <5>1 DEF Decodes, RefreshExp
        <5> QED BY <3>2, <5>1, <5>2, SecondOrdered
      <4>2. pc'[r] = "too_late"
        BY <1>1, <2>1, <2>4, <3>3 DEF Refresh, Arrive, Goto, TypeOK
      <4> QED BY <3>2, <4>1, <4>2
    <3>4. CASE Decodes(RefreshExp)
      BY <1>1, <2>1, <2>4, <3>4 DEF Refresh, Arrive, Goto, TypeOK
    <3> QED BY <3>3, <3>4
  <2>5. CASE RefreshRow(q)
    <3>1. issued # Never BY <2>1, <2>5 DEF Issued, InProgress, RefreshRow
    <3>2. now \in Nat /\ ExpiresAt \in Nat BY <2>1, <3>1, ExpTyped DEF TypeOK
    <3>3. IF RowActive THEN pc'[r] = "refreshed" ELSE pc'[r] = "too_late"
      BY <1>1, <2>1, <2>5 DEF RefreshRow, Goto, TypeOK
    <3> QED BY <3>2, <3>3 DEF RowActive
  <2> QED BY <2>2, <2>3, <2>4, <2>5
<1>2. ClockInv /\ [Next]_vars =>
        [\A r \in Requests :
           /\ pc'[r] = "refreshed" /\ pc[r] # "refreshed" => now < ExpiresAt
           /\ pc'[r] = "too_late" /\ pc[r] # "too_late" => now >= ExpiresAt]_vars
  BY <1>1
<1> QED BY <1>2, InvariantHolds, PTL DEF Spec, RefreshWindowExact
================================================================================
