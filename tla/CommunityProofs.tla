--------------------------- MODULE CommunityProofs ---------------------------
(***************************************************************************)
(* Proofs about Community, for any accounts, teams, applications, calls in *)
(* progress and limiters that refill while they are idle.                  *)
(***************************************************************************)
EXTENDS Community, FiniteSetTheorems, TLAPS

-----------------------------------------------------------------------------
(* The limiter *)

LEMMA LongIdle ==
    ASSUME NEW r \in Nat, NEW ttl \in Nat, NEW age \in Nat, NEW b \in Nat,
           r * ttl >= b, age >= ttl
    PROVE  r * age >= b
<1>1. PICK d \in Nat : age = ttl + d
  BY SMT
<1>2. r * age = r * ttl + r * d
  BY <1>1, SMT
<1>3. r * d \in Nat /\ r * ttl \in Nat
  BY SMT
<1> QED
  BY <1>2, <1>3, SMT

LEMMA HeldRange ==
    ASSUME LimiterTypeOK, NEW l \in Limiters, NEW b \in Bucket, b.last <= clock
    PROVE  Held(l, b) \in Nat /\ Held(l, b) <= Burst[l]
<1>1. Burst[l] \in Nat /\ Refill[l] \in Nat /\ b.tokens \in Nat /\ clock - b.last \in Nat
  BY LimiterType DEF LimiterTypeOK, Bucket
<1>2. Refill[l] * (clock - b.last) \in Nat
  BY <1>1
<1> QED
  BY <1>1, <1>2 DEF Held, AtMost

\* Dropping a bucket that was idle long enough changes nothing.
LEMMA SweepUnnoticed ==
    ASSUME LimiterTypeOK, NEW l \in Limiters, NEW b \in Bucket, b.last <= clock
    PROVE  Held(l, Swept(l, b)) = Held(l, b)
<1>0. Burst[l] \in Nat /\ Refill[l] \in Nat /\ IdleTTL \in Nat /\ b.tokens \in Nat /\ clock - b.last \in Nat
  BY LimiterType DEF LimiterTypeOK, Bucket
<1>1. CASE SweepDue(l) /\ b.live /\ clock - b.last >= IdleTTL
  <2>1. Refill[l] * (clock - b.last) >= Burst[l]
    BY <1>0, <1>1, LongIdle, RefillsWhileIdle
  <2>2. b.tokens + Refill[l] * (clock - b.last) >= Burst[l]
    <3> DEFINE x == Refill[l] * (clock - b.last)
    <3>1. x \in Nat
      BY <1>0
    <3> QED
      BY <3>1, <2>1, <1>0
  <2>3. Held(l, b) = Burst[l]
    <3> DEFINE x == b.tokens + Refill[l] * (clock - b.last)
    <3>1. x \in Nat /\ x >= Burst[l]
      BY <2>2, <1>0
    <3>2. AtMost(Burst[l], x) = Burst[l]
      <4> HIDE DEF x
      <4> QED BY <3>1, <1>0 DEF AtMost
    <3> QED
      BY <3>2, <1>1 DEF Held
  <2> QED
    BY <1>1, <2>3 DEF Swept, Held, NoBucket
<1>2. CASE ~(SweepDue(l) /\ b.live /\ clock - b.last >= IdleTTL)
  BY <1>2 DEF Swept
<1> QED
  BY <1>1, <1>2

LEMMA SweptType ==
    ASSUME LimiterTypeOK, NEW l \in Limiters, NEW b \in Bucket, b.last <= clock
    PROVE  Swept(l, b) \in Bucket /\ Swept(l, b).last <= clock
BY DEF Swept, NoBucket, Bucket, LimiterTypeOK

\* What a limiter would answer is kept by a bucket over any one unit of time.
LEMMA HeldLater ==
    ASSUME LimiterTypeOK, NEW l \in Limiters, NEW b \in Bucket, b.last <= clock, Tick
    PROVE  Held(l, b)' = AtMost(Burst[l], Held(l, b) + Refill[l])
<1> DEFINE B == Burst[l]  R == Refill[l]  d == clock - b.last  x == b.tokens + R * d
<1>0. B \in Nat /\ R \in Nat /\ b.tokens \in Nat /\ d \in Nat /\ clock' - b.last = d + 1
  BY LimiterType DEF LimiterTypeOK, Bucket, Tick
<1>1. CASE b.live
  <2>1. R * (d + 1) = R * d + R
    BY <1>0
  <2>2. R * d \in Nat
    BY <1>0
  <2>3. b.tokens + R * (clock' - b.last) = x + R /\ x \in Nat
    <3> HIDE DEF B, R, d
    <3> QED BY <1>0, <2>1, <2>2
  <2>4. Held(l, b)' = AtMost(B, x + R)
    <3>1. Held(l, b)' = AtMost(B, b.tokens + R * (clock' - b.last))
      BY <1>1 DEF Held
    <3> QED BY <3>1, <2>3
  <2>5. Held(l, b) = AtMost(B, x)
    BY <1>1 DEF Held
  <2>6. AtMost(B, x + R) = AtMost(B, AtMost(B, x) + R)
    <3> HIDE DEF B, R, x
    <3> QED BY <1>0, <2>3 DEF AtMost
  <2> QED
    BY <2>4, <2>5, <2>6
<1>2. CASE ~b.live
  <2>1. Held(l, b)' = B /\ Held(l, b) = B
    BY <1>2 DEF Held
  <2> QED
    BY <2>1, <1>0 DEF AtMost
<1> QED
  BY <1>1, <1>2

LEMMA AllowStep ==
    ASSUME LimiterTypeOK, LimiterInv, NEW l \in Limiters, NEW k \in Keys, Allow(l, k)
    PROVE  LimiterTypeOK' /\ LimiterInv' /\ Buckets!Ask(l, k)
<1> DEFINE b == buckets[l][k]
           held == Held(l, Swept(l, b))
           left == IF held >= Token THEN held - Token ELSE held
           row == [x \in Keys |-> IF x = k THEN [live |-> TRUE, tokens |-> left, last |-> clock]
                                          ELSE Swept(l, buckets[l][x])]
<1>1. \A x \in Keys : buckets[l][x] \in Bucket /\ buckets[l][x].last <= clock
  BY DEF LimiterTypeOK, LimiterInv
<1>2. held \in Nat /\ held <= Burst[l] /\ held = Held(l, b)
  BY <1>1, SweptType, HeldRange, SweepUnnoticed
<1>3. left \in Nat /\ left <= Burst[l]
  <2> HIDE DEF held
  <2> QED
    BY <1>2, LimiterType
<1>4. /\ buckets' = [buckets EXCEPT ![l] = row]
      /\ lastSweep' = [lastSweep EXCEPT ![l] = IF SweepDue(l) THEN clock ELSE @]
      /\ answer' = (held >= Token)
      /\ clock' = clock
  BY DEF Allow
<1> HIDE DEF held, left
<1>5. row \in [Keys -> Bucket] /\ \A x \in Keys : row[x].last <= clock
  <2>1. \A x \in Keys : Swept(l, buckets[l][x]) \in Bucket /\ Swept(l, buckets[l][x]).last <= clock
    BY <1>1, SweptType
  <2>2. [live |-> TRUE, tokens |-> left, last |-> clock] \in Bucket
    BY <1>3 DEF Bucket, LimiterTypeOK
  <2>3. clock <= clock
    BY DEF LimiterTypeOK
  <2> QED
    BY <2>1, <2>2, <2>3
<1> HIDE DEF row
<1>6. LimiterTypeOK'
  BY <1>4, <1>5 DEF LimiterTypeOK
<1>7. LimiterInv'
  BY <1>4, <1>5 DEF LimiterTypeOK, LimiterInv
<1>8. Buckets!Ask(l, k)
  <2> DEFINE level == [i \in Limiters |-> [x \in Keys |-> Held(i, buckets[i][x])]]
             later == [i \in Limiters |-> [x \in Keys |-> Held(i, buckets'[i][x])]]
  <2>1. later = [i \in Limiters |-> [x \in Keys |-> Held(i, buckets[i][x])']]
    BY <1>4 DEF Held
  <2>2. \A i \in Limiters \ {l} : later[i] = level[i]
    BY <1>4 DEF LimiterTypeOK
  <2>3. \A x \in Keys \ {k} : Held(l, row[x]) = Held(l, buckets[l][x])
    BY <1>1, SweepUnnoticed DEF row
  <2>4. Held(l, row[k]) = left
    <3>1. row[k] = [live |-> TRUE, tokens |-> left, last |-> clock]
      BY DEF row
    <3>2. Refill[l] * (clock - clock) = 0
      BY LimiterType DEF LimiterTypeOK
    <3>3. left + Refill[l] * (clock - clock) = left
      BY <1>3, <3>2
    <3>4. AtMost(Burst[l], left) = left
      BY <1>3, LimiterType DEF AtMost
    <3> QED
      BY <3>1, <3>3, <3>4 DEF Held
  <2>5. later[l] = [x \in Keys |-> IF x = k THEN left ELSE level[l][x]]
    BY <1>4, <2>3, <2>4 DEF LimiterTypeOK
  <2>6. level[l][k] = held
    BY <1>2
  <2>7. later = IF held >= Token THEN [level EXCEPT ![l][k] = level[l][k] - Token] ELSE level
    <3>1. \A i \in Limiters : level[i] = [x \in Keys |-> level[i][x]]
      OBVIOUS
    <3> HIDE DEF later
    <3>2. later = [i \in Limiters |-> later[i]]
      BY DEF later
    <3> HIDE DEF level
    <3>3. level = [i \in Limiters |-> level[i]] /\ level[l] = [x \in Keys |-> level[l][x]]
      BY DEF level
    <3>4. CASE held >= Token
      BY <2>2, <2>5, <2>6, <3>2, <3>3, <3>4 DEF left
    <3>5. CASE ~(held >= Token)
      <4>1. later[l] = level[l]
        BY <2>5, <2>6, <3>3, <3>5 DEF left
      <4> QED
        BY <2>2, <3>2, <3>3, <3>5, <4>1
    <3> QED
      BY <3>4, <3>5
  <2> QED
    BY <1>4, <2>1, <2>6, <2>7 DEF Buckets!Ask
<1> QED
  BY <1>6, <1>7, <1>8

LEMMA TickStep ==
    ASSUME LimiterTypeOK, LimiterInv, Tick
    PROVE  LimiterTypeOK' /\ LimiterInv' /\ Buckets!Pass
<1>1. LimiterTypeOK' /\ LimiterInv'
  BY DEF Tick, LimiterTypeOK, LimiterInv, Bucket
<1>2. \A l \in Limiters, k \in Keys :
          Held(l, buckets[l][k])' = Buckets!AtMost(Burst[l], Held(l, buckets[l][k]) + Refill[l])
  <2> SUFFICES ASSUME NEW l \in Limiters, NEW k \in Keys
               PROVE  Held(l, buckets[l][k])' = AtMost(Burst[l], Held(l, buckets[l][k]) + Refill[l])
    BY DEF Buckets!AtMost, AtMost
  <2>1. PICK b : b = buckets[l][k]
    OBVIOUS
  <2>2. b \in Bucket /\ b.last <= clock
    BY <2>1 DEF LimiterTypeOK, LimiterInv
  <2>3. Held(l, b)' = AtMost(Burst[l], Held(l, b) + Refill[l])
    BY <2>2, HeldLater
  <2>4. buckets'[l][k] = b
    BY <2>1 DEF Tick
  <2> QED
    BY <2>1, <2>3, <2>4 DEF Held
<1> QED
  BY <1>1, <1>2 DEF Buckets!Pass, Tick

LEMMA RestartStep ==
    ASSUME LimiterTypeOK, LimiterRestart
    PROVE  LimiterTypeOK' /\ LimiterInv' /\ Buckets!Restarted
<1>1. LimiterTypeOK' /\ LimiterInv'
  BY DEF LimiterRestart, LimiterTypeOK, LimiterInv, Bucket, NoBucket
<1>2. \A l \in Limiters, k \in Keys : Held(l, buckets[l][k])' = Burst[l]
  BY DEF LimiterRestart, Held, NoBucket
<1> QED
  BY <1>1, <1>2 DEF Buckets!Restarted, Buckets!Full, LimiterRestart

LEMMA LimiterSteps ==
    ASSUME LimiterTypeOK, LimiterInv,
           \/ UNCHANGED limiterVars \/ Tick \/ LimiterRestart
           \/ \E l \in Limiters, k \in Keys : Allow(l, k)
    PROVE  LimiterTypeOK' /\ LimiterInv' /\ [Buckets!BucketNext]_Buckets!bucketVars
<1>1. CASE UNCHANGED limiterVars
  BY <1>1 DEF limiterVars, LimiterTypeOK, LimiterInv, Buckets!bucketVars, Held
<1>2. CASE Tick
  BY <1>2, TickStep DEF Buckets!BucketNext
<1>3. CASE LimiterRestart
  BY <1>3, RestartStep DEF Buckets!BucketNext
<1>4. CASE \E l \in Limiters, k \in Keys : Allow(l, k)
  BY <1>4, AllowStep DEF Buckets!BucketNext
<1> QED
  BY <1>1, <1>2, <1>3, <1>4

LEMMA LimiterNext ==
    ASSUME TypeOK, [Next]_vars
    PROVE  \/ UNCHANGED limiterVars \/ Tick \/ LimiterRestart
           \/ \E l \in Limiters, k \in Keys : Allow(l, k)
<1>1. CASE AccountsNext
  <2>1. ASSUME NEW c \in Calls, NEW e \in world.emails, Login(c, e) \/ Resend(c, e)
        PROVE  \E l \in Limiters, k \in Keys : Allow(l, k)
    <3>1. e \in Emails
      BY WorldsType DEF TypeOK, AccountsTypeOK, World
    <3>2. Lower[e] \in Keys /\ "login" \in Limiters /\ "resend" \in Limiters
      BY <3>1, LowerType, LimitersHere
    <3> QED
      BY <2>1, <3>2 DEF Login, Resend
  <2>2. ASSUME NEW c \in Calls, NEW e \in world.emails, Register(c, e)
        PROVE  UNCHANGED limiterVars
    BY <2>2 DEF Register
  <2>3. ASSUME NEW c \in Calls,
               RegisterOpen(c) \/ RegisterGated(c) \/ LoginRead(c) \/ LoginIssue(c) \/ ResendReset(c)
        PROVE  UNCHANGED limiterVars
    BY <2>3 DEF RegisterOpen, RegisterGated, LoginRead, LoginIssue, ResendReset
  <2>4. ASSUME NEW m, Deliver(m) \/ VerifyEmail(m) PROVE UNCHANGED limiterVars
    BY <2>4 DEF Deliver, VerifyEmail
  <2>5. ASSUME NEW e \in Emails, SetGate(e) PROVE UNCHANGED limiterVars
    BY <2>5 DEF SetGate
  <2> QED
    BY <1>1, <2>1, <2>2, <2>3, <2>4, <2>5 DEF AccountsNext, Restart, TimePasses
<1>2. CASE TeamsNext
  BY <1>2 DEF TeamsNext, Elsewhere, CreateTeam, AddMember, AddPersonal, AddInsert, RemoveMember,
              RemoveRole, RemoveCount, RemoveDelete, DeleteTeam, TeamApps, TeamDelete, CreateApp,
              AppInsert, DeleteApp, AppDelete
<1>3. CASE UNCHANGED vars
  BY <1>3 DEF vars, limiterVars
<1> QED
  BY <1>1, <1>2, <1>3 DEF Next

-----------------------------------------------------------------------------
(* What a call carries keeps holding *)

\* Accounts, excuses and proofs are never taken back; a team is personal or
\* not from its first row; an owner is made with the team.
Grows ==
    /\ \A e \in Emails : users[e].there => users'[e].there
    /\ proved \subseteq proved' /\ lax \subseteq lax'
    /\ \A t \in TeamIds : teams[t] # Unused =>
          /\ teams'[t] # Unused /\ (teams'[t] = "personal" => teams[t] = "personal")
          /\ \A e \in Emails : members[t][e] # "owner" => members'[t][e] # "owner"
    /\ \A a \in AppIds : appTeam[a] # Unused => appTeam'[a] # Unused

LEMMA SoundKept ==
    ASSUME NEW q, Sound(q), Grows
    PROVE  Sound(q)'
BY DEF Sound, Grows, OnAccount, OnTeam, PastPersonal

LEMMA NoCallSound == NoCall \in Call /\ Sound(NoCall)
BY DEF NoCall, Call, PcNames, Sound, OnAccount, OnTeam, PastPersonal

LEMMA CallStep ==
    ASSUME TypeOK, CallInv, Grows, NEW c \in Calls, NEW q \in Call, Sound(q),
           calls' = [calls EXCEPT ![c] = q]
    PROVE  calls' \in [Calls -> Call] /\ CallInv'
<1>1. calls \in [Calls -> Call]
  BY DEF TypeOK, AccountsTypeOK
<1>2. ASSUME NEW x \in Calls PROVE Sound(calls[x])'
  <2>1. PICK r : r = calls'[x]
    OBVIOUS
  <2>2. Sound(r)
    BY <1>1, <2>1 DEF CallInv
  <2>3. Sound(r)'
    BY <2>2, SoundKept
  <2> QED
    BY <2>1, <2>3 DEF Sound
<1> QED
  BY <1>1, <1>2 DEF CallInv

LEMMA ReturnStep ==
    ASSUME TypeOK, CallInv, Grows, NEW c \in Calls, Return(c)
    PROVE  calls' \in [Calls -> Call] /\ CallInv'
BY CallStep, NoCallSound DEF Return

LEMMA SameCallsStep ==
    ASSUME TypeOK, CallInv, Grows, UNCHANGED calls
    PROVE  calls' \in [Calls -> Call] /\ CallInv'
<1>1. ASSUME NEW x \in Calls PROVE Sound(calls[x])'
  <2>1. PICK r : r = calls[x]
    OBVIOUS
  <2>2. Sound(r)'
    BY <2>1, SoundKept DEF CallInv
  <2> QED
    BY <2>1, <2>2 DEF Sound
<1> QED
  BY <1>1 DEF CallInv, TypeOK, AccountsTypeOK

LEMMA SameTablesGrow ==
    ASSUME UNCHANGED <<tableVars, historyVars>>
    PROVE  Grows
BY DEF Grows, tableVars, historyVars

-----------------------------------------------------------------------------
(* Steps that leave the accounts, or the teams, alone *)

LEMMA AccountsKept ==
    ASSUME AccountInv, UNCHANGED <<gate, users, mailVars, sessions, historyVars>>
    PROVE  AccountInv'
BY DEF AccountInv, LinkInv, NewestInv, ProvedInv, SessionInv, GateHeld, TokenIffUnverified, Accounts,
       mailVars, historyVars

LEMMA TeamsKept ==
    ASSUME TypeOK, TeamInv, UNCHANGED <<teams, members, appTeam>>,
           \A e \in Emails : users[e].there => users'[e].there
    PROVE  TeamsTypeOK' /\ TeamInv'
<1>1. TeamsTypeOK'
  BY DEF TypeOK, TeamsTypeOK
<1>2. Accounts \subseteq Accounts'
  BY DEF Accounts
<1> HIDE DEF Accounts
<1>3. OneOwner'
  BY <1>2 DEF TeamInv, OneOwner, Stands, IsMember
<1>4. AppsHaveTeam'
  BY DEF TeamInv, AppsHaveTeam, Stands, IsApp
<1> QED
  BY <1>1, <1>3, <1>4 DEF TeamInv

\* Steps of one request that change nothing but the request.
LEMMA LocalStep ==
    ASSUME IInv, LimiterTypeOK', LimiterInv', NEW c \in Calls, NEW q \in Call, Sound(q),
           calls' = [calls EXCEPT ![c] = q],
           UNCHANGED <<world, gate, tableVars, mailVars, sessions, historyVars>>
    PROVE  IInv'
<1>1. calls' \in [Calls -> Call] /\ CallInv'
  BY CallStep, SameTablesGrow DEF IInv
<1>2. TeamsTypeOK' /\ TeamInv'
  BY TeamsKept DEF IInv, tableVars
<1>3. AccountInv'
  BY AccountsKept DEF IInv, tableVars
<1>4. AccountsTypeOK'
  BY <1>1 DEF IInv, TypeOK, AccountsTypeOK, tableVars, mailVars, historyVars
<1> QED
  BY <1>1, <1>2, <1>3, <1>4 DEF IInv, TypeOK

\* A request that was refused, and time.
LEMMA NothingStep ==
    ASSUME IInv, LimiterTypeOK', LimiterInv',
           UNCHANGED <<world, gate, tableVars, mailVars, sessions, calls, historyVars>>
    PROVE  IInv'
<1>1. calls' \in [Calls -> Call] /\ CallInv'
  BY SameCallsStep, SameTablesGrow DEF IInv
<1>2. TeamsTypeOK' /\ TeamInv'
  BY TeamsKept DEF IInv, tableVars
<1>3. AccountInv'
  BY AccountsKept DEF IInv, tableVars
<1>4. AccountsTypeOK'
  BY <1>1 DEF IInv, TypeOK, AccountsTypeOK, tableVars, mailVars, historyVars
<1> QED
  BY <1>1, <1>2, <1>3, <1>4 DEF IInv, TypeOK

\* A request that ends having changed nothing.
LEMMA RefusedStep ==
    ASSUME IInv, LimiterTypeOK', LimiterInv', NEW c \in Calls, Return(c),
           UNCHANGED <<world, gate, tableVars, mailVars, sessions, historyVars>>
    PROVE  IInv'
BY LocalStep, NoCallSound DEF Return

-----------------------------------------------------------------------------
(* The initial states *)

LEMMA Initially == Init => IInv
<1> SUFFICES ASSUME Init PROVE IInv
  OBVIOUS
<1>1. LimiterTypeOK /\ LimiterInv
  BY LimiterType DEF Init, LimiterInit, LimiterTypeOK, LimiterInv, Bucket, NoBucket
<1>2. TypeOK
  BY <1>1, NoCallSound DEF Init, TypeOK, AccountsTypeOK, TeamsTypeOK, Kinds, UserRow, NoUser
<1>3. CallInv
  BY NoCallSound DEF Init, CallInv
<1>4. Accounts = {}
  BY DEF Init, Accounts, NoUser
<1>5. LinkInv /\ NewestInv /\ ProvedInv /\ SessionInv /\ GateHeld /\ TokenIffUnverified
  BY <1>4 DEF Init, LinkInv, NewestInv, ProvedInv, SessionInv, GateHeld, TokenIffUnverified, NoUser
<1>6. OneOwner
  BY DEF Init, OneOwner, Stands, IsMember, Unused
<1>7. AppsHaveTeam
  <2>1. "unused" \notin TeamIds
    BY UnusedIsNoTeam DEF Unused, Gone
  <2> QED
    BY <2>1 DEF Init, AppsHaveTeam, IsApp, Unused
<1> QED
  BY <1>1, <1>2, <1>3, <1>5, <1>6, <1>7 DEF IInv, AccountInv, TeamInv

-----------------------------------------------------------------------------
(* Requests on their way: every step of a handler that only reads *)

LEMMA AccountReads ==
    ASSUME IInv, LimiterTypeOK', LimiterInv', NEW c \in Calls, NEW e \in world.emails,
           Register(c, e) \/ Login(c, e) \/ Resend(c, e)
    PROVE  IInv'
<1>0. e \in Emails
  BY WorldsType DEF IInv, TypeOK, AccountsTypeOK, World
<1>1. UNCHANGED <<world, gate, tableVars, mailVars, sessions, historyVars>>
  BY DEF Register, Login, Resend
<1>2. CASE UNCHANGED calls
  BY <1>1, <1>2, NothingStep
<1>3. ASSUME NEW pc \in {"register.gated", "register.open", "login.read", "resend.reset"},
             NEW op \in AccountOps,
             calls' = [calls EXCEPT ![c] = [[NoCall EXCEPT !.target = e, !.pc = pc] EXCEPT !.op = op]]
      PROVE  IInv'
  <2> DEFINE q == [[NoCall EXCEPT !.target = e, !.pc = pc] EXCEPT !.op = op]
  <2>1. q \in Call /\ q.pc = pc /\ q.target = e
    BY <1>0 DEF NoCall, Call, PcNames
  <2>2. Sound(q)
    <3> HIDE DEF q
    <3> QED
      BY <1>0, <2>1 DEF Sound, OnAccount, OnTeam, PastPersonal
  <2> HIDE DEF q
  <2>3. calls' = [calls EXCEPT ![c] = q]
    BY <1>3 DEF q
  <2> QED
    BY <1>1, <2>1, <2>2, <2>3, LocalStep
<1>4. CASE Register(c, e)
  BY <1>3, <1>4 DEF Register, Enters, AccountOps
<1>5. CASE Login(c, e)
  BY <1>2, <1>3, <1>5 DEF Login, Enters, AccountOps
<1>6. CASE Resend(c, e)
  BY <1>2, <1>3, <1>6 DEF Resend, Enters, AccountOps
<1> QED
  BY <1>4, <1>5, <1>6

LEMMA LoginReadStep ==
    ASSUME IInv, LimiterTypeOK', LimiterInv', NEW c \in Calls, LoginRead(c)
    PROVE  IInv'
<1>1. UNCHANGED <<world, gate, tableVars, mailVars, sessions, historyVars>>
  BY DEF LoginRead
<1>2. CASE Return(c)
  BY <1>1, <1>2, RefusedStep
<1> DEFINE e == calls[c].target
           q == [calls[c] EXCEPT !.pc = "login.issue", !.verified = users[e].verified]
<1>3. CASE users[e].there /\ calls' = [calls EXCEPT ![c] = q]
  <2>1. e \in Emails /\ calls[c] \in Call /\ users[e].verified \in BOOLEAN
    BY DEF IInv, CallInv, Sound, OnAccount, LoginRead, At, TypeOK, AccountsTypeOK, UserRow
  <2>2. /\ q \in Call /\ q.pc = "login.issue" /\ q.target = e
        /\ q.verified = users[e].verified
    BY <2>1 DEF Call, PcNames
  <2>3. users[e].verified => e \in proved \cup lax
    BY <1>3, <2>1 DEF IInv, AccountInv, ProvedInv, Accounts
  <2> HIDE DEF q, e
  <2>4. Sound(q)
    BY <1>3, <2>1, <2>2, <2>3 DEF Sound, OnAccount, OnTeam, PastPersonal
  <2> QED
    BY <1>1, <1>3, <2>2, <2>4, LocalStep
<1> QED
  BY <1>2, <1>3 DEF LoginRead

\* The handlers of teams and applications start.
LEMMA TeamStarts ==
    ASSUME IInv, LimiterTypeOK', LimiterInv', NEW c \in Calls, NEW e \in world.emails,
           \/ \E t \in TeamIds :
                 \/ DeleteTeam(c, e, t) \/ CreateApp(c, e, t)
                 \/ \E target \in world.emails : AddMember(c, e, t, target) \/ RemoveMember(c, e, t, target)
           \/ \E a \in AppIds : DeleteApp(c, e, a)
    PROVE  IInv'
<1>0. world.emails \subseteq Emails
  BY WorldsType DEF IInv, TypeOK, AccountsTypeOK, World
<1>1. UNCHANGED <<world, gate, tableVars, mailVars, sessions, historyVars>>
  BY DEF DeleteTeam, CreateApp, AddMember, RemoveMember, DeleteApp, Elsewhere
<1>2. ASSUME NEW t \in TeamIds, members[t][e] # "none" PROVE teams[t] # Unused
  BY <1>0, <1>2 DEF IInv, TeamInv, OneOwner, Stands, IsMember, Unused
<1>3. ASSUME NEW q \in Call, q.team \in TeamIds, teams[q.team] # Unused,
             q.pc \in {"add.personal", "remove.role", "team.apps", "app.insert"},
             q.pc \in {"add.personal", "remove.role"} => q.target \in Emails,
             calls' = [calls EXCEPT ![c] = q]
      PROVE  IInv'
  <2>1. Sound(q)
    BY <1>3 DEF Sound, OnAccount, OnTeam, PastPersonal
  <2> QED
    BY <1>1, <1>3, <2>1, LocalStep
<1>4. ASSUME NEW t \in TeamIds, DeleteTeam(c, e, t) PROVE IInv'
  <2> DEFINE q == [[[[NoCall EXCEPT !.pc = "team.apps"] EXCEPT !.team = t] EXCEPT !.user = e] EXCEPT !.op = "deleteTeam"]
  <2>1. q \in Call /\ q.pc = "team.apps" /\ q.team = t
    BY <1>0 DEF NoCall, Call, PcNames, TeamOps
  <2>2. calls' = [calls EXCEPT ![c] = q] /\ members[t][e] # "none"
    BY <1>4 DEF DeleteTeam, OwnerCall, TeamCall, Enters
  <2> HIDE DEF q
  <2> QED
    BY <1>2, <1>3, <2>1, <2>2
<1>5. ASSUME NEW t \in TeamIds, CreateApp(c, e, t) PROVE IInv'
  <2> DEFINE q == [[[NoCall EXCEPT !.pc = "app.insert", !.team = t] EXCEPT !.user = e] EXCEPT !.op = "createApp"]
  <2>1. q \in Call /\ q.pc = "app.insert" /\ q.team = t
    BY <1>0 DEF NoCall, Call, PcNames, TeamOps
  <2>2. calls' = [calls EXCEPT ![c] = q] /\ members[t][e] # "none"
    BY <1>5 DEF CreateApp, TeamCall, Enters, IsMember
  <2> HIDE DEF q
  <2> QED
    BY <1>2, <1>3, <2>1, <2>2
<1>6. ASSUME NEW t \in TeamIds, NEW target \in world.emails, AddMember(c, e, t, target) PROVE IInv'
  <2> DEFINE q == [[[[NoCall EXCEPT !.pc = "add.personal", !.target = target] EXCEPT !.team = t]
                    EXCEPT !.user = e] EXCEPT !.op = "addMember"]
  <2>1. q \in Call /\ q.pc = "add.personal" /\ q.team = t /\ q.target = target
    BY <1>0 DEF NoCall, Call, PcNames, TeamOps
  <2>2. calls' = [calls EXCEPT ![c] = q] /\ members[t][e] # "none"
    BY <1>6 DEF AddMember, OwnerCall, TeamCall, Enters
  <2> HIDE DEF q
  <2> QED
    BY <1>0, <1>2, <1>3, <2>1, <2>2
<1>7. ASSUME NEW t \in TeamIds, NEW target \in world.emails, RemoveMember(c, e, t, target) PROVE IInv'
  <2> DEFINE q == [[[[NoCall EXCEPT !.pc = "remove.role", !.target = target] EXCEPT !.team = t]
                    EXCEPT !.user = e] EXCEPT !.op = "removeMember"]
  <2>1. q \in Call /\ q.pc = "remove.role" /\ q.team = t /\ q.target = target
    BY <1>0 DEF NoCall, Call, PcNames, TeamOps
  <2>2. calls' = [calls EXCEPT ![c] = q] /\ members[t][e] # "none"
    BY <1>7 DEF RemoveMember, OwnerCall, TeamCall, Enters
  <2> HIDE DEF q
  <2> QED
    BY <1>0, <1>2, <1>3, <2>1, <2>2
<1>8. ASSUME NEW a \in AppIds, DeleteApp(c, e, a) PROVE IInv'
  <2> DEFINE q == [NoCall EXCEPT !.pc = "app.delete", !.app = a, !.user = e, !.op = "deleteApp"]
  <2>1. q \in Call /\ q.pc = "app.delete" /\ q.app = a /\ calls' = [calls EXCEPT ![c] = q]
    BY <1>0, <1>8 DEF NoCall, Call, PcNames, DeleteApp, TeamCall, Enters, TeamOps
  <2> HIDE DEF q
  <2>2. appTeam[a] # Unused
    BY <1>8, UnusedIsNoTeam DEF DeleteApp, IsMemberOfApp, IsApp, Unused
  <2>3. Sound(q)
    BY <2>1, <2>2 DEF Sound, OnAccount, OnTeam, PastPersonal
  <2> QED
    BY <1>1, <2>1, <2>3, LocalStep
<1> QED
  BY <1>4, <1>5, <1>6, <1>7, <1>8

LEMMA TeamReads ==
    ASSUME IInv, LimiterTypeOK', LimiterInv', NEW c \in Calls,
           AddPersonal(c) \/ RemoveRole(c) \/ RemoveCount(c) \/ TeamApps(c)
    PROVE  IInv'
<1> DEFINE old == calls[c]  t == old.team  e == old.target
<1>0. old \in Call /\ Sound(old) /\ t \in TeamIds
  BY DEF IInv, TypeOK, AccountsTypeOK, CallInv, Sound, OnTeam, AddPersonal, RemoveRole, RemoveCount,
         TeamApps, At
<1>1. UNCHANGED <<world, gate, tableVars, mailVars, sessions, historyVars>>
  BY DEF AddPersonal, RemoveRole, RemoveCount, TeamApps, Elsewhere
<1>2. CASE Return(c)
  BY <1>1, <1>2, RefusedStep
<1>3. ASSUME NEW pc \in {"add.insert", "remove.count", "remove.delete", "team.delete"}, Goto(c, pc),
             teams[t] # "personal", pc # "team.delete" => e \in Emails,
             pc = "add.insert" => users[e].there,
             pc = "remove.delete" => members[t][e] # "owner",
             teams[t] # Unused
      PROVE  IInv'
  <2> DEFINE q == [old EXCEPT !.pc = pc]
  <2>1. q \in Call /\ q.pc = pc /\ q.team = t /\ q.target = e /\ calls' = [calls EXCEPT ![c] = q]
    BY <1>0, <1>3 DEF Call, PcNames, Goto
  <2> HIDE DEF q, t, e
  <2>2. Sound(q)
    BY <1>0, <1>3, <2>1 DEF Sound, OnAccount, OnTeam, PastPersonal
  <2> QED
    BY <1>1, <2>1, <2>2, LocalStep
<1>4. teams[t] # Unused
  BY <1>0 DEF Sound, OnTeam, AddPersonal, RemoveRole, RemoveCount, TeamApps, At
<1>5. CASE AddPersonal(c)
  <2>1. e \in Emails
    BY <1>0, <1>5 DEF AddPersonal, At, Sound, OnAccount
  <2> QED
    BY <1>2, <1>3, <1>4, <1>5, <2>1 DEF AddPersonal
<1>6. CASE RemoveRole(c)
  <2>1. e \in Emails
    BY <1>0, <1>6 DEF RemoveRole, At, Sound, OnAccount
  <2> QED
    BY <1>2, <1>3, <1>4, <1>6, <2>1 DEF RemoveRole
<1>7. CASE RemoveCount(c)
  <2>1. teams[t] # "personal"
    BY <1>0, <1>7 DEF RemoveCount, At, Sound, PastPersonal
  <2>2. Cardinality(Owners(t)) <= 1
    <3>1. CASE Stands(t)
      <4>1. PICK x \in Accounts : \A y \in Emails : members[t][y] = "owner" <=> y = x
        BY <1>0, <3>1 DEF IInv, TeamInv, OneOwner
      <4>2. Owners(t) = {x}
        BY <4>1 DEF Owners, Accounts
      <4>3. Cardinality({x}) = 1
        BY FS_Singleton
      <4> QED
        BY <4>2, <4>3
    <3>2. CASE ~Stands(t)
      <4>1. Owners(t) = {}
        BY <1>0, <3>2 DEF IInv, TeamInv, OneOwner, IsMember, Owners
      <4> QED
        BY <4>1, FS_EmptySet
    <3> QED
      BY <3>1, <3>2
  <2> QED
    BY <1>2, <1>7, <2>2 DEF RemoveCount
<1>8. CASE TeamApps(c)
  BY <1>2, <1>3, <1>4, <1>8 DEF TeamApps
<1> QED
  BY <1>5, <1>6, <1>7, <1>8

-----------------------------------------------------------------------------
(* Steps that write the tables of teams *)

\* What they have in common: the accounts stay as they are.
LEMMA TeamWrite ==
    ASSUME IInv, LimiterTypeOK', LimiterInv',
           UNCHANGED <<world, gate, users, mailVars, sessions, historyVars>>,
           calls' \in [Calls -> Call], CallInv', TeamsTypeOK', TeamInv'
    PROVE  IInv'
<1>1. AccountInv'
  BY AccountsKept DEF IInv
<1>2. AccountsTypeOK'
  BY DEF IInv, TypeOK, AccountsTypeOK, mailVars, historyVars
<1> QED
  BY <1>1, <1>2 DEF IInv, TypeOK

\* A new team has its owner, who has an account.
LEMMA NewTeam ==
    ASSUME TypeOK, TeamInv, NEW e \in Emails, NEW kind \in {"personal", "shared"},
           InsertTeam(e, kind), UNCHANGED appTeam, users'[e].there,
           \A x \in Emails : users[x].there => users'[x].there
    PROVE  /\ TeamsTypeOK' /\ TeamInv'
           /\ \A t \in TeamIds : teams[t] # Unused => teams'[t] = teams[t] /\ members'[t] = members[t]
<1>1. PICK t \in TeamIds : /\ teams[t] = Unused
                           /\ teams' = [teams EXCEPT ![t] = kind]
                           /\ members' = [members EXCEPT ![t][e] = "owner"]
  BY DEF InsertTeam
<1>2. TeamsTypeOK'
  BY <1>1 DEF TypeOK, TeamsTypeOK, Kinds
<1>3. \A x \in Emails : members[t][x] = "none"
  BY <1>1 DEF TeamInv, OneOwner, Stands, IsMember, Unused
<1>4. /\ teams'[t] = kind /\ \A x \in Emails : members'[t][x] = IF x = e THEN "owner" ELSE "none"
      /\ \A s \in TeamIds \ {t} : teams'[s] = teams[s] /\ members'[s] = members[s]
  BY <1>1, <1>3 DEF TypeOK, TeamsTypeOK
<1>5. Accounts \subseteq Accounts' /\ e \in Accounts'
  BY DEF Accounts
<1> HIDE DEF Accounts
<1>6. OneOwner'
  <2> SUFFICES ASSUME NEW s \in TeamIds
               PROVE  (/\ Stands(s) => \E x \in Accounts : \A y \in Emails : members[s][y] = "owner" <=> y = x
                       /\ ~Stands(s) => \A x \in Emails : ~IsMember(x, s)
                       /\ teams[s] = "personal" => \A x \in Emails : members[s][x] # "member")'
    BY DEF OneOwner
  <2>1. CASE s = t
    BY <1>4, <1>5, <2>1 DEF Stands
  <2>2. CASE s # t
    BY <1>4, <1>5, <2>2 DEF TeamInv, OneOwner, Stands, IsMember
  <2> QED
    BY <2>1, <2>2
<1>7. AppsHaveTeam'
  BY <1>1, <1>4 DEF TeamInv, AppsHaveTeam, IsApp, Stands, Unused
<1> QED
  BY <1>1, <1>2, <1>4, <1>6, <1>7 DEF TeamInv

LEMMA CreateTeamStep ==
    ASSUME IInv, LimiterTypeOK', LimiterInv', NEW e \in world.emails, CreateTeam(e)
    PROVE  IInv'
<1>1. e \in Emails
  BY WorldsType DEF IInv, TypeOK, AccountsTypeOK, World
<1>2. users[e].there
  BY <1>1 DEF CreateTeam, SignedIn, IInv, AccountInv, SessionInv
<1>3. /\ TeamsTypeOK' /\ TeamInv'
      /\ \A t \in TeamIds : teams[t] # Unused => teams'[t] = teams[t] /\ members'[t] = members[t]
  BY <1>1, <1>2, NewTeam DEF CreateTeam, IInv
<1>4. Grows
  BY <1>3 DEF Grows, CreateTeam, Elsewhere, historyVars
<1> QED
  BY <1>3, <1>4, SameCallsStep, TeamWrite DEF CreateTeam, Elsewhere, IInv

LEMMA AddInsertStep ==
    ASSUME IInv, LimiterTypeOK', LimiterInv', NEW c \in Calls, AddInsert(c)
    PROVE  IInv'
<1> DEFINE t == calls[c].team  e == calls[c].target
<1>1. t \in TeamIds /\ e \in Emails /\ teams[t] # "personal"
  BY DEF IInv, CallInv, Sound, OnTeam, OnAccount, PastPersonal, AddInsert, At
<1> HIDE DEF t, e
<1>2. CASE UNCHANGED members
  BY <1>2, RefusedStep DEF AddInsert, Elsewhere, tableVars
<1>3. CASE Stands(t) /\ ~IsMember(e, t) /\ members' = [members EXCEPT ![t][e] = "member"]
  <2>1. /\ members \in [TeamIds -> [Emails -> {"none", "member", "owner"}]]
        /\ UNCHANGED <<users, teams, appTeam>> /\ Elsewhere
    BY DEF IInv, TypeOK, TeamsTypeOK, AddInsert
  <2>2. \A s \in TeamIds, x \in Emails :
            members'[s][x] = IF s = t /\ x = e THEN "member" ELSE members[s][x]
    BY <1>1, <1>3, <2>1
  <2>3. members[t][e] = "none"
    BY <1>3 DEF IsMember
  <2>4. \A s \in TeamIds, x \in Emails : members'[s][x] = "owner" <=> members[s][x] = "owner"
    BY <2>2, <2>3
  <2>5. TeamsTypeOK'
    BY <1>1, <1>3, <2>1 DEF IInv, TypeOK, TeamsTypeOK
  <2>6. OneOwner'
    BY <1>1, <1>3, <2>1, <2>2, <2>4 DEF IInv, TeamInv, OneOwner, Stands, IsMember, Accounts
  <2>7. AppsHaveTeam'
    BY <2>1 DEF IInv, TeamInv, AppsHaveTeam, Stands, IsApp
  <2>8. Grows
    BY <2>1, <2>4 DEF Grows, Elsewhere, historyVars
  <2> QED
    BY <2>1, <2>5, <2>6, <2>7, <2>8, ReturnStep, TeamWrite DEF AddInsert, Elsewhere, IInv, TeamInv
<1> QED
  BY <1>2, <1>3 DEF AddInsert, t, e

LEMMA RemoveDeleteStep ==
    ASSUME IInv, LimiterTypeOK', LimiterInv', NEW c \in Calls, RemoveDelete(c)
    PROVE  IInv'
<1> DEFINE t == calls[c].team  e == calls[c].target
<1>1. t \in TeamIds /\ e \in Emails /\ members[t][e] # "owner"
  BY DEF IInv, CallInv, Sound, OnTeam, OnAccount, RemoveDelete, At
<1>2. members' = [members EXCEPT ![t][e] = "none"]
  BY DEF RemoveDelete
<1> HIDE DEF t, e
<1>3. /\ members \in [TeamIds -> [Emails -> {"none", "member", "owner"}]]
      /\ UNCHANGED <<users, teams, appTeam>> /\ Elsewhere
  BY DEF IInv, TypeOK, TeamsTypeOK, RemoveDelete
<1>4. \A s \in TeamIds, x \in Emails :
          members'[s][x] = IF s = t /\ x = e THEN "none" ELSE members[s][x]
  BY <1>1, <1>2, <1>3
<1>5. \A s \in TeamIds, x \in Emails : members'[s][x] = "owner" <=> members[s][x] = "owner"
  BY <1>1, <1>4
<1>6. TeamsTypeOK'
  BY <1>1, <1>2, <1>3 DEF IInv, TypeOK, TeamsTypeOK
<1>7. OneOwner'
  BY <1>1, <1>3, <1>4, <1>5 DEF IInv, TeamInv, OneOwner, Stands, IsMember, Accounts
<1>8. AppsHaveTeam'
  BY <1>3 DEF IInv, TeamInv, AppsHaveTeam, Stands, IsApp
<1>9. Grows
  BY <1>3, <1>5 DEF Grows, Elsewhere, historyVars
<1> QED
  BY <1>3, <1>6, <1>7, <1>8, <1>9, ReturnStep, TeamWrite DEF RemoveDelete, Elsewhere, IInv, TeamInv

LEMMA TeamDeleteStep ==
    ASSUME IInv, LimiterTypeOK', LimiterInv', NEW c \in Calls, TeamDelete(c)
    PROVE  IInv'
<1> DEFINE t == calls[c].team
<1>1. t \in TeamIds /\ teams[t] # Unused
  BY DEF IInv, CallInv, Sound, OnTeam, TeamDelete, At
<1> HIDE DEF t
<1>2. CASE UNCHANGED <<teams, members>>
  BY <1>2, RefusedStep DEF TeamDelete, Elsewhere, tableVars
<1>3. CASE /\ AppsOf(t) = {} /\ teams' = [teams EXCEPT ![t] = Gone]
           /\ members' = [members EXCEPT ![t] = [e \in Emails |-> "none"]]
  <2>1. UNCHANGED <<users, appTeam>> /\ Elsewhere
    BY DEF TeamDelete
  <2>2. /\ teams'[t] = Gone /\ \A x \in Emails : members'[t][x] = "none"
        /\ \A s \in TeamIds \ {t} : teams'[s] = teams[s] /\ members'[s] = members[s]
    BY <1>1, <1>3 DEF IInv, TypeOK, TeamsTypeOK
  <2>3. TeamsTypeOK'
    BY <1>1, <1>3, <2>1 DEF IInv, TypeOK, TeamsTypeOK, Kinds
  <2>4. OneOwner'
    <3>1. Accounts' = Accounts
      BY <2>1 DEF Accounts
    <3> HIDE DEF Accounts
    <3> QED
      BY <2>2, <3>1 DEF IInv, TeamInv, OneOwner, Stands, IsMember, Gone
  <2>5. AppsHaveTeam'
    BY <1>3, <2>1, <2>2 DEF IInv, TeamInv, AppsHaveTeam, AppsOf, Stands, IsApp
  <2>6. Grows
    BY <2>1, <2>2 DEF Grows, Elsewhere, historyVars, Gone, Unused
  <2> QED
    BY <2>1, <2>3, <2>4, <2>5, <2>6, ReturnStep, TeamWrite DEF TeamDelete, Elsewhere, IInv, TeamInv
<1> QED
  BY <1>2, <1>3 DEF TeamDelete, t

LEMMA AppInsertStep ==
    ASSUME IInv, LimiterTypeOK', LimiterInv', NEW c \in Calls, AppInsert(c)
    PROVE  IInv'
<1> DEFINE t == calls[c].team
<1>1. t \in TeamIds
  BY DEF IInv, CallInv, Sound, OnTeam, AppInsert, At
<1> HIDE DEF t
<1>2. CASE UNCHANGED appTeam
  BY <1>2, RefusedStep DEF AppInsert, Elsewhere, tableVars
<1>3. ASSUME NEW a \in AppIds, Stands(t), appTeam[a] = Unused, appTeam' = [appTeam EXCEPT ![a] = t]
      PROVE  IInv'
  <2>1. UNCHANGED <<users, teams, members>> /\ Elsewhere
    BY DEF AppInsert
  <2>2. TeamsTypeOK'
    BY <1>1, <1>3, <2>1 DEF IInv, TypeOK, TeamsTypeOK
  <2>3. OneOwner'
    <3>1. Accounts' = Accounts
      BY <2>1 DEF Accounts
    <3> HIDE DEF Accounts
    <3> QED
      BY <2>1, <3>1 DEF IInv, TeamInv, OneOwner, Stands, IsMember
  <2>4. AppsHaveTeam'
    BY <1>1, <1>3, <2>1 DEF IInv, TypeOK, TeamsTypeOK, TeamInv, AppsHaveTeam, Stands, IsApp
  <2>5. Grows
    <3>1. t # Unused
      BY <1>1, UnusedIsNoTeam DEF Unused
    <3> QED
      BY <1>3, <2>1, <3>1 DEF Grows, Elsewhere, historyVars, IInv, TypeOK, TeamsTypeOK
  <2> QED
    BY <2>1, <2>2, <2>3, <2>4, <2>5, ReturnStep, TeamWrite DEF AppInsert, Elsewhere, IInv, TeamInv
<1> QED
  BY <1>2, <1>3 DEF AppInsert, t

LEMMA AppDeleteStep ==
    ASSUME IInv, LimiterTypeOK', LimiterInv', NEW c \in Calls, AppDelete(c)
    PROVE  IInv'
<1> DEFINE a == calls[c].app
<1>1. a \in AppIds
  BY DEF IInv, CallInv, Sound, AppDelete, At
<1>2. /\ appTeam' = [appTeam EXCEPT ![a] = Gone]
      /\ UNCHANGED <<users, teams, members>> /\ Elsewhere
  BY DEF AppDelete
<1> HIDE DEF a
<1>3. TeamsTypeOK'
  BY <1>1, <1>2 DEF IInv, TypeOK, TeamsTypeOK
<1>4. OneOwner'
  <2>1. Accounts' = Accounts
    BY <1>2 DEF Accounts
  <2> HIDE DEF Accounts
  <2> QED
    BY <1>2, <2>1 DEF IInv, TeamInv, OneOwner, Stands, IsMember
<1>5. AppsHaveTeam'
  BY <1>1, <1>2, UnusedIsNoTeam DEF IInv, TypeOK, TeamsTypeOK, TeamInv, AppsHaveTeam, Stands, IsApp, Gone
<1>6. Grows
  BY <1>1, <1>2 DEF Grows, Elsewhere, historyVars, IInv, TypeOK, TeamsTypeOK, Gone, Unused
<1> QED
  BY <1>2, <1>3, <1>4, <1>5, <1>6, ReturnStep, TeamWrite DEF AppDelete, Elsewhere, IInv, TeamInv

-----------------------------------------------------------------------------
(* Steps that write the accounts *)

\* A step that ends with the types of the accounts, and their invariant.
LEMMA AccountWrite ==
    ASSUME LimiterTypeOK', LimiterInv', world' = world, world \in Worlds, gate' \in BOOLEAN,
           users' \in [Emails -> UserRow], nextToken' \in Nat \ {0}, outbox' \subseteq Link,
           inbox' \subseteq Link, sessions' \subseteq Session, proved' \subseteq Emails,
           lax' \subseteq Emails, calls' \in [Calls -> Call], CallInv', TeamsTypeOK', TeamInv',
           AccountInv'
    PROVE  IInv'
BY DEF IInv, TypeOK, AccountsTypeOK

LEMMA SessionType ==
    ASSUME TypeOK, NEW e \in Emails
    PROVE  [user |-> e, expires |-> clock + SessionTTL] \in Session
BY TTLType DEF TypeOK, AccountsTypeOK, LimiterTypeOK, Session

\* A new account, with whatever row: the tables of teams and the requests.
LEMMA NewAccount ==
    ASSUME IInv, NEW c \in Calls, NEW e \in Emails, NEW row \in UserRow, row.there,
           InsertAccount(e, row), Return(c), proved' = proved, lax \subseteq lax'
    PROVE  /\ users' = [users EXCEPT ![e] = row] /\ users' \in [Emails -> UserRow]
           /\ ~users[e].there /\ Accounts' = Accounts \cup {e}
           /\ TeamsTypeOK' /\ TeamInv' /\ calls' \in [Calls -> Call] /\ CallInv'
<1>1. /\ users \in [Emails -> UserRow] /\ ~users[e].there
      /\ users' = [users EXCEPT ![e] = row] /\ InsertTeam(e, "personal") /\ UNCHANGED appTeam
  BY DEF IInv, TypeOK, AccountsTypeOK, InsertAccount
<1>2. users'[e].there /\ \A x \in Emails : users[x].there => users'[x].there
  BY <1>1
<1>3. /\ TeamsTypeOK' /\ TeamInv'
      /\ \A t \in TeamIds : teams[t] # Unused => teams'[t] = teams[t] /\ members'[t] = members[t]
  BY <1>1, <1>2, NewTeam DEF IInv
<1>4. Grows
  BY <1>1, <1>2, <1>3 DEF Grows
<1>5. Accounts' = Accounts \cup {e}
  BY <1>1, <1>2 DEF Accounts
<1> QED
  BY <1>1, <1>3, <1>4, <1>5, ReturnStep DEF IInv

LEMMA RegisterOpenStep ==
    ASSUME IInv, LimiterTypeOK', LimiterInv', NEW c \in Calls, RegisterOpen(c)
    PROVE  IInv'
<1> DEFINE e == calls[c].target
           row == [NoUser EXCEPT !.there = TRUE, !.verified = TRUE]
<1>1. e \in Emails
  BY DEF IInv, CallInv, Sound, OnAccount, RegisterOpen, At
<1>2. row \in UserRow /\ row.there /\ row.verified /\ row.token = 0
  BY DEF NoUser, UserRow
<1>3. UNCHANGED <<world, gate, mailVars, proved>> /\ Return(c)
  BY DEF RegisterOpen
<1>4. CASE UNCHANGED <<tableVars, sessions, lax>>
  BY <1>3, <1>4, RefusedStep DEF historyVars
<1>5. CASE InsertAccount(e, row) /\ Issue(e) /\ lax' = lax \cup {e}
  <2> HIDE DEF e, row
  <2>1. /\ users' = [users EXCEPT ![e] = row] /\ users' \in [Emails -> UserRow]
        /\ ~users[e].there /\ Accounts' = Accounts \cup {e}
        /\ TeamsTypeOK' /\ TeamInv' /\ calls' \in [Calls -> Call] /\ CallInv'
    BY <1>1, <1>2, <1>3, <1>5, NewAccount
  <2>2. users \in [Emails -> UserRow] /\ users'[e] = row /\ \A x \in Emails \ {e} : users'[x] = users[x]
    BY <1>1, <2>1 DEF IInv, TypeOK, AccountsTypeOK
  <2>3. /\ sessions' = sessions \cup {[user |-> e, expires |-> clock + SessionTTL]}
        /\ lax' = lax \cup {e} /\ UNCHANGED <<world, gate, nextToken, outbox, inbox, proved>>
    BY <1>3, <1>5 DEF Issue, mailVars
  <2>4. LinkInv'
    BY <1>1, <1>2, <2>2, <2>3 DEF IInv, AccountInv, LinkInv, TypeOK, AccountsTypeOK
  <2>5. NewestInv'
    BY <1>2, <2>1, <2>2, <2>3 DEF IInv, AccountInv, NewestInv, Accounts
  <2>6. ProvedInv'
    BY <1>2, <2>1, <2>2, <2>3 DEF IInv, AccountInv, ProvedInv, Accounts
  <2>7. SessionInv' /\ GateHeld'
    BY <1>1, <1>2, <2>2, <2>3 DEF IInv, AccountInv, SessionInv, GateHeld, TypeOK, AccountsTypeOK, Session
  <2>8. TokenIffUnverified'
    BY <1>2, <2>1, <2>2 DEF IInv, AccountInv, TokenIffUnverified, Accounts
  <2>9. sessions' \subseteq Session /\ lax' \subseteq Emails
    BY <1>1, <2>3, SessionType DEF IInv, TypeOK, AccountsTypeOK
  <2> QED
    BY <2>1, <2>3, <2>4, <2>5, <2>6, <2>7, <2>8, <2>9, AccountWrite
       DEF AccountInv, IInv, TypeOK, AccountsTypeOK
<1> QED
  BY <1>4, <1>5 DEF RegisterOpen

\* A link is made: the row carries a token nobody was sent, and it is mailed
\* to that row's address.
LEMMA NewLinkStep ==
    ASSUME TypeOK, AccountInv, NEW e \in Emails, NEW row \in UserRow, row.there, ~row.verified,
           row.token = nextToken, users' = [users EXCEPT ![e] = row], NewLink(e),
           UNCHANGED <<gate, sessions, proved>>, lax \subseteq lax', ~gate => e \in lax'
    PROVE  AccountInv' /\ nextToken' \in Nat \ {0} /\ outbox' \subseteq Link /\ inbox' \subseteq Link
<1> DEFINE new == [to |-> e, token |-> nextToken]
<1>1. /\ users \in [Emails -> UserRow] /\ users'[e] = row /\ \A x \in Emails \ {e} : users'[x] = users[x]
      /\ nextToken \in Nat \ {0} /\ nextToken' = nextToken + 1
      /\ outbox' = outbox \cup {new} /\ inbox' = inbox
      /\ sessions \subseteq Session
  BY DEF TypeOK, AccountsTypeOK, NewLink
<1>2. /\ new \in Link /\ new.to = e /\ new.token = nextToken
      /\ outbox' \cup inbox' = outbox \cup inbox \cup {new}
      /\ outbox \subseteq Link /\ inbox \subseteq Link
  BY <1>1 DEF Link, TypeOK, AccountsTypeOK
<1>3. \A m \in outbox \cup inbox : m.token \in Nat /\ m.token # 0 /\ m.token < nextToken
  BY <1>2 DEF AccountInv, LinkInv, Link
<1>4. \A x \in Emails : users[x].token \in Nat /\ users[x].token < nextToken
  BY <1>1 DEF AccountInv, LinkInv, UserRow
<1> HIDE DEF new
<1>5. LinkInv'
  <2>1. \A m \in outbox' \cup inbox' : m.token # 0 /\ m.token < nextToken'
    BY <1>1, <1>2, <1>3
  <2>2. \A x \in Emails : users'[x].token < nextToken'
    BY <1>1, <1>4
  <2>3. \A m \in outbox' \cup inbox', x \in Emails : users'[x].token = m.token => m.to = x
    <3>1. ASSUME NEW m \in outbox \cup inbox, NEW x \in Emails, users'[x].token = m.token
          PROVE  m.to = x
      <4>1. x # e
        BY <1>1, <1>3, <3>1
      <4> QED
        BY <1>1, <3>1, <4>1 DEF AccountInv, LinkInv
    <3>2. ASSUME NEW x \in Emails, users'[x].token = new.token PROVE new.to = x
      BY <1>1, <1>2, <1>4, <3>2
    <3> QED
      BY <1>2, <3>1, <3>2
  <2> QED
    BY <2>1, <2>2, <2>3 DEF LinkInv
<1>6. NewestInv'
  <2> SUFFICES ASSUME NEW x \in Emails, users'[x].there, ~users'[x].verified,
                      NEW m \in outbox' \cup inbox', m.to = x
               PROVE  m.token <= users'[x].token
    BY DEF NewestInv, Accounts
  <2>1. CASE x = e
    BY <1>1, <1>2, <1>3, <2>1
  <2>2. CASE x # e
    BY <1>1, <1>2, <2>2 DEF AccountInv, NewestInv, Accounts
  <2> QED
    BY <2>1, <2>2
<1>7. ProvedInv'
  BY <1>1 DEF AccountInv, ProvedInv, Accounts
<1>8. SessionInv' /\ GateHeld'
  BY <1>1 DEF AccountInv, SessionInv, GateHeld, Session
<1>9. TokenIffUnverified'
  BY <1>1 DEF AccountInv, TokenIffUnverified, Accounts
<1> QED
  BY <1>1, <1>2, <1>5, <1>6, <1>7, <1>8, <1>9 DEF AccountInv

LEMMA RegisterGatedStep ==
    ASSUME IInv, LimiterTypeOK', LimiterInv', NEW c \in Calls, RegisterGated(c)
    PROVE  IInv'
<1> DEFINE e == calls[c].target
           row == [NoUser EXCEPT !.there = TRUE, !.token = nextToken, !.expires = clock + LinkTTL]
<1>1. e \in Emails
  BY DEF IInv, CallInv, Sound, OnAccount, RegisterGated, At
<1>2. row \in UserRow /\ row.there /\ ~row.verified /\ row.token = nextToken
  <2>1. nextToken \in Nat /\ clock + LinkTTL \in Nat
    BY TTLType DEF IInv, TypeOK, AccountsTypeOK, LimiterTypeOK
  <2> QED
    BY <2>1 DEF NoUser, UserRow
<1>3. UNCHANGED <<world, gate, sessions, proved>> /\ Return(c)
  BY DEF RegisterGated
<1>4. CASE UNCHANGED <<tableVars, mailVars, lax>>
  BY <1>3, <1>4, RefusedStep DEF historyVars
<1>5. CASE InsertAccount(e, row) /\ NewLink(e) /\ lax' = IF gate THEN lax ELSE lax \cup {e}
  <2> HIDE DEF e, row
  <2>1. lax \subseteq lax' /\ (~gate => e \in lax') /\ lax' \subseteq Emails
    BY <1>1, <1>5 DEF IInv, TypeOK, AccountsTypeOK
  <2>2. /\ users' = [users EXCEPT ![e] = row] /\ users' \in [Emails -> UserRow]
        /\ TeamsTypeOK' /\ TeamInv' /\ calls' \in [Calls -> Call] /\ CallInv'
    BY <1>1, <1>2, <1>3, <1>5, <2>1, NewAccount
  <2>3. AccountInv' /\ nextToken' \in Nat \ {0} /\ outbox' \subseteq Link /\ inbox' \subseteq Link
    BY <1>1, <1>2, <1>3, <1>5, <2>1, <2>2, NewLinkStep DEF IInv
  <2> QED
    BY <1>3, <2>1, <2>2, <2>3, AccountWrite DEF IInv, TypeOK, AccountsTypeOK
<1> QED
  BY <1>4, <1>5 DEF RegisterGated

\* The accounts that are there stay, and so do the tables of teams.
LEMMA SameAccounts ==
    ASSUME IInv, users' \in [Emails -> UserRow], UNCHANGED <<teams, members, appTeam>>,
           \A e \in Emails : users[e].there => users'[e].there,
           proved \subseteq proved', lax \subseteq lax'
    PROVE  Grows /\ TeamsTypeOK' /\ TeamInv'
<1>1. Grows
  BY DEF Grows
<1> QED
  BY <1>1, TeamsKept DEF IInv

LEMMA ResendResetStep ==
    ASSUME IInv, LimiterTypeOK', LimiterInv', NEW c \in Calls, ResendReset(c)
    PROVE  IInv'
<1> DEFINE e == calls[c].target
           row == [users[e] EXCEPT !.token = nextToken, !.expires = clock + LinkTTL]
<1>1. e \in Emails
  BY DEF IInv, CallInv, Sound, OnAccount, ResendReset, At
<1>2. UNCHANGED <<world, gate, teams, members, appTeam, sessions, historyVars>> /\ Return(c)
  BY DEF ResendReset
<1>3. CASE UNCHANGED <<users, mailVars>>
  BY <1>2, <1>3, RefusedStep DEF tableVars
<1>4. CASE Waits(e) /\ ResetVerifyToken(e) /\ NewLink(e)
  <2>1. /\ users \in [Emails -> UserRow] /\ clock + LinkTTL \in Nat /\ nextToken \in Nat
        /\ users[e].there /\ ~users[e].verified /\ users' = [users EXCEPT ![e] = row]
    BY <1>4, TTLType DEF IInv, TypeOK, AccountsTypeOK, LimiterTypeOK, Waits, ResetVerifyToken
  <2>2. row \in UserRow /\ row.there /\ ~row.verified /\ row.token = nextToken
    BY <1>1, <2>1 DEF UserRow
  <2>3. ~gate => e \in lax
    BY <1>1, <2>1 DEF IInv, AccountInv, ProvedInv, Accounts
  <2> HIDE DEF e, row
  <2>4. users' \in [Emails -> UserRow] /\ \A x \in Emails : users[x].there => users'[x].there
    BY <1>1, <2>1, <2>2
  <2>5. Grows /\ TeamsTypeOK' /\ TeamInv'
    BY <1>2, <2>4, SameAccounts DEF historyVars
  <2>6. AccountInv' /\ nextToken' \in Nat \ {0} /\ outbox' \subseteq Link /\ inbox' \subseteq Link
    BY <1>1, <1>2, <1>4, <2>1, <2>2, <2>3, NewLinkStep DEF IInv, historyVars
  <2>7. calls' \in [Calls -> Call] /\ CallInv'
    BY <1>2, <2>5, ReturnStep DEF IInv
  <2> QED
    BY <1>2, <2>4, <2>5, <2>6, <2>7, AccountWrite DEF IInv, TypeOK, AccountsTypeOK, historyVars
<1> QED
  BY <1>3, <1>4 DEF ResendReset

LEMMA LoginIssueStep ==
    ASSUME IInv, LimiterTypeOK', LimiterInv', NEW c \in Calls, LoginIssue(c)
    PROVE  IInv'
<1> DEFINE e == calls[c].target
<1>1. e \in Emails /\ users[e].there /\ (calls[c].verified => e \in proved \cup lax)
  BY DEF IInv, CallInv, Sound, OnAccount, LoginIssue, At
<1>2. UNCHANGED <<world, gate, tableVars, mailVars, historyVars>> /\ Return(c)
  BY DEF LoginIssue
<1>3. CASE UNCHANGED sessions
  BY <1>2, <1>3, RefusedStep
<1>4. CASE Issue(e) /\ ~(gate /\ ~calls[c].verified)
  <2>1. e \in proved \cup lax
    BY <1>1, <1>4 DEF IInv, AccountInv, ProvedInv, Accounts
  <2> HIDE DEF e
  <2>2. sessions' = sessions \cup {[user |-> e, expires |-> clock + SessionTTL]}
    BY <1>4 DEF Issue
  <2>3. sessions' \subseteq Session
    BY <1>1, <2>2, SessionType DEF IInv, TypeOK, AccountsTypeOK
  <2>4. SessionInv' /\ GateHeld'
    BY <1>1, <1>2, <2>1, <2>2 DEF IInv, AccountInv, SessionInv, GateHeld, tableVars, historyVars
  <2>5. LinkInv' /\ NewestInv' /\ ProvedInv' /\ TokenIffUnverified'
    BY <1>2 DEF IInv, AccountInv, LinkInv, NewestInv, ProvedInv, TokenIffUnverified, Accounts,
                tableVars, mailVars, historyVars
  <2>6. TeamsTypeOK' /\ TeamInv'
    BY <1>2, TeamsKept DEF IInv, tableVars
  <2>7. calls' \in [Calls -> Call] /\ CallInv'
    BY <1>2, SameTablesGrow, ReturnStep DEF IInv
  <2> QED
    BY <1>2, <2>3, <2>4, <2>5, <2>6, <2>7, AccountWrite
       DEF AccountInv, IInv, TypeOK, AccountsTypeOK, tableVars, mailVars, historyVars
<1> QED
  BY <1>3, <1>4 DEF LoginIssue

LEMMA DeliverStep ==
    ASSUME IInv, LimiterTypeOK', LimiterInv', NEW m \in outbox \cup inbox, Deliver(m)
    PROVE  IInv'
<1>1. /\ outbox' \cup inbox' = outbox \cup inbox /\ outbox' \subseteq outbox /\ inbox' \subseteq outbox \cup inbox
      /\ UNCHANGED <<world, gate, users, teams, members, appTeam, nextToken, sessions, calls, proved, lax>>
  BY DEF Deliver, tableVars, historyVars
<1>2. AccountInv'
  BY <1>1 DEF IInv, AccountInv, LinkInv, NewestInv, ProvedInv, SessionInv, GateHeld,
              TokenIffUnverified, Accounts
<1>3. TeamsTypeOK' /\ TeamInv'
  BY <1>1, TeamsKept DEF IInv
<1>4. calls' \in [Calls -> Call] /\ CallInv'
  BY <1>1, SameTablesGrow, SameCallsStep DEF IInv, tableVars, historyVars
<1> QED
  BY <1>1, <1>2, <1>3, <1>4, AccountWrite DEF IInv, TypeOK, AccountsTypeOK

LEMMA VerifyEmailStep ==
    ASSUME IInv, LimiterTypeOK', LimiterInv', NEW m \in outbox \cup inbox, VerifyEmail(m)
    PROVE  IInv'
<1>1. /\ m \in inbox /\ VerifyByTokenHash(m.token)
      /\ proved' = proved \cup {e \in {m.to} : Redeemable(e, m.token)}
      /\ UNCHANGED <<world, gate, teams, members, appTeam, nextToken, outbox, inbox, sessions, calls, lax>>
  BY DEF VerifyEmail, mailVars
<1>2. m \in Link /\ m.token # 0 /\ users \in [Emails -> UserRow]
  BY <1>1 DEF IInv, TypeOK, AccountsTypeOK, AccountInv, LinkInv
<1>3. \A x \in Emails :
        /\ Redeemable(x, m.token) => /\ users[x].there /\ users'[x].there /\ users'[x].verified
                                     /\ users'[x].token = 0 /\ x = m.to
        /\ ~Redeemable(x, m.token) => users'[x] = users[x]
  <2> SUFFICES ASSUME NEW x \in Emails, Redeemable(x, m.token)
               PROVE  /\ users[x].there /\ users'[x].there /\ users'[x].verified
                      /\ users'[x].token = 0 /\ x = m.to
    BY <1>1 DEF VerifyByTokenHash
  <2>1. users'[x] = [users[x] EXCEPT !.verified = TRUE, !.token = 0, !.expires = 0]
    BY <1>1 DEF VerifyByTokenHash
  <2>2. users[x] \in UserRow /\ users[x].there /\ users[x].token = m.token
    BY <1>2 DEF Redeemable
  <2>3. x = m.to
    BY <1>1, <2>2 DEF IInv, AccountInv, LinkInv
  <2> QED
    BY <2>1, <2>2, <2>3 DEF UserRow
<1>4. users' \in [Emails -> UserRow]
  BY <1>1, <1>2 DEF VerifyByTokenHash, UserRow
<1>5. Accounts' = Accounts /\ \A x \in Emails : users'[x].there <=> users[x].there
  BY <1>3 DEF Accounts
<1>6. proved \subseteq proved' /\ proved' \subseteq Emails
  BY <1>1, <1>2 DEF Link, IInv, TypeOK, AccountsTypeOK
<1>7. Grows /\ TeamsTypeOK' /\ TeamInv'
  BY <1>1, <1>4, <1>5, <1>6, SameAccounts
<1>8. calls' \in [Calls -> Call] /\ CallInv'
  BY <1>1, <1>7, SameCallsStep DEF IInv
<1>9. LinkInv'
  BY <1>1, <1>3 DEF IInv, TypeOK, AccountsTypeOK, AccountInv, LinkInv
<1>10. NewestInv' /\ TokenIffUnverified'
  BY <1>1, <1>3, <1>5 DEF IInv, AccountInv, NewestInv, TokenIffUnverified, Accounts
<1>11. ProvedInv'
  <2>1. \A x \in Emails : Redeemable(x, m.token) => x \in proved'
    BY <1>1, <1>3
  <2> QED
    BY <1>1, <1>3, <1>5, <2>1 DEF IInv, AccountInv, ProvedInv, Accounts
<1>12. SessionInv' /\ GateHeld'
  BY <1>1, <1>5, <1>6 DEF IInv, TypeOK, AccountsTypeOK, AccountInv, SessionInv, GateHeld, Session
<1> QED
  BY <1>1, <1>4, <1>6, <1>7, <1>8, <1>9, <1>10, <1>11, <1>12, AccountWrite
     DEF AccountInv, IInv, TypeOK, AccountsTypeOK

LEMMA SetGateStep ==
    ASSUME IInv, LimiterTypeOK', LimiterInv', NEW e \in Emails, SetGate(e)
    PROVE  IInv'
<1>1. /\ gate' = ~gate /\ lax' = IF gate THEN lax \cup Accounts ELSE lax
      /\ UNCHANGED <<world, users, teams, members, appTeam, nextToken, outbox, inbox, sessions, calls, proved>>
  BY DEF SetGate, tableVars, mailVars
<1>2. lax \subseteq lax' /\ lax' \subseteq Emails /\ gate \in BOOLEAN
  BY <1>1 DEF Accounts, IInv, TypeOK, AccountsTypeOK
<1>3. Accounts' = Accounts
  BY <1>1 DEF Accounts
<1>4. Grows /\ TeamsTypeOK' /\ TeamInv'
  BY <1>1, <1>2, SameAccounts DEF IInv, TypeOK, AccountsTypeOK
<1>5. calls' \in [Calls -> Call] /\ CallInv'
  BY <1>1, <1>4, SameCallsStep DEF IInv
<1> HIDE DEF Accounts
<1>6. LinkInv' /\ NewestInv' /\ SessionInv' /\ GateHeld' /\ TokenIffUnverified'
  BY <1>1, <1>2, <1>3 DEF IInv, AccountInv, LinkInv, NewestInv, SessionInv, GateHeld, TokenIffUnverified
<1>7. ProvedInv'
  BY <1>1, <1>2, <1>3 DEF IInv, AccountInv, ProvedInv
<1> QED
  BY <1>1, <1>2, <1>4, <1>5, <1>6, <1>7, AccountWrite DEF AccountInv, IInv, TypeOK, AccountsTypeOK

LEMMA RestartAllStep ==
    ASSUME IInv, LimiterTypeOK', LimiterInv', Restart
    PROVE  IInv'
<1>1. /\ outbox' = {} /\ calls' = [c \in Calls |-> NoCall]
      /\ users' = users \/ users' = [users EXCEPT ![Admin].role = "admin"]
      /\ UNCHANGED <<world, gate, teams, members, appTeam, nextToken, inbox, sessions, proved, lax>>
  BY DEF Restart, historyVars
<1>2. /\ users' \in [Emails -> UserRow]
      /\ \A x \in Emails : /\ users'[x].there = users[x].there /\ users'[x].verified = users[x].verified
                           /\ users'[x].token = users[x].token
  BY <1>1, AdminType DEF IInv, TypeOK, AccountsTypeOK, UserRow
<1>3. Accounts' = Accounts
  BY <1>2 DEF Accounts
<1>4. Grows /\ TeamsTypeOK' /\ TeamInv'
  BY <1>1, <1>2, SameAccounts
<1>5. calls' \in [Calls -> Call] /\ CallInv'
  BY <1>1, NoCallSound DEF CallInv, Sound, NoCall, OnAccount, OnTeam, PastPersonal
<1>6. LinkInv' /\ NewestInv'
  BY <1>1, <1>2, <1>3 DEF IInv, AccountInv, LinkInv, NewestInv, Accounts
<1>7. ProvedInv' /\ TokenIffUnverified'
  BY <1>1, <1>2, <1>3 DEF IInv, AccountInv, ProvedInv, TokenIffUnverified, Accounts
<1>8. SessionInv' /\ GateHeld'
  BY <1>1, <1>2 DEF IInv, TypeOK, AccountsTypeOK, AccountInv, SessionInv, GateHeld, Session
<1> QED
  BY <1>1, <1>2, <1>4, <1>5, <1>6, <1>7, <1>8, AccountWrite DEF AccountInv, IInv, TypeOK, AccountsTypeOK

-----------------------------------------------------------------------------
(* The theorems *)

LEMMA Inductive == IInv /\ [Next]_vars => IInv'
<1> SUFFICES ASSUME IInv, [Next]_vars PROVE IInv'
  OBVIOUS
<1>0. LimiterTypeOK' /\ LimiterInv'
  BY LimiterNext, LimiterSteps DEF IInv, TypeOK, AccountsTypeOK
<1>1. CASE AccountsNext
  <2>1. CASE \E c \in Calls, e \in world.emails : Register(c, e) \/ Login(c, e) \/ Resend(c, e)
    BY <1>0, <2>1, AccountReads
  <2>2. CASE \E c \in Calls : \/ RegisterOpen(c) \/ RegisterGated(c) \/ LoginRead(c)
                              \/ LoginIssue(c) \/ ResendReset(c)
    BY <1>0, <2>2, RegisterOpenStep, RegisterGatedStep, LoginReadStep, LoginIssueStep, ResendResetStep
  <2>3. CASE \E m \in outbox \cup inbox : Deliver(m) \/ VerifyEmail(m)
    BY <1>0, <2>3, DeliverStep, VerifyEmailStep
  <2>4. CASE \E e \in Emails : SetGate(e)
    BY <1>0, <2>4, SetGateStep
  <2>5. CASE Restart
    BY <1>0, <2>5, RestartAllStep
  <2>6. CASE TimePasses
    BY <1>0, <2>6, NothingStep DEF TimePasses
  <2> QED
    BY <1>1, <2>1, <2>2, <2>3, <2>4, <2>5, <2>6 DEF AccountsNext
<1>2. CASE TeamsNext
  <2>1. CASE \E c \in Calls, e \in world.emails, t \in TeamIds :
                \/ DeleteTeam(c, e, t) \/ CreateApp(c, e, t)
                \/ \E target \in world.emails : AddMember(c, e, t, target) \/ RemoveMember(c, e, t, target)
    BY <1>0, <2>1, TeamStarts
  <2>2. CASE \E c \in Calls, e \in world.emails, a \in AppIds : DeleteApp(c, e, a)
    BY <1>0, <2>2, TeamStarts
  <2>3. CASE \E e \in world.emails : CreateTeam(e)
    BY <1>0, <2>3, CreateTeamStep
  <2>4. CASE \E c \in Calls : \/ AddPersonal(c) \/ AddInsert(c) \/ RemoveRole(c) \/ RemoveCount(c)
                              \/ RemoveDelete(c) \/ TeamApps(c) \/ TeamDelete(c) \/ AppInsert(c)
                              \/ AppDelete(c)
    BY <1>0, <2>4, TeamReads, AddInsertStep, RemoveDeleteStep, TeamDeleteStep, AppInsertStep, AppDeleteStep
  <2> QED
    BY <1>2, <2>1, <2>2, <2>3, <2>4 DEF TeamsNext
<1>3. CASE UNCHANGED vars
  BY <1>0, <1>3, NothingStep DEF vars, tableVars, mailVars, historyVars
<1> QED
  BY <1>1, <1>2, <1>3 DEF Next

\* The inductive invariant of the community: what each request read before
\* still justifies what it is about to do.
THEOREM Invariance == Spec => []IInv
BY Initially, Inductive, PTL DEF Spec

\* With REQUIRE_EMAIL_VERIFICATION on, nobody is signed in who did not redeem
\* a link sent to the account's own address (auth Handler.Register, Login,
\* VerifyEmail).
THEOREM GateHolds == Spec => []GateHeld
<1>1. IInv => GateHeld
  BY DEF IInv, AccountInv
<1> QED
  BY <1>1, Invariance, PTL

\* A verified account has no token, and an unverified one can always be
\* verified or sent a new link (auth Repository.ResetVerifyToken).
THEOREM TokensMatch == Spec => []TokenIffUnverified
<1>1. IInv => TokenIffUnverified
  BY DEF IInv, AccountInv
<1> QED
  BY <1>1, Invariance, PTL

\* Only the newest link of an account verifies it (auth
\* Repository.VerifyByTokenHash).
THEOREM NewestVerifies == Spec => NewestLinkVerifies
<1>1. IInv /\ [Next]_vars =>
        [\A e \in Accounts : ~users[e].verified /\ users'[e].verified =>
            \A m \in outbox \cup inbox : m.to = e => m.token <= users[e].token]_vars
  BY DEF IInv, AccountInv, NewestInv
<1> QED
  BY <1>1, Invariance, PTL DEF Spec, NewestLinkVerifies

\* A team that stands has one owner, one that is gone nobody (teams
\* Handler.AddMember, RemoveMember, Delete).
THEOREM TeamsHaveOneOwner == Spec => []OneOwner
<1>1. IInv => OneOwner
  BY DEF IInv, TeamInv
<1> QED
  BY <1>1, Invariance, PTL

\* The team of an application stands (the foreign key of applications).
THEOREM AppsKeepTheirTeam == Spec => []AppsHaveTeam
<1>1. IInv => AppsHaveTeam
  BY DEF IInv, TeamInv
<1> QED
  BY <1>1, Invariance, PTL

\* The limiters answer as token buckets that are never dropped, however idle
\* buckets are swept (httpx RateLimiter.Allow and sweep).
THEOREM LimitersAreBuckets == Spec => ImplementsBuckets
<1>1. Init => Buckets!BucketInit
  BY DEF Init, LimiterInit, NoBucket, Held, Buckets!BucketInit, Buckets!Full
<1>2. IInv /\ [Next]_vars => [Buckets!BucketNext]_Buckets!bucketVars
  BY LimiterNext, LimiterSteps DEF IInv, TypeOK, AccountsTypeOK
<1> QED
  BY <1>1, <1>2, Invariance, PTL DEF Spec, ImplementsBuckets, Buckets!BucketSpec

=============================================================================
