------------------------------ MODULE Accounts ------------------------------
(***************************************************************************)
(* Accounts, sessions and e-mail verification.  A handler reads the        *)
(* verification gate from the settings of the moment, and an account or a  *)
(* bucket in a statement or call of its own, so the gate, the account and  *)
(* the mails sent may all change under it.                                 *)
(***************************************************************************)
EXTENDS RateLimiter, FiniteSets

CONSTANTS
    Emails,     \* addresses people register with
    Lower,      \* the address in lower case, a key of the limiters
    Admin,      \* ADMIN_EMAIL
    TeamIds,    \* team ids, each used once
    AppIds,     \* application ids, each used once
    Calls,      \* HTTP requests that may be in progress together
    Worlds,     \* which addresses and operations are used, and bounds: no time passes after
                \* until, and nothing is resent once that many links were made
    None,
    LinkTTL, SessionTTL

AccountOps == {"register", "login", "resend", "verify", "gate", "restart", "tick"}
TeamOps == {"createTeam", "addMember", "removeMember", "deleteTeam",
            "createApp", "deleteApp"}
PcNames ==
    {"idle", "register.open", "register.gated", "login.read", "login.issue", "resend.reset",
     "add.personal", "add.insert", "remove.role", "remove.count", "remove.delete",
     "team.apps", "team.delete", "app.insert", "app.delete"}

UserRow == [there : BOOLEAN, verified : BOOLEAN, token : Nat, expires : Nat,
            role : {"developer", "admin"}]
NoUser == [there |-> FALSE, verified |-> FALSE, token |-> 0, expires |-> 0, role |-> "developer"]
Link == [to : Emails, token : Nat]
Session == [user : Emails, expires : Nat]
World == [ops : SUBSET (AccountOps \cup TeamOps), emails : SUBSET Emails, until : Nat,
          links : Nat]

Call == [pc : PcNames, op : AccountOps \cup TeamOps \cup {"none"}, user : Emails \cup {None},
         verified : BOOLEAN, target : Emails \cup {None}, team : TeamIds \cup {None},
         app : AppIds \cup {None}]
NoCall == [pc |-> "idle", op |-> "none", user |-> None, verified |-> FALSE,
           target |-> None, team |-> None, app |-> None]

ASSUME LowerType == Lower \in [Emails -> Keys]
ASSUME LimitersHere == Limiters = {"login", "resend"}
ASSUME AdminType == Admin \in Emails
ASSUME NoneIsNoId == None \notin Emails \cup TeamIds \cup AppIds
ASSUME UnusedIsNoTeam == TeamIds \cap {"unused", "gone"} = {}
ASSUME WorldsType == Worlds \subseteq World
ASSUME TTLType == LinkTTL \in Nat /\ SessionTTL \in Nat

VARIABLES
    world,     \* the clients of this behaviour, fixed
    gate,      \* REQUIRE_EMAIL_VERIFICATION in the settings snapshot
    users,     \* table users, by its unique e-mail
    teams,     \* table teams: what kind of team an id names
    members,   \* table team_members: role per team and user
    appTeam,   \* applications.team_id, per application id
    nextToken, \* the next verification token GenToken makes
    outbox,    \* verification mails whose goroutine is still sending
    inbox,     \* verification links that arrived
    sessions,  \* the tokens issued: an account and an expiry
    calls,     \* the requests in progress
    proved,    \* history: accounts that redeemed a link sent to their address
    lax        \* history: accounts made, or standing, while the gate was open

tableVars == <<users, teams, members, appTeam>>
mailVars == <<nextToken, outbox, inbox>>
historyVars == <<proved, lax>>
vars == <<clock, buckets, lastSweep, answer, world, gate, users, teams, members, appTeam,
          nextToken, outbox, inbox, sessions, calls, proved, lax>>

\* Ids that were never used, and ids whose row is gone.
Unused == "unused"
Gone == "gone"

AccountsTypeOK ==
    /\ LimiterTypeOK
    /\ world \in Worlds
    /\ gate \in BOOLEAN
    /\ users \in [Emails -> UserRow]
    /\ nextToken \in Nat \ {0}
    /\ outbox \subseteq Link
    /\ inbox \subseteq Link
    /\ sessions \subseteq Session
    /\ calls \in [Calls -> Call]
    /\ proved \subseteq Emails
    /\ lax \subseteq Emails

Init ==
    /\ LimiterInit
    /\ world \in Worlds
    /\ gate \in BOOLEAN
    /\ users = [e \in Emails |-> NoUser]
    /\ teams = [t \in TeamIds |-> Unused]
    /\ members = [t \in TeamIds |-> [e \in Emails |-> "none"]]
    /\ appTeam = [a \in AppIds |-> Unused]
    /\ nextToken = 1
    /\ outbox = {} /\ inbox = {} /\ sessions = {}
    /\ calls = [c \in Calls |-> NoCall]
    /\ proved = {} /\ lax = {}

-----------------------------------------------------------------------------
(* Requests *)

Idle(c) == calls[c].op = "none"
At(c, pc) == calls[c].pc = pc
Enters(c, op, q) == /\ Idle(c) /\ op \in world.ops
                    /\ calls' = [calls EXCEPT ![c] = [q EXCEPT !.op = op]]
Goto(c, pc) == calls' = [calls EXCEPT ![c] = [@ EXCEPT !.pc = pc]]
Return(c) == calls' = [calls EXCEPT ![c] = NoCall]

\* RequireAuth: an unexpired session, whatever became of its account since.
SignedIn(e) == \E s \in sessions : s.user = e /\ clock < s.expires
\* RequireAdmin also asks the users table for the role it has now.
AdminNow(e) == SignedIn(e) /\ users[e].there /\ users[e].role = "admin"

Issue(e) == sessions' = sessions \cup {[user |-> e, expires |-> clock + SessionTTL]}

Accounts == {e \in Emails : users[e].there}

-----------------------------------------------------------------------------
(* Register *)

\* The handler decides once, from the gate of this moment.
Register(c, e) ==
    /\ Enters(c, "register", [NoCall EXCEPT !.target = e,
                                 !.pc = IF gate THEN "register.gated" ELSE "register.open"])
    /\ UNCHANGED <<limiterVars, world, gate, tableVars, mailVars, sessions, historyVars>>

\* A new team and its owner.
InsertTeam(e, kind) == \E t \in TeamIds :
    /\ teams[t] = Unused
    /\ teams' = [teams EXCEPT ![t] = kind]
    /\ members' = [members EXCEPT ![t][e] = "owner"]

\* One transaction: the user and a personal team of one.  A taken address
\* fails it.
InsertAccount(e, row) ==
    /\ ~users[e].there
    /\ users' = [users EXCEPT ![e] = row]
    /\ InsertTeam(e, "personal")
    /\ UNCHANGED appTeam

\* Verified by the column's default, and signed in at once.
RegisterOpen(c) ==
    /\ At(c, "register.open")
    /\ LET e == calls[c].target IN
       \/ /\ InsertAccount(e, [NoUser EXCEPT !.there = TRUE, !.verified = TRUE])
          /\ Issue(e)
          /\ lax' = lax \cup {e}
       \/ users[e].there /\ UNCHANGED <<tableVars, sessions, lax>>
    /\ Return(c)
    /\ UNCHANGED <<limiterVars, world, gate, mailVars, proved>>

NewLink(e) == /\ nextToken' = nextToken + 1
              /\ outbox' = outbox \cup {[to |-> e, token |-> nextToken]}
              /\ UNCHANGED inbox

\* Unverified and not signed in; the mail is sent in the background.
RegisterGated(c) ==
    /\ At(c, "register.gated")
    /\ LET e == calls[c].target IN
       \/ /\ InsertAccount(e, [NoUser EXCEPT !.there = TRUE, !.token = nextToken,
                                             !.expires = clock + LinkTTL])
          /\ NewLink(e)
          /\ lax' = IF gate THEN lax ELSE lax \cup {e}
       \/ users[e].there /\ UNCHANGED <<tableVars, mailVars, lax>>
    /\ Return(c)
    /\ UNCHANGED <<limiterVars, world, gate, sessions, proved>>

-----------------------------------------------------------------------------
(* Login *)

\* The limiter answers first, whatever the account.
Login(c, e) ==
    /\ Allow("login", Lower[e])
    /\ \/ answer' /\ Enters(c, "login", [NoCall EXCEPT !.target = e, !.pc = "login.read"])
       \/ ~answer' /\ Idle(c) /\ "login" \in world.ops /\ UNCHANGED calls
    /\ UNCHANGED <<world, gate, tableVars, mailVars, sessions, historyVars>>

\* GetByEmail, and the password, which may be wrong.
LoginRead(c) ==
    /\ At(c, "login.read")
    /\ LET e == calls[c].target IN
       \/ /\ users[e].there
          /\ calls' = [calls EXCEPT ![c] = [@ EXCEPT !.pc = "login.issue",
                                                     !.verified = users[e].verified]]
       \/ Return(c)
    /\ UNCHANGED <<limiterVars, world, gate, tableVars, mailVars, sessions, historyVars>>

\* Mutant: the gate is not asked about.
LoginIssueUngated(c) ==
    /\ At(c, "login.issue")
    /\ Issue(calls[c].target)
    /\ Return(c)
    /\ UNCHANGED <<limiterVars, world, gate, tableVars, mailVars, historyVars>>

\* The gate of now, the account as it was read before the password check.
LoginIssue(c) ==
    /\ At(c, "login.issue")
    /\ IF gate /\ ~calls[c].verified THEN UNCHANGED sessions ELSE Issue(calls[c].target)
    /\ Return(c)
    /\ UNCHANGED <<limiterVars, world, gate, tableVars, mailVars, historyVars>>

-----------------------------------------------------------------------------
(* Verification *)

\* A closed endpoint answers 404 and a refused one 429.
Resend(c, e) ==
    /\ gate /\ nextToken <= world.links
    /\ Allow("resend", Lower[e])
    /\ \/ answer' /\ Enters(c, "resend", [NoCall EXCEPT !.target = e, !.pc = "resend.reset"])
       \/ ~answer' /\ Idle(c) /\ "resend" \in world.ops /\ UNCHANGED calls
    /\ UNCHANGED <<world, gate, tableVars, mailVars, sessions, historyVars>>

\* Mutant: whether the account still needs a link is not part of the UPDATE.
WaitsAnyway(e) == users[e].there

\* The row ResetVerifyToken's UPDATE finds.
Waits(e) == users[e].there /\ ~users[e].verified

\* Mutant: a link that is still good is kept.
ResetIfExpired(e) ==
    users' = IF users[e].expires > clock THEN users
             ELSE [users EXCEPT ![e] = [@ EXCEPT !.token = nextToken, !.expires = clock + LinkTTL]]

ResetVerifyToken(e) ==
    users' = [users EXCEPT ![e] = [@ EXCEPT !.token = nextToken, !.expires = clock + LinkTTL]]

\* Without a row to change no mail is sent, and the answer is the same.
ResendReset(c) ==
    /\ At(c, "resend.reset")
    /\ LET e == calls[c].target IN
       \/ Waits(e) /\ ResetVerifyToken(e) /\ NewLink(e)
       \/ ~Waits(e) /\ UNCHANGED <<users, mailVars>>
    /\ Return(c)
    /\ UNCHANGED <<limiterVars, world, gate, teams, members, appTeam, sessions, historyVars>>

\* A mail arrives, in any order, or never does.
Deliver(m) ==
    /\ m \in outbox
    /\ outbox' = outbox \ {m}
    /\ inbox' = inbox \cup {m}
    /\ UNCHANGED <<limiterVars, world, gate, tableVars, nextToken, sessions, calls, historyVars>>

\* The row VerifyByTokenHash's UPDATE finds.
Redeemable(e, token) == /\ users[e].there /\ users[e].token = token
                        /\ users[e].expires > clock

\* Mutant: the token is not burnt.
VerifyKeepingToken(token) ==
    users' = [e \in Emails |->
                 IF Redeemable(e, token) THEN [users[e] EXCEPT !.verified = TRUE] ELSE users[e]]

\* One UPDATE verifies the account that carries the token, and burns it.
VerifyByTokenHash(token) ==
    users' = [e \in Emails |->
                 IF Redeemable(e, token)
                 THEN [users[e] EXCEPT !.verified = TRUE, !.token = 0, !.expires = 0]
                 ELSE users[e]]

\* Whoever opened the link posts its token.
VerifyEmail(m) ==
    /\ "verify" \in world.ops /\ m \in inbox /\ gate
    /\ VerifyByTokenHash(m.token)
    /\ proved' = proved \cup {e \in {m.to} : Redeemable(e, m.token)}
    /\ UNCHANGED <<limiterVars, world, gate, teams, members, appTeam, mailVars, sessions, calls, lax>>

-----------------------------------------------------------------------------
(* The gate, the process and time *)

\* An admin's PUT or DELETE of the setting, behind RequireAdmin.
SetGate(e) ==
    /\ "gate" \in world.ops /\ AdminNow(e)
    /\ gate' = ~gate
    /\ lax' = IF gate THEN lax \cup Accounts ELSE lax
    /\ UNCHANGED <<limiterVars, world, tableVars, mailVars, sessions, calls, proved>>

\* The process stops and boots: buckets, requests and mails on their way are
\* lost, and ADMIN_EMAIL, if it has registered, is made an admin, unless that
\* fails.
Restart ==
    /\ "restart" \in world.ops
    /\ LimiterRestart
    /\ \/ users[Admin].there /\ users' = [users EXCEPT ![Admin].role = "admin"]
       \/ UNCHANGED users
    /\ outbox' = {}
    /\ calls' = [c \in Calls |-> NoCall]
    /\ UNCHANGED <<world, gate, teams, members, appTeam, nextToken, inbox, sessions, historyVars>>

TimePasses ==
    /\ "tick" \in world.ops /\ clock < world.until
    /\ Tick
    /\ UNCHANGED <<world, gate, tableVars, mailVars, sessions, calls, historyVars>>

AccountsNext ==
    \/ \E c \in Calls, e \in world.emails : Register(c, e) \/ Login(c, e) \/ Resend(c, e)
    \/ \E c \in Calls : RegisterOpen(c) \/ RegisterGated(c) \/ LoginRead(c) \/ LoginIssue(c) \/ ResendReset(c)
    \/ \E m \in outbox \cup inbox : Deliver(m) \/ VerifyEmail(m)
    \/ \E e \in Emails : SetGate(e)
    \/ Restart \/ TimePasses

=============================================================================
