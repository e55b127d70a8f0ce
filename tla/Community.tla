------------------------------ MODULE Community ------------------------------
(***************************************************************************)
(* The people of the portal: their accounts and sessions, the limits on    *)
(* how often they may try, the teams they form and the applications those  *)
(* teams own; and what holds of them together.                             *)
(***************************************************************************)
EXTENDS Teams

Next == AccountsNext \/ TeamsNext

Spec == Init /\ [][Next]_vars

-----------------------------------------------------------------------------
(* Properties *)

\* REQUIRE_EMAIL_VERIFICATION: an account that never stood while the gate was
\* open is signed in only once it redeemed a link sent to its own address,
\* whatever was resent, delivered late, redeemed by somebody else or lost in
\* a restart.
GateHeld == \A s \in sessions : s.user \in proved \cup lax

\* A token "can never be written onto an account that a concurrent
\* VerifyByTokenHash just verified", and an account that still needs one
\* always has one: no account is verified and redeemable, or neither.
TokenIffUnverified == \A e \in Accounts : users[e].verified <=> users[e].token = 0

\* An account is verified by the newest link made for it and no other.
NewestLinkVerifies ==
    [][\A e \in Accounts : ~users[e].verified /\ users'[e].verified =>
          \A m \in outbox \cup inbox : m.to = e => m.token <= users[e].token]_vars

\* Every team has exactly one owner as long as it stands and nobody in it
\* once it is gone, however its additions, removals and deletion interleave;
\* nobody else is ever in a personal team.
OneOwner == \A t \in TeamIds :
    /\ Stands(t) => \E e \in Accounts : \A x \in Emails : members[t][x] = "owner" <=> x = e
    /\ ~Stands(t) => \A x \in Emails : ~IsMember(x, t)
    /\ teams[t] = "personal" => \A x \in Emails : members[t][x] # "member"

\* The team that owns an application stands, so somebody can manage it: a
\* deletion of the team never overtakes the creation of the application.
AppsHaveTeam == \A a \in AppIds : IsApp(a) => Stands(appTeam[a])

-----------------------------------------------------------------------------
(* The inductive invariant *)

TypeOK == AccountsTypeOK /\ TeamsTypeOK

\* What a call carries from one statement to a later one, and still holds.
OnTeam == {"add.personal", "add.insert", "remove.role", "remove.count", "remove.delete",
           "team.apps", "team.delete", "app.insert"}
OnAccount == {"register.open", "register.gated", "login.read", "login.issue", "resend.reset",
              "add.personal", "add.insert", "remove.role", "remove.count", "remove.delete"}
PastPersonal == {"add.insert", "remove.count", "remove.delete", "team.delete"}
Sound(q) ==
    /\ q.pc \in OnAccount => q.target \in Emails
    /\ q.pc \in OnTeam => q.team \in TeamIds /\ teams[q.team] # Unused
    /\ q.pc \in PastPersonal => teams[q.team] # "personal"
    /\ q.pc = "add.insert" => users[q.target].there
    /\ q.pc = "remove.delete" => members[q.team][q.target] # "owner"
    /\ q.pc = "app.delete" => q.app \in AppIds /\ appTeam[q.app] # Unused
    /\ q.pc = "login.issue" => /\ users[q.target].there
                               /\ q.verified => q.target \in proved \cup lax
CallInv == \A c \in Calls : Sound(calls[c])

\* Tokens are new, and each was mailed to the account it verifies only.
LinkInv ==
    /\ \A m \in outbox \cup inbox : m.token # 0 /\ m.token < nextToken
    /\ \A e \in Emails : users[e].token < nextToken
    /\ \A m \in outbox \cup inbox, e \in Emails : users[e].token = m.token => m.to = e

NewestInv == \A e \in Accounts : ~users[e].verified =>
    \A m \in outbox \cup inbox : m.to = e => m.token <= users[e].token

\* Open the gate, and everybody who is there is excused.
ProvedInv ==
    /\ \A e \in Accounts : users[e].verified => e \in proved \cup lax
    /\ ~gate => Accounts \subseteq lax
    /\ \A e \in Emails : ~users[e].there => users[e].token = 0

\* Accounts are never deleted.
SessionInv == \A s \in sessions : users[s.user].there

AccountInv == LinkInv /\ NewestInv /\ ProvedInv /\ SessionInv /\ GateHeld /\ TokenIffUnverified
TeamInv == OneOwner /\ AppsHaveTeam

IInv == TypeOK /\ LimiterInv /\ CallInv /\ AccountInv /\ TeamInv

=============================================================================
