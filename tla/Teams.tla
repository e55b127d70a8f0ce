-------------------------------- MODULE Teams --------------------------------
(***************************************************************************)
(* Teams own applications.  Every handler first asks for the caller's role *)
(* or membership, then looks at the rows it is about to change, one        *)
(* statement at a time, then changes them; only the foreign keys hold      *)
(* whatever happened in between.                                           *)
(***************************************************************************)
EXTENDS Accounts

Kinds == {Unused, "personal", "shared", Gone}
TeamsTypeOK ==
    /\ teams \in [TeamIds -> Kinds]
    /\ members \in [TeamIds -> [Emails -> {"none", "member", "owner"}]]
    /\ appTeam \in [AppIds -> TeamIds \cup {Unused, Gone}]

Stands(t) == teams[t] \in {"personal", "shared"}
IsApp(a) == appTeam[a] \in TeamIds
AppsOf(t) == {a \in AppIds : appTeam[a] = t}
Owners(t) == {e \in Emails : members[t][e] = "owner"}
IsMember(e, t) == members[t][e] # "none"
IsMemberOfApp(e, a) == IsApp(a) /\ IsMember(e, appTeam[a])

\* What no step of these handlers touches.
Elsewhere == UNCHANGED <<limiterVars, world, gate, mailVars, sessions, historyVars>>
TeamCall(c, op, e, q) == SignedIn(e) /\ Enters(c, op, [q EXCEPT !.user = e])
OwnerCall(c, op, e, t, q) == members[t][e] = "owner" /\ TeamCall(c, op, e, [q EXCEPT !.team = t])

-----------------------------------------------------------------------------
(* Teams and their members *)

\* One transaction.
CreateTeam(e) ==
    /\ "createTeam" \in world.ops /\ SignedIn(e)
    /\ InsertTeam(e, "shared")
    /\ UNCHANGED <<users, appTeam, calls>> /\ Elsewhere

AddMember(c, e, t, target) ==
    /\ OwnerCall(c, "addMember", e, t, [NoCall EXCEPT !.pc = "add.personal", !.target = target])
    /\ UNCHANGED tableVars /\ Elsewhere

\* isPersonal, then the account by its address.
AddPersonal(c) ==
    /\ At(c, "add.personal")
    /\ IF teams[calls[c].team] = "shared" /\ users[calls[c].target].there
       THEN Goto(c, "add.insert") ELSE Return(c)
    /\ UNCHANGED tableVars /\ Elsewhere

\* Mutant: no foreign key keeps a member out of a team that is gone.
AddInsertUnkeyed(c) ==
    /\ At(c, "add.insert")
    /\ LET t == calls[c].team  e == calls[c].target IN
       members' = IF IsMember(e, t) THEN members ELSE [members EXCEPT ![t][e] = "member"]
    /\ Return(c)
    /\ UNCHANGED <<users, teams, appTeam>> /\ Elsewhere

\* The primary key refuses a second row, the foreign key a team that is gone.
AddInsert(c) ==
    /\ At(c, "add.insert")
    /\ LET t == calls[c].team  e == calls[c].target IN
       members' = IF Stands(t) /\ ~IsMember(e, t)
                  THEN [members EXCEPT ![t][e] = "member"] ELSE members
    /\ Return(c)
    /\ UNCHANGED <<users, teams, appTeam>> /\ Elsewhere

RemoveMember(c, e, t, target) ==
    /\ OwnerCall(c, "removeMember", e, t, [NoCall EXCEPT !.pc = "remove.role", !.target = target])
    /\ UNCHANGED tableVars /\ Elsewhere

\* isPersonal and the member's role.
RemoveRole(c) ==
    /\ At(c, "remove.role")
    /\ LET t == calls[c].team  role == members[t][calls[c].target] IN
       \/ teams[t] = "shared" /\ role = "owner" /\ Goto(c, "remove.count")
       \/ teams[t] = "shared" /\ role = "member" /\ Goto(c, "remove.delete")
       \/ (teams[t] # "shared" \/ role = "none") /\ Return(c)
    /\ UNCHANGED tableVars /\ Elsewhere

\* The last owner stays.
RemoveCount(c) ==
    /\ At(c, "remove.count")
    /\ IF Cardinality(Owners(calls[c].team)) <= 1 THEN Return(c) ELSE Goto(c, "remove.delete")
    /\ UNCHANGED tableVars /\ Elsewhere

RemoveDelete(c) ==
    /\ At(c, "remove.delete")
    /\ members' = [members EXCEPT ![calls[c].team][calls[c].target] = "none"]
    /\ Return(c)
    /\ UNCHANGED <<users, teams, appTeam>> /\ Elsewhere

DeleteTeam(c, e, t) ==
    /\ OwnerCall(c, "deleteTeam", e, t, [NoCall EXCEPT !.pc = "team.apps"])
    /\ UNCHANGED tableVars /\ Elsewhere

\* isPersonal and the count of applications.
TeamApps(c) ==
    /\ At(c, "team.apps")
    /\ LET t == calls[c].team IN
       IF teams[t] = "shared" /\ AppsOf(t) = {} THEN Goto(c, "team.delete") ELSE Return(c)
    /\ UNCHANGED tableVars /\ Elsewhere

\* Mutant: the delete trusts the count taken before.
TeamDeleteUnkeyed(c) ==
    /\ At(c, "team.delete")
    /\ LET t == calls[c].team IN
       /\ teams' = [teams EXCEPT ![t] = Gone]
       /\ members' = [members EXCEPT ![t] = [e \in Emails |-> "none"]]
    /\ Return(c)
    /\ UNCHANGED <<users, appTeam>> /\ Elsewhere

\* The members cascade; an application the count missed makes it fail.
TeamDelete(c) ==
    /\ At(c, "team.delete")
    /\ LET t == calls[c].team IN
       IF AppsOf(t) = {} THEN /\ teams' = [teams EXCEPT ![t] = Gone]
                              /\ members' = [members EXCEPT ![t] = [e \in Emails |-> "none"]]
                         ELSE UNCHANGED <<teams, members>>
    /\ Return(c)
    /\ UNCHANGED <<users, appTeam>> /\ Elsewhere

-----------------------------------------------------------------------------
(* Applications *)

\* In a team the caller is in, or in the caller's own.
CreateApp(c, e, t) ==
    /\ IsMember(e, t)
    /\ TeamCall(c, "createApp", e, [NoCall EXCEPT !.pc = "app.insert", !.team = t])
    /\ UNCHANGED tableVars /\ Elsewhere

\* The foreign key refuses a team that is gone.
AppInsert(c) ==
    /\ At(c, "app.insert")
    /\ \/ /\ Stands(calls[c].team)
          /\ \E a \in AppIds : appTeam[a] = Unused /\ appTeam' = [appTeam EXCEPT ![a] = calls[c].team]
       \/ ~Stands(calls[c].team) /\ UNCHANGED appTeam
    /\ Return(c)
    /\ UNCHANGED <<users, teams, members>> /\ Elsewhere

\* Its subscriptions and consumers went before it (AppCredentials).
DeleteApp(c, e, a) ==
    /\ IsMemberOfApp(e, a)
    /\ TeamCall(c, "deleteApp", e, [NoCall EXCEPT !.pc = "app.delete", !.app = a])
    /\ UNCHANGED tableVars /\ Elsewhere

AppDelete(c) ==
    /\ At(c, "app.delete")
    /\ appTeam' = [appTeam EXCEPT ![calls[c].app] = Gone]
    /\ Return(c)
    /\ UNCHANGED <<users, teams, members>> /\ Elsewhere

TeamsNext ==
    \/ \E c \in Calls, e \in world.emails, t \in TeamIds :
          \/ DeleteTeam(c, e, t) \/ CreateApp(c, e, t)
          \/ \E target \in world.emails : AddMember(c, e, t, target) \/ RemoveMember(c, e, t, target)
    \/ \E c \in Calls, e \in world.emails, a \in AppIds : DeleteApp(c, e, a)
    \/ \E e \in world.emails : CreateTeam(e)
    \/ \E c \in Calls :
          \/ AddPersonal(c) \/ AddInsert(c) \/ RemoveRole(c) \/ RemoveCount(c) \/ RemoveDelete(c)
          \/ TeamApps(c) \/ TeamDelete(c) \/ AppInsert(c) \/ AppDelete(c)

=============================================================================
