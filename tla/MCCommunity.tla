---------------------------- MODULE MCCommunity ----------------------------
(* A small instance of Community for TLC. *)
EXTENDS Community, TLC

CONSTANTS boss, dev, t1, t2, t3, x1, x2, c1, c2

\* A burst of two, one back in a time unit, dropped after two idle units.
Two == [l \in Limiters |-> 2]
One == [l \in Limiters |-> 1]
SameKey == [e \in Emails |-> e]

\* The limiters as time passes; verification with two accounts and a gate an
\* admin moves; links that expire; teams.
SmallWorlds ==
    {[ops |-> {"register", "login", "tick"}, emails |-> {dev}, until |-> 6, links |-> 0],
     [ops |-> AccountOps \ {"tick", "login"}, emails |-> {boss, dev}, until |-> 0, links |-> 3],
     [ops |-> AccountOps, emails |-> {boss}, until |-> 3, links |-> 2],
     [ops |-> {"register"} \cup TeamOps, emails |-> {boss, dev}, until |-> 0, links |-> 0]}
CommunitySymmetry == Permutations(TeamIds) \cup Permutations(Calls)

=============================================================================
