----------------------------- MODULE Admission -----------------------------
(***************************************************************************)
(* What the portal promises about who gets through the production gateway: *)
(* an admin's approval comes first, admission follows it, and only then is *)
(* the subscription shown as active; a subscription stops being active     *)
(* before its application is shut out, and nobody who is active is ever    *)
(* shut out.  One atomic step per promise; no requests, no gateway calls.  *)
(***************************************************************************)
CONSTANTS Apps, Products

VARIABLES
    status,    \* of each (application, product)
    approved,  \* pairs an admin has approved
    admitted   \* pairs the gateway lets through

Pairs == Apps \X Products
avars == <<status, approved, admitted>>

AdmissionInit ==
    /\ status = [x \in Pairs |-> "none"]
    /\ approved = {}
    /\ admitted = {}

Request(x) ==
    /\ status[x] # "active"
    /\ status' = [status EXCEPT ![x] = "pending"]
    /\ UNCHANGED <<approved, admitted>>

Decide(x) ==
    /\ status[x] \in {"pending", "active"}
    /\ approved' = approved \cup {x}
    /\ UNCHANGED <<status, admitted>>

\* The gateway's list for one product is replaced: everyone active stays in,
\* and a newcomer is an application approved and still waiting.
Rebuild(p) ==
    \E S \in SUBSET Apps :
       /\ \A a \in Apps : status[<<a, p>>] = "active" => a \in S
       /\ \A a \in S : \/ status[<<a, p>>] = "active"
                       \/ status[<<a, p>>] = "pending" /\ <<a, p>> \in approved
       /\ admitted' = {x \in admitted : x[2] # p} \cup {<<a, p>> : a \in S}
       /\ UNCHANGED <<status, approved>>

Activate(x) ==
    /\ status[x] = "pending" /\ x \in approved /\ x \in admitted
    /\ status' = [status EXCEPT ![x] = "active"]
    /\ UNCHANGED <<approved, admitted>>

Revoke(x) ==
    /\ status[x] # "none"
    /\ \E s \in {"none", "rejected"} : status' = [status EXCEPT ![x] = s]
    /\ UNCHANGED <<approved, admitted>>

AdmissionNext ==
    \/ \E x \in Pairs : Request(x) \/ Decide(x) \/ Activate(x) \/ Revoke(x)
    \/ \E p \in Products : Rebuild(p)

AdmissionSpec == AdmissionInit /\ [][AdmissionNext]_avars

=============================================================================
