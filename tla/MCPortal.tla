------------------------------ MODULE MCPortal ------------------------------
(* Small instances of Portal for TLC. *)
EXTENDS Portal, TLC

CONSTANTS a1, a2, p1, p2, free, gold, c1, r1, r2

Product(auth, sandbox) == [live |-> TRUE, open |-> TRUE, auth |-> auth, sandbox |-> sandbox]

KeyAuthCatalogue == {[p \in Products |-> Product("key-auth", FALSE)]}
OAuthCatalogue == {[p \in Products |-> Product("oauth2", FALSE)]}

\* Any products but one of both kinds, whose sandbox route Approve neglects.
PlainEdit == {Product("key-auth", TRUE), Product("key-auth", FALSE), Product("oauth2", FALSE)}
PlainCatalogue == [Products -> PlainEdit]

\* p1 by key and with a sandbox, the others by client id.
MixedCatalogue == {[p \in Products |-> IF p = p1 THEN Product("key-auth", TRUE)
                                                ELSE Product("oauth2", FALSE)]}

\* The same, or all by client id.
LoopCatalogue == MixedCatalogue \cup OAuthCatalogue

\* One product by key, with a sandbox.
SandboxCatalogue == {[p \in Products |-> Product("key-auth", TRUE)]}

\* p1 by key, the others by client id, all with a sandbox.
SharedCatalogue == {[p \in Products |-> Product(IF p = p1 THEN "key-auth" ELSE "oauth2", TRUE)]}

\* A product is closed to new subscribers, or its upstream moves, or both.
ClosingEdit == {[Product("key-auth", FALSE) EXCEPT !.open = FALSE]}

\* A product is migrated to oauth2 and loses its sandbox.  None comes back:
\* SubscribersKept says what a way back would do.
MigratingEdit == {Product("oauth2", FALSE)}

AnyEdit == {Product(auth, sandbox) : auth \in AuthTypes, sandbox \in BOOLEAN}
           \cup {[Product("key-auth", TRUE) EXCEPT !.open = FALSE]}

Plan(limit, paid) == [state |-> "live", limit |-> limit, paid |-> paid]
PaidTable == [pl \in Plans |-> IF pl = gold THEN Plan(2, TRUE) ELSE Plan(1, FALSE)]

\* Two plans that nothing but their ids tells apart.
EqualTable == [pl \in Plans |-> Plan(2, TRUE)]

\* No plan yet, one may be created.
NoPlanTable == [pl \in Plans |-> [Plan(0, FALSE) EXCEPT !.state = "unused"]]

LimitEdits == {Plan(3, FALSE)}
GoldEdits == {Plan(2, TRUE)}

LifeCycle == {"subscribe", "unsubscribe", "approve", "reject"}
KeyOps == LifeCycle \cup {"rotate"}
FaultOps == KeyOps \cup {"void", "updateProduct"}
OwnerOps == KeyOps \cup {"enableSandbox", "rotateSandbox", "setOidc", "deleteApp"}
ExactOps == OwnerOps \cup {"updatePlan", "updateProduct", "deleteProduct"}
LoopOps == LifeCycle \cup {"enableSandbox", "setOidc", "deleteApp", "createPlan", "markPaid", "void"}
OverlapOps == {"subscribe", "approve", "setOidc", "deleteProduct"}
RaceOps == LifeCycle \cup {"enableSandbox", "deleteProduct", "deletePlan"}
DeleteOps == {"subscribe", "approve", "enableSandbox", "setOidc", "deleteApp"}
SandboxOps == LifeCycle \cup {"enableSandbox"}
EditOps == {"subscribe", "approve", "rotate", "updatePlan"}
ClientOps == {"subscribe", "approve", "setOidc"}
MigrationOps == ClientOps \cup {"updateProduct"}
RemovalOps == {"subscribe", "unsubscribe", "approve", "enableSandbox", "deleteProduct"}

RequestSymmetry == Permutations(Requests)
PlanSymmetry == Permutations(Requests) \cup Permutations(Plans)
AppSymmetry == Permutations(Requests) \cup Permutations(Apps)

=============================================================================
