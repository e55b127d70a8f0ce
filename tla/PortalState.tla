---------------------------- MODULE PortalState ----------------------------
(***************************************************************************)
(* State shared by the handlers of the developer portal: the Postgres      *)
(* tables they read and write one autocommit statement at a time, what the *)
(* production and the sandbox APISIX gateways hold, and the HTTP requests  *)
(* in progress.  A request is a record of the local variables of its       *)
(* handler; the actions of the modules that extend this one each perform   *)
(* one SQL statement or one APISIX Admin API call of one request.          *)
(***************************************************************************)
EXTENDS Integers, Sequences, FiniteSets

CONSTANTS
    Apps,              \* applications, each named by its consumer name app_<id>
    Products,          \* API products, each named by its route id prod_<id>
    Plans,
    ClientIds,         \* OIDC client ids an application may register
    Requests,          \* HTTP requests that may be in progress together
    None,              \* SQL NULL, an empty string, an unset local
    Catalogue,         \* the product tables a behaviour may start from
    Edits,             \* the product rows an admin may save
    PlanTable,         \* the plan table at the start
    PlanEdits,         \* the plan rows an admin may save
    Ops,               \* the operations clients of this instance call
    SandboxConfigured, \* sandbox gateway settings are present
    IssuerConfigured,  \* OIDC_ISSUER is set
    MaxSubs,           \* bound: no Subscribe starts once this many rows were inserted
    MaxKeys,           \* bound: no rotation starts once this many keys were generated
    MaxInvoices,       \* bound: no invoice is voided once this many were created
    MaxFaults          \* bound: requests that fail half way

OpNames == {"subscribe", "unsubscribe", "approve", "reject", "rotate",
            "enableSandbox", "rotateSandbox", "setOidc", "deleteApp",
            "updateProduct", "deleteProduct", "createPlan", "updatePlan", "deletePlan",
            "markPaid", "void"}
\* Where a handler is: the statement or gateway call it performs next.
PcNames ==
    {"idle", "route.product", "route.members", "route.push",
     "sandbox.product", "sandbox.members", "sandbox.push",
     "subscribe.credential", "subscribe.save", "reject.set",
     "approve.product", "approve.clientId", "approve.credential", "approve.consumer",
     "approve.activate", "approve.sandbox", "bill.pricing", "bill.create",
     "rotate.consumer", "rotate.save", "enable.consumer", "enable.save", "oidc.products",
     "delete.next", "delete.consumer", "delete.sandboxKey", "delete.sandboxConsumer",
     "delete.row",
     "product.save", "product.count", "product.delete", "product.deprovision",
     "plan.save", "plan.read", "plan.consumers", "plan.push", "plan.sandboxConsumers",
     "plan.sandboxPush", "plan.delete"}
AuthTypes == {"key-auth", "oauth2"}
Envs == {"production", "sandbox"}
Statuses == {"pending", "active", "rejected"}

\* A consumer name or a client id: what a gateway route can admit.
Identities == Apps \cup ClientIds

ProductRow == [live : BOOLEAN, open : BOOLEAN, auth : AuthTypes, sandbox : BOOLEAN]
\* Ids come from a sequence: a plan's id is unused, then a row's, then gone.
PlanRow == [state : {"unused", "live", "gone"}, limit : Nat, paid : BOOLEAN]
SubRow == [id : Nat, plan : Plans \cup {None}, status : Statuses \cup {"none"}]
CredRow == [key : Nat, sandboxKey : Nat]
InvoiceRow == [sub : Nat, plan : Plans, status : {"pending", "paid", "void"}]
ConsumerObj == [key : Nat, limit : Nat]
RouteObj == [kind : AuthTypes \cup {"none"}, allowed : SUBSET Identities]
Approval == [app : Apps, prod : Products, sub : Nat, plan : Plans]

NoProduct == [live |-> FALSE, open |-> FALSE, auth |-> "key-auth", sandbox |-> FALSE]
NoSub == [id |-> 0, plan |-> None, status |-> "none"]
NoCred == [key |-> 0, sandboxKey |-> 0]
NoConsumer == [key |-> 0, limit |-> 0]
NoRoute == [kind |-> "none", allowed |-> {}]
NoKeys == [a \in Apps |-> 0]

Request == [op : OpNames \cup {"none"}, pc : PcNames,
            app : Apps \cup {None}, prod : Products \cup {None},
            sub : Nat, plan : Plans \cup {None}, key : Nat, limit : Nat,
            auth : AuthTypes \cup {"none"}, extra : SUBSET Identities,
            allowed : SUBSET Identities, todo : SUBSET Products,
            row : ProductRow, work : SUBSET {"count", "route", "sandbox"},
            keys : [Apps -> Nat]]

NoReq == [op |-> "none", pc |-> "idle", app |-> None, prod |-> None,
          sub |-> 0, plan |-> None, key |-> 0, limit |-> 0,
          auth |-> "none", extra |-> {}, allowed |-> {}, todo |-> {},
          row |-> NoProduct, work |-> {}, keys |-> NoKeys]

ASSUME NoneIsNoRow == None \notin Apps \cup Products \cup Plans \cup ClientIds
ASSUME CatalogueType == Catalogue \subseteq [Products -> ProductRow]
ASSUME EditsType == Edits \subseteq {row \in ProductRow : row.live}
ASSUME PlanTableType == PlanTable \in [Plans -> PlanRow]
ASSUME PlanEditsType == PlanEdits \subseteq {row \in PlanRow : row.state = "live"}
ASSUME BoundsType == {MaxSubs, MaxKeys, MaxInvoices, MaxFaults} \subseteq Nat
ASSUME SettingsType == {SandboxConfigured, IssuerConfigured} \subseteq BOOLEAN
ASSUME OpsType == Ops \subseteq OpNames

VARIABLES
    products,  \* table api_products
    plans,     \* table plans, by id
    apps,      \* ids in table applications
    oidc,      \* applications.oidc_client_id
    subs,      \* table subscriptions, by its unique (application, product)
    creds,     \* table credentials, by its unique application
    invoices,  \* table invoices, in order of id
    nextSub,   \* next value of the subscriptions id sequence
    nextKey,   \* next API key GenerateKey returns
    consumers, \* per gateway: APISIX consumers
    routes,    \* per gateway: APISIX routes
    req,       \* the requests in progress
    faults,    \* requests that may still fail half way
    approvals, \* history: subscriptions an admin approved, as read then
    claims     \* history: client ids each application ever registered

adminVars == <<products, plans>>
appVars == <<apps, oidc>>
billVars == <<invoices>>
keyVars == <<creds, nextKey>>
subVars == <<subs, nextSub>>
gwVars == <<consumers, routes>>
histVars == <<approvals, claims>>
vars == <<products, plans, apps, oidc, subs, creds, invoices, nextSub, nextKey,
          consumers, routes, req, faults, approvals, claims>>

TypeOK ==
    /\ products \in [Products -> ProductRow]
    /\ plans \in [Plans -> PlanRow]
    /\ apps \subseteq Apps
    /\ oidc \in [Apps -> ClientIds \cup {None}]
    /\ subs \in [Apps \X Products -> SubRow]
    /\ creds \in [Apps -> CredRow]
    /\ invoices \in Seq(InvoiceRow)
    /\ nextSub \in Nat \ {0}
    /\ nextKey \in Nat \ {0}
    /\ consumers \in [Envs -> [Apps -> ConsumerObj]]
    /\ routes \in [Envs -> [Products -> RouteObj]]
    /\ req \in [Requests -> Request]
    /\ faults \in Nat
    /\ approvals \subseteq Approval
    /\ claims \in [Apps -> SUBSET ClientIds]

\* Applications exist and nothing has been subscribed to or provisioned yet.
Init ==
    /\ products \in Catalogue
    /\ plans = PlanTable
    /\ apps = Apps
    /\ oidc = [a \in Apps |-> None]
    /\ subs = [x \in Apps \X Products |-> NoSub]
    /\ creds = [a \in Apps |-> NoCred]
    /\ invoices = <<>>
    /\ nextSub = 1
    /\ nextKey = 1
    /\ consumers = [e \in Envs |-> [a \in Apps |-> NoConsumer]]
    /\ routes = [e \in Envs |-> [p \in Products |-> NoRoute]]
    /\ req = [r \in Requests |-> NoReq]
    /\ faults = MaxFaults
    /\ approvals = {}
    /\ claims = [a \in Apps |-> {}]

-----------------------------------------------------------------------------
(* Queries *)

\* Mutant: the query lacks its status = 'active'.
ActiveAppsAnyStatus(p) == {a \in Apps : subs[<<a, p>>].status # "none"}

ActiveApps(p) == {a \in Apps : subs[<<a, p>>].status = "active"}
ActiveProducts(a) == {p \in Products : subs[<<a, p>>].status = "active"}

ConsumersForProduct(p) == {a \in ActiveApps(p) : creds[a].key # 0}
OAuthClientsForProduct(p) == {oidc[a] : a \in ActiveApps(p)} \ {None}
SandboxConsumersForProduct(p) == {a \in ActiveApps(p) : creds[a].sandboxKey # 0}
OAuthProductsForApp(a) == {p \in ActiveProducts(a) : products[p].auth = "oauth2"}
SandboxProductsForApp(a) == {p \in ActiveProducts(a) : products[p].sandbox}
\* Of the active subscribers on the plan, the keys to install; 0 is none.
ActiveOnPlan(a, pl) == \E p \in ActiveProducts(a) : subs[<<a, p>>].plan = pl
ConsumersForPlan(pl) == [a \in Apps |-> IF ActiveOnPlan(a, pl) THEN creds[a].key ELSE 0]
SandboxConsumersForPlan(pl) ==
    [a \in Apps |-> IF ActiveOnPlan(a, pl) THEN creds[a].sandboxKey ELSE 0]
PlanReferenced(pl) == \E x \in Apps \X Products : subs[x] # NoSub /\ subs[x].plan = pl
SubscriptionsForApp(a) == {p \in Products : subs[<<a, p>>] # NoSub}

\* The limits ActivePlanForApp returns: those of the active subscription
\* created last (ids grow with created_at); none without an active one.
LatestActive(a) == {p \in ActiveProducts(a) :
                       \A o \in ActiveProducts(a) : subs[<<a, o>>].id <= subs[<<a, p>>].id}
ActivePlanLimits(a) == {plans[subs[<<a, p>>].plan].limit : p \in LatestActive(a)}

PendingInvoiceExists(id) ==
    \E n \in DOMAIN invoices : invoices[n].sub = id /\ invoices[n].status # "void"

-----------------------------------------------------------------------------
(* Statements *)

\* Mutant: a subscription is active at once, as before approvals existed.
SaveSubscriptionByDefault(a, p, pl) ==
    /\ subs' = [subs EXCEPT ![<<a, p>>] =
           [id |-> IF @ = NoSub THEN nextSub ELSE @.id, plan |-> pl, status |-> "active"]]
    /\ nextSub' = IF subs[<<a, p>>] = NoSub THEN nextSub + 1 ELSE nextSub

\* INSERT ... ON CONFLICT: a conflicting row keeps its id and created_at.
SaveSubscription(a, p, pl) ==
    IF subs[<<a, p>>] = NoSub
    THEN /\ subs' = [subs EXCEPT ![<<a, p>>] =
                        [id |-> nextSub, plan |-> pl, status |-> "pending"]]
         /\ nextSub' = nextSub + 1
    ELSE /\ subs' = [subs EXCEPT ![<<a, p>>] = [@ EXCEPT !.plan = pl, !.status = "pending"]]
         /\ UNCHANGED nextSub

\* ON DELETE SET NULL of invoices.subscription_id.
DetachInvoices(ids) ==
    invoices' = [n \in DOMAIN invoices |->
                    IF invoices[n].sub \in ids THEN [invoices[n] EXCEPT !.sub = 0]
                                               ELSE invoices[n]]

DeleteSubscription(a, p) ==
    /\ subs' = [subs EXCEPT ![<<a, p>>] = NoSub]
    /\ DetachInvoices({subs[<<a, p>>].id})

\* UPDATE ... WHERE id = $1, whatever the row's current status.
IsSubscription(x, id) == subs[x] # NoSub /\ subs[x].id = id
HasSubscription(id) == \E x \in Apps \X Products : IsSubscription(x, id)
SetSubscriptionStatus(id, status) ==
    subs' = [x \in Apps \X Products |->
                IF IsSubscription(x, id) THEN [subs[x] EXCEPT !.status = status] ELSE subs[x]]

\* Mutant: ON CONFLICT replaces the key.
GetOrReplaceCredential(a) ==
    /\ creds' = [creds EXCEPT ![a].key = nextKey]
    /\ nextKey' = nextKey + 1

\* An existing credential keeps its key; a fresh key is used only on insert.
GetOrCreateCredential(a) ==
    IF creds[a].key = 0
    THEN /\ creds' = [creds EXCEPT ![a].key = nextKey]
         /\ nextKey' = nextKey + 1
    ELSE UNCHANGED <<creds, nextKey>>

-----------------------------------------------------------------------------
(* APISIX Admin API *)

EnsureConsumer(env, a, k, limit) ==
    consumers' = [consumers EXCEPT ![env] = [@ EXCEPT ![a] = [key |-> k, limit |-> limit]]]
DropConsumer(env, a) ==
    consumers' = [consumers EXCEPT ![env] = [@ EXCEPT ![a] = NoConsumer]]

PutRoute(env, p, kind, allowed) ==
    routes' = [routes EXCEPT ![env] = [@ EXCEPT ![p] = [kind |-> kind, allowed |-> allowed]]]
DeleteRoute(env, p) ==
    routes' = [routes EXCEPT ![env] = [@ EXCEPT ![p] = NoRoute]]

-----------------------------------------------------------------------------
(* Requests *)

Idle(r) == req[r].op = "none"
At(r, pc) == req[r].pc = pc
\* The first statement of a handler ran: q holds the locals it set.
Begin(r, op, q) == /\ Idle(r) /\ op \in Ops
                   /\ req' = [req EXCEPT ![r] = [q EXCEPT !.op = op]]
Goto(r, pc) == req' = [req EXCEPT ![r] = [@ EXCEPT !.pc = pc]]
\* The handler returns, with a result or an error; its locals are gone.
Finish(r) == req' = [req EXCEPT ![r] = NoReq]

\* A statement or call returned an error, the client went away and cancelled
\* the context, or the process stopped: the handler does nothing more.  A call
\* that took effect but reported an error is that step, then this one.
Fail(r) ==
    /\ ~Idle(r) /\ faults > 0
    /\ faults' = faults - 1
    /\ Finish(r)
    /\ UNCHANGED <<adminVars, appVars, subVars, keyVars, billVars, gwVars, histVars>>

=============================================================================
