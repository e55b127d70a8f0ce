--------------------------- MODULE AppCredentials ---------------------------
(***************************************************************************)
(* What an application's owner does besides subscribing: rotate its        *)
(* production or sandbox key, opt into the sandbox, register an OIDC       *)
(* client id, delete the application.                                      *)
(***************************************************************************)
EXTENDS SubscriptionService

-----------------------------------------------------------------------------
(* RotateKey and RotateSandboxKey: the gateway first, then the database *)

Rotate(r, a) ==
    /\ nextKey <= MaxKeys
    /\ a \in apps /\ creds[a].key # 0
    /\ \E limit \in ActivePlanLimits(a) :
          Begin(r, "rotate",
                [NoReq EXCEPT !.pc = "rotate.consumer", !.app = a, !.limit = limit])
    /\ Unprovisioned /\ UNCHANGED routes

RotateSandbox(r, a) ==
    /\ nextKey <= MaxKeys
    /\ SandboxConfigured
    /\ a \in apps /\ creds[a].sandboxKey # 0
    /\ \E limit \in ActivePlanLimits(a) :
          Begin(r, "rotateSandbox",
                [NoReq EXCEPT !.pc = "rotate.consumer", !.app = a, !.limit = limit])
    /\ Unprovisioned /\ UNCHANGED routes

\* Mutant: the database is written before the gateway.
RotateDatabaseFirst(r) ==
    /\ At(r, "rotate.consumer")
    /\ creds' = [creds EXCEPT ![req[r].app].key = nextKey]
    /\ nextKey' = nextKey + 1
    /\ req' = [req EXCEPT ![r] = [@ EXCEPT !.pc = "rotate.save", !.key = nextKey]]
    /\ UNCHANGED <<adminVars, appVars, subVars, billVars, gwVars, faults, histVars>>

RotateConsumer(r) ==
    /\ At(r, "rotate.consumer")
    /\ EnsureConsumer(IF req[r].op = "rotate" THEN "production" ELSE "sandbox",
                      req[r].app, nextKey, req[r].limit)
    /\ nextKey' = nextKey + 1
    /\ req' = [req EXCEPT ![r] = [@ EXCEPT !.pc = "rotate.save", !.key = nextKey]]
    /\ UNCHANGED <<adminVars, appVars, subVars, creds, billVars, routes, faults, histVars>>

\* UPDATE credentials ... WHERE application_id; no row is an error.
SaveKey(r, env) ==
    IF creds[req[r].app].key = 0 THEN UNCHANGED creds
    ELSE creds' = [creds EXCEPT ![req[r].app] =
             IF env = "production" THEN [@ EXCEPT !.key = req[r].key]
                                   ELSE [@ EXCEPT !.sandboxKey = req[r].key]]

\* Mutant: the new key is returned but not stored.
RotateUnsaved(r) ==
    /\ At(r, "rotate.save")
    /\ Finish(r)
    /\ Unprovisioned /\ UNCHANGED routes

RotateSave(r) ==
    /\ At(r, "rotate.save")
    /\ SaveKey(r, IF req[r].op = "rotate" THEN "production" ELSE "sandbox")
    /\ Finish(r)
    /\ UNCHANGED <<adminVars, appVars, subVars, nextKey, billVars, gwVars, faults, histVars>>

-----------------------------------------------------------------------------
(* EnableSandbox *)

\* The products are listed once; each of their sandbox routes admits the
\* application whatever became of its subscription meanwhile.
EnableSandbox(r, a) ==
    /\ SandboxConfigured
    /\ a \in apps /\ creds[a].key # 0
    /\ SandboxProductsForApp(a) # {}
    /\ \E limit \in ActivePlanLimits(a) :
          Begin(r, "enableSandbox",
                [NoReq EXCEPT !.pc = "enable.consumer", !.app = a, !.limit = limit,
                              !.key = creds[a].sandboxKey, !.extra = {a},
                              !.todo = SandboxProductsForApp(a)])
    /\ Unprovisioned /\ UNCHANGED routes

\* A first call generates the key, a later one re-installs the stored key.
EnableConsumer(r) ==
    /\ At(r, "enable.consumer")
    /\ LET fresh == req[r].key = 0
           key == IF fresh THEN nextKey ELSE req[r].key
       IN  /\ EnsureConsumer("sandbox", req[r].app, key, req[r].limit)
           /\ nextKey' = IF fresh THEN nextKey + 1 ELSE nextKey
           /\ req' = [req EXCEPT ![r] = [@ EXCEPT !.pc = "enable.save", !.key = key]]
    /\ UNCHANGED <<adminVars, appVars, subVars, creds, billVars, routes, faults, histVars>>

EnableSave(r) ==
    /\ At(r, "enable.save")
    /\ SaveKey(r, "sandbox")
    /\ IF creds[req[r].app].key = 0 THEN Finish(r) ELSE NextInTodo(r, "sandbox.product")
    /\ UNCHANGED <<adminVars, appVars, subVars, nextKey, billVars, gwVars, faults, histVars>>

-----------------------------------------------------------------------------
(* SetOIDCClientID *)

SetOidc(r, a, c) ==
    /\ a \in apps
    /\ oidc' = [oidc EXCEPT ![a] = c]
    /\ claims' = [claims EXCEPT ![a] = @ \cup ({c} \ {None})]
    /\ Begin(r, "setOidc", [NoReq EXCEPT !.pc = "oidc.products", !.app = a])
    /\ UNCHANGED <<adminVars, apps, subVars, keyVars, billVars, gwVars, faults, approvals>>

OidcProducts(r) ==
    /\ At(r, "oidc.products")
    /\ LET ps == OAuthProductsForApp(req[r].app) IN
       \/ ps = {} /\ Finish(r)
       \/ \E p \in ps : req' = [req EXCEPT ![r] =
             [@ EXCEPT !.pc = "route.product", !.prod = p, !.todo = ps \ {p}]]
    /\ Unprovisioned /\ UNCHANGED routes

-----------------------------------------------------------------------------
(* DeleteApplication *)

DeleteApp(r, a) ==
    /\ a \in apps
    /\ Begin(r, "deleteApp", [NoReq EXCEPT !.pc = "delete.next", !.app = a,
                                           !.todo = SubscriptionsForApp(a)])
    /\ Unprovisioned /\ UNCHANGED routes

\* Unsubscribe from the next product listed ...
DeleteNext(r) ==
    /\ At(r, "delete.next")
    /\ \E p \in req[r].todo :
          /\ DeleteSubscription(req[r].app, p)
          /\ req' = [req EXCEPT ![r] = [@ EXCEPT !.pc = "route.product", !.prod = p,
                                                 !.todo = req[r].todo \ {p}]]
    /\ UNCHANGED <<adminVars, appVars, keyVars, nextSub, gwVars, faults, histVars>>

\* ... or, past the last one, GetCredential: without one there is no consumer.
DeleteCredential(r) ==
    /\ At(r, "delete.next") /\ req[r].todo = {}
    /\ Goto(r, IF creds[req[r].app].key = 0 THEN "delete.row" ELSE "delete.consumer")
    /\ Unprovisioned /\ UNCHANGED routes

\* APISIX answers 404 for a consumer it does not hold, which is an error here.
DeleteConsumer(r) ==
    /\ At(r, "delete.consumer")
    /\ IF consumers["production"][req[r].app] = NoConsumer
       THEN Finish(r) /\ UNCHANGED consumers
       ELSE /\ DropConsumer("production", req[r].app)
            /\ Goto(r, IF SandboxConfigured THEN "delete.sandboxKey" ELSE "delete.row")
    /\ UNCHANGED <<adminVars, appVars, subVars, keyVars, billVars, routes, faults, histVars>>

\* Mutant: the sandbox consumer is forgotten.
DeleteSandboxKept(r) ==
    /\ At(r, "delete.sandboxKey")
    /\ Goto(r, "delete.row")
    /\ Unprovisioned /\ UNCHANGED routes

DeleteSandboxKey(r) ==
    /\ At(r, "delete.sandboxKey")
    /\ \/ creds[req[r].app].key = 0 /\ Finish(r)
       \/ /\ creds[req[r].app].key # 0
          /\ Goto(r, IF creds[req[r].app].sandboxKey = 0
                     THEN "delete.row" ELSE "delete.sandboxConsumer")
    /\ Unprovisioned /\ UNCHANGED routes

DeleteSandboxConsumer(r) ==
    /\ At(r, "delete.sandboxConsumer")
    /\ IF consumers["sandbox"][req[r].app] = NoConsumer
       THEN Finish(r) /\ UNCHANGED consumers
       ELSE DropConsumer("sandbox", req[r].app) /\ Goto(r, "delete.row")
    /\ UNCHANGED <<adminVars, appVars, subVars, keyVars, billVars, routes, faults, histVars>>

\* Credentials and subscriptions cascade; invoices stay, detached.
DeleteRow(r) ==
    /\ At(r, "delete.row")
    /\ LET a == req[r].app IN
       /\ apps' = apps \ {a}
       /\ oidc' = [oidc EXCEPT ![a] = None]
       /\ creds' = [creds EXCEPT ![a] = NoCred]
       /\ subs' = [x \in Apps \X Products |-> IF x[1] = a THEN NoSub ELSE subs[x]]
       /\ DetachInvoices({subs[<<a, p>>].id : p \in Products})
    /\ Finish(r)
    /\ UNCHANGED <<adminVars, nextSub, nextKey, gwVars, faults, histVars>>

CredentialsNext(r) ==
    \/ \E a \in Apps : \/ Rotate(r, a) \/ RotateSandbox(r, a) \/ EnableSandbox(r, a)
                       \/ DeleteApp(r, a)
                       \/ \E c \in ClientIds \cup {None} : SetOidc(r, a, c)
    \/ RotateConsumer(r) \/ RotateSave(r) \/ EnableConsumer(r) \/ EnableSave(r)
    \/ OidcProducts(r)
    \/ DeleteNext(r) \/ DeleteCredential(r) \/ DeleteConsumer(r)
    \/ DeleteSandboxKey(r) \/ DeleteSandboxConsumer(r) \/ DeleteRow(r)

=============================================================================
