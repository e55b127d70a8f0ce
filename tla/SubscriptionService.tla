------------------------ MODULE SubscriptionService ------------------------
(***************************************************************************)
(* The subscription life cycle: Subscribe, Unsubscribe, Approve with the   *)
(* billing of the activation, and Reject.                                  *)
(***************************************************************************)
EXTENDS RouteProvisioning

-----------------------------------------------------------------------------
(* Subscribe *)

\* Mutant: no refusal when the subscription is active.
SubscribeActive(r, a, p, pl) ==
    /\ nextSub <= MaxSubs
    /\ a \in apps /\ products[p].live /\ products[p].open /\ plans[pl].state = "live"
    /\ Begin(r, "subscribe", [NoReq EXCEPT !.app = a, !.prod = p, !.plan = pl,
                                           !.pc = "subscribe.credential"])
    /\ Unprovisioned /\ UNCHANGED routes

\* GetProduct, GetPlan and SubscriptionStatus; an early return writes nothing.
Subscribe(r, a, p, pl) ==
    /\ nextSub <= MaxSubs
    /\ a \in apps
    /\ products[p].live /\ products[p].open
    /\ plans[pl].state = "live"
    /\ subs[<<a, p>>].status # "active"
    /\ Begin(r, "subscribe", [NoReq EXCEPT !.app = a, !.prod = p, !.plan = pl,
                 !.pc = IF products[p].auth = "oauth2" THEN "subscribe.save"
                                                       ELSE "subscribe.credential"])
    /\ Unprovisioned /\ UNCHANGED routes

SubscribeCredential(r) ==
    /\ At(r, "subscribe.credential")
    /\ \/ /\ req[r].app \in apps
          /\ GetOrCreateCredential(req[r].app)
          /\ Goto(r, "subscribe.save")
       \/ /\ req[r].app \notin apps
          /\ Finish(r)
          /\ UNCHANGED keyVars
    /\ UNCHANGED <<adminVars, appVars, subVars, billVars, gwVars, faults, histVars>>

\* The insert fails on its foreign keys when the application, the product or
\* the plan is gone.
SubscribeSave(r) ==
    /\ At(r, "subscribe.save")
    /\ IF req[r].app \in apps /\ products[req[r].prod].live /\ plans[req[r].plan].state = "live"
       THEN SaveSubscription(req[r].app, req[r].prod, req[r].plan)
       ELSE UNCHANGED subVars
    /\ Finish(r)
    /\ UNCHANGED <<adminVars, appVars, keyVars, billVars, gwVars, faults, histVars>>

-----------------------------------------------------------------------------
(* Unsubscribe *)

Unsubscribe(r, a, p) ==
    /\ a \in apps
    /\ DeleteSubscription(a, p)
    /\ Begin(r, "unsubscribe",
             [NoReq EXCEPT !.pc = "route.product", !.app = a, !.prod = p])
    /\ UNCHANGED <<adminVars, appVars, keyVars, nextSub, gwVars, faults, histVars>>

-----------------------------------------------------------------------------
(* Reject *)

Reject(r, a, p) ==
    /\ subs[<<a, p>>].status \in {"pending", "active"}
    /\ Begin(r, "reject", [NoReq EXCEPT !.pc = "reject.set", !.app = a, !.prod = p,
                                        !.sub = subs[<<a, p>>].id])
    /\ Unprovisioned /\ UNCHANGED routes

\* Mutant: the route is not rebuilt.
RejectSetOnly(r) ==
    /\ At(r, "reject.set")
    /\ SetSubscriptionStatus(req[r].sub, "rejected")
    /\ Finish(r)
    /\ UNCHANGED <<adminVars, appVars, keyVars, billVars, nextSub, gwVars, faults, histVars>>

RejectSet(r) ==
    /\ At(r, "reject.set")
    /\ SetSubscriptionStatus(req[r].sub, "rejected")
    /\ IF HasSubscription(req[r].sub) THEN Goto(r, "route.product") ELSE Finish(r)
    /\ UNCHANGED <<adminVars, appVars, keyVars, billVars, nextSub, gwVars, faults, histVars>>

-----------------------------------------------------------------------------
(* Approve *)

\* Mutant: the row's status is not looked at.
ApproveRejected(r, a, p) ==
    /\ subs[<<a, p>>] # NoSub
    /\ Begin(r, "approve", [NoReq EXCEPT !.pc = "approve.product", !.app = a, !.prod = p,
                                         !.sub = subs[<<a, p>>].id, !.plan = subs[<<a, p>>].plan])
    /\ approvals' = approvals \cup
          {[app |-> a, prod |-> p, sub |-> subs[<<a, p>>].id, plan |-> subs[<<a, p>>].plan]}
    /\ UNCHANGED <<adminVars, appVars, subVars, keyVars, billVars, gwVars, faults, claims>>

\* The row is read once: the admin's decision is about this plan.
Approve(r, a, p) ==
    /\ subs[<<a, p>>].status \in {"pending", "active"}
    /\ Begin(r, "approve", [NoReq EXCEPT !.pc = "approve.product", !.app = a, !.prod = p,
                                         !.sub = subs[<<a, p>>].id, !.plan = subs[<<a, p>>].plan])
    /\ approvals' = approvals \cup
          {[app |-> a, prod |-> p, sub |-> subs[<<a, p>>].id, plan |-> subs[<<a, p>>].plan]}
    /\ UNCHANGED <<adminVars, appVars, subVars, keyVars, billVars, gwVars, faults, claims>>

ApproveProduct(r) ==
    /\ At(r, "approve.product")
    /\ \/ ~products[req[r].prod].live /\ Finish(r)
       \/ /\ products[req[r].prod].live /\ products[req[r].prod].auth = "oauth2"
          /\ Goto(r, "approve.clientId")
       \/ /\ products[req[r].prod].live /\ products[req[r].prod].auth = "key-auth"
          /\ plans[req[r].plan].state = "live"
          /\ req' = [req EXCEPT ![r] = [@ EXCEPT !.pc = "approve.credential",
                                                 !.limit = plans[req[r].plan].limit]]
       \/ /\ products[req[r].prod].live /\ products[req[r].prod].auth = "key-auth"
          /\ plans[req[r].plan].state # "live"
          /\ Finish(r)
    /\ Unprovisioned /\ UNCHANGED routes

\* Mutant: the client id is not handed to reprovisionRoute.
ApproveClientIdUnused(r) ==
    /\ At(r, "approve.clientId")
    /\ Goto(r, "route.product")
    /\ Unprovisioned /\ UNCHANGED routes

\* The error of GetAppOIDCClientID is dropped: no row, or a fault, is no id.
ApproveClientId(r) ==
    /\ At(r, "approve.clientId")
    /\ \/ /\ req' = [req EXCEPT ![r] = [@ EXCEPT !.pc = "route.product",
                                                 !.extra = {oidc[req[r].app]} \ {None}]]
          /\ UNCHANGED faults
       \/ /\ faults > 0
          /\ faults' = faults - 1
          /\ Goto(r, "route.product")
    /\ UNCHANGED <<adminVars, appVars, subVars, keyVars, billVars, gwVars, histVars>>

ApproveCredential(r) ==
    /\ At(r, "approve.credential")
    /\ \/ /\ req[r].app \in apps
          /\ GetOrCreateCredential(req[r].app)
          /\ req' = [req EXCEPT ![r] = [@ EXCEPT !.pc = "approve.consumer",
                                                 !.key = creds'[req[r].app].key]]
       \/ /\ req[r].app \notin apps
          /\ Finish(r)
          /\ UNCHANGED keyVars
    /\ UNCHANGED <<adminVars, appVars, subVars, billVars, gwVars, faults, histVars>>

\* Mutant: the consumer is not installed.
ApproveConsumerSkipped(r) ==
    /\ At(r, "approve.consumer")
    /\ req' = [req EXCEPT ![r] = [@ EXCEPT !.pc = "route.product", !.extra = {req[r].app}]]
    /\ Unprovisioned /\ UNCHANGED routes

\* Mutant: the subscription is activated before the route is pushed.
ApproveConsumerThenActivate(r) ==
    /\ At(r, "approve.consumer")
    /\ EnsureConsumer("production", req[r].app, req[r].key, req[r].limit)
    /\ Goto(r, "approve.activate")
    /\ UNCHANGED <<adminVars, appVars, subVars, keyVars, billVars, routes, faults, histVars>>

\* Mutant: a consumer the gateway holds already is not installed again.
ApproveConsumerOnce(r) ==
    /\ At(r, "approve.consumer")
    /\ IF consumers["production"][req[r].app] # NoConsumer THEN UNCHANGED consumers
       ELSE EnsureConsumer("production", req[r].app, req[r].key, req[r].limit)
    /\ req' = [req EXCEPT ![r] = [@ EXCEPT !.pc = "route.product", !.extra = {req[r].app}]]
    /\ UNCHANGED <<adminVars, appVars, subVars, keyVars, billVars, routes, faults, histVars>>

ApproveConsumer(r) ==
    /\ At(r, "approve.consumer")
    /\ EnsureConsumer("production", req[r].app, req[r].key, req[r].limit)
    /\ req' = [req EXCEPT ![r] = [@ EXCEPT !.pc = "route.product", !.extra = {req[r].app}]]
    /\ UNCHANGED <<adminVars, appVars, subVars, keyVars, billVars, routes, faults, histVars>>

\* Mutant: the oauth2 branch returns without billing.
ApproveActivateUnbilled(r) ==
    /\ At(r, "approve.activate")
    /\ SetSubscriptionStatus(req[r].sub, "active")
    /\ IF ~HasSubscription(req[r].sub) \/ req[r].key = 0 THEN Finish(r)
       ELSE Goto(r, IF SandboxConfigured THEN "approve.sandbox" ELSE "bill.pricing")
    /\ UNCHANGED <<adminVars, appVars, keyVars, billVars, nextSub, gwVars, faults, histVars>>

\* Only after the route is pushed.  The key branch goes on to the sandbox.
ApproveActivate(r) ==
    /\ At(r, "approve.activate")
    /\ SetSubscriptionStatus(req[r].sub, "active")
    /\ IF ~HasSubscription(req[r].sub) THEN Finish(r)
       ELSE Goto(r, IF req[r].key # 0 /\ SandboxConfigured
                    THEN "approve.sandbox" ELSE "bill.pricing")
    /\ UNCHANGED <<adminVars, appVars, keyVars, billVars, nextSub, gwVars, faults, histVars>>

\* A failed GetSandboxKey counts as an application without a sandbox key.
ApproveSandbox(r) ==
    /\ At(r, "approve.sandbox")
    /\ \/ creds[req[r].app].sandboxKey # 0 /\ Goto(r, "sandbox.product") /\ UNCHANGED faults
       \/ creds[req[r].app].sandboxKey = 0 /\ Goto(r, "bill.pricing") /\ UNCHANGED faults
       \/ faults > 0 /\ faults' = faults - 1 /\ Goto(r, "bill.pricing")
    /\ UNCHANGED <<adminVars, appVars, subVars, keyVars, billVars, gwVars, histVars>>

\* Mutant: PendingInvoiceExists is not asked.
BillPricingAgain(r) ==
    /\ At(r, "bill.pricing")
    /\ IF plans[req[r].plan].state = "live" /\ plans[req[r].plan].paid THEN Goto(r, "bill.create") ELSE Finish(r)
    /\ Unprovisioned /\ UNCHANGED routes

\* SubscriptionActivated: PlanPricing and PendingInvoiceExists ...
BillPricing(r) ==
    /\ At(r, "bill.pricing")
    /\ IF /\ plans[req[r].plan].state = "live" /\ plans[req[r].plan].paid
          /\ ~PendingInvoiceExists(req[r].sub)
       THEN Goto(r, "bill.create") ELSE Finish(r)
    /\ Unprovisioned /\ UNCHANGED routes

\* Mutant: the plan is read again from the subscription.
BillCreateCurrentPlan(r) ==
    /\ At(r, "bill.create")
    /\ \/ /\ req[r].app \in apps /\ HasSubscription(req[r].sub)
          /\ invoices' = Append(invoices,
                [sub |-> req[r].sub, plan |-> subs[<<req[r].app, req[r].prod>>].plan, status |-> "pending"])
       \/ /\ ~(req[r].app \in apps /\ HasSubscription(req[r].sub))
          /\ UNCHANGED invoices
    /\ Finish(r)
    /\ UNCHANGED <<adminVars, appVars, subVars, keyVars, gwVars, faults, histVars>>

\* ... then TeamForApp, EnsureAccount, Charge and CreateInvoice, which needs
\* the application and the subscription row to exist.
BillCreate(r) ==
    /\ At(r, "bill.create")
    /\ \/ /\ req[r].app \in apps /\ HasSubscription(req[r].sub)
          /\ invoices' = Append(invoices,
                [sub |-> req[r].sub, plan |-> req[r].plan, status |-> "pending"])
       \/ /\ ~(req[r].app \in apps /\ HasSubscription(req[r].sub))
          /\ UNCHANGED invoices
    /\ Finish(r)
    /\ UNCHANGED <<adminVars, appVars, subVars, keyVars, gwVars, faults, histVars>>

SubscriptionNext(r) ==
    \/ \E a \in Apps, p \in Products, pl \in Plans : Subscribe(r, a, p, pl)
    \/ \E a \in Apps, p \in Products :
          Unsubscribe(r, a, p) \/ Reject(r, a, p) \/ Approve(r, a, p)
    \/ SubscribeCredential(r) \/ SubscribeSave(r) \/ RejectSet(r)
    \/ ApproveProduct(r) \/ ApproveClientId(r) \/ ApproveCredential(r) \/ ApproveConsumer(r)
    \/ ApproveActivate(r) \/ ApproveSandbox(r) \/ BillPricing(r) \/ BillCreate(r)

=============================================================================
