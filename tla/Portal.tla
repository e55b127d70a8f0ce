------------------------------- MODULE Portal -------------------------------
(***************************************************************************)
(* The developer portal: every handler that provisions the gateways, with  *)
(* up to Cardinality(Requests) requests in progress at once, and what the  *)
(* portal promises about the database and the gateways.                    *)
(***************************************************************************)
EXTENDS Billing, ProductAdmin, PlanAdmin

\* A statement or call of request r, or the start of a request in slot r.
Step(r) == SubscriptionNext(r) \/ RouteNext(r) \/ CredentialsNext(r) \/ ProductNext(r) \/ PlanNext(r)

Next == \/ BillingNext
        \/ \E pl \in Plans, row \in PlanEdits : CreatePlan(pl, row)
        \/ \E r \in Requests : Step(r) \/ Fail(r)

Spec == Init /\ [][Next]_vars

\* A started handler goes on: its goroutine runs, its calls time out.
\* Nothing makes a client start a request, or a fault happen.
FairSpec == Spec /\ \A r \in Requests : WF_vars(~Idle(r) /\ Step(r))

-----------------------------------------------------------------------------
(* Vocabulary *)

Quiescent == \A r \in Requests : Idle(r)
ActiveRow(a, p) == subs[<<a, p>>].status = "active"

\* An admin approved app for p at some time, and i is app's consumer name or
\* a client id app registered.
Vouched(i, p) == \E ap \in approvals : ap.prod = p /\ i \in {ap.app} \cup claims[ap.app]

\* What reprovisionRoute would push now.
DesiredMembers(p) == IF products[p].auth = "oauth2"
                     THEN OAuthClientsForProduct(p) ELSE ConsumersForProduct(p)
DesiredRoute(p) ==
    IF DesiredMembers(p) = {} \/ (products[p].auth = "oauth2" /\ ~IssuerConfigured)
    THEN NoRoute ELSE [kind |-> products[p].auth, allowed |-> DesiredMembers(p)]

-----------------------------------------------------------------------------
(* What holds whatever the interleaving and whichever request fails *)

\* No gateway route ever admits an identity that no admin ever approved for the
\* product.  Of an application approved once and rejected or removed since it
\* says nothing: RejectedIsExcluded and RouteIsActiveSet do.
NoGrantWithoutApproval ==
    \A e \in Envs, p \in Products : \A i \in routes[e][p].allowed : Vouched(i, p)

\* A subscription is never active unless an admin approved that very row
\* (Subscribe's "approval gate"), whatever it was resubmitted as since.
ActiveWasApproved ==
    \A a \in Apps, p \in Products : ActiveRow(a, p) =>
        \E ap \in approvals : ap.app = a /\ ap.prod = p /\ ap.sub = subs[<<a, p>>].id

\* An invoice of a live subscription bills a plan an admin approved for it,
\* never the plan a resubmission asked for afterwards.
InvoiceForApprovedPlan ==
    \A n \in DOMAIN invoices : invoices[n].sub # 0 =>
        \E ap \in approvals : ap.sub = invoices[n].sub /\ ap.plan = invoices[n].plan

\* A plan somebody subscribed to is not deleted: Delete "refuses (ErrPlanInUse)
\* while any subscription references the plan", also one saved after the count.
PlanOutlivesSubscriptions ==
    \A x \in Apps \X Products : subs[x] # NoSub => plans[subs[x].plan].state = "live"

\* Approve and EnableSandbox install the consumer before any route names it:
\* while no application is deleted and no product migrated, a key-auth route
\* never names a consumer the gateway does not hold.
ConsumerBeforeRoute ==
    \A e \in Envs, p \in Products :
        routes[e][p].kind = "key-auth" =>
            \A a \in routes[e][p].allowed : consumers[e][a] # NoConsumer

-----------------------------------------------------------------------------
(* What holds when requests do not overlap, even if any of them fails *)

\* Approve's comment: "active in DB => provisioned in gateway" always holds.
Provisioned(a, p) ==
    /\ routes["production"][p].kind = "key-auth"
    /\ a \in routes["production"][p].allowed
    /\ consumers["production"][a] # NoConsumer
ActiveImpliesProvisioned ==
    \A a \in Apps, p \in Products :
        ActiveRow(a, p) /\ products[p].auth = "key-auth" => Provisioned(a, p)

\* A rejected subscription is not approved without being requested again, and
\* a live one is not put back to pending.
StatusTransitions ==
    [][\A x \in Apps \X Products : subs[x].id = subs'[x].id =>
           /\ subs[x].status = "rejected" => subs'[x].status # "active"
           /\ subs[x].status = "active" => subs'[x].status # "pending"]_vars

\* A live subscription is on the plan the admin approved it for.
ActivePlanApproved ==
    \A a \in Apps, p \in Products : ActiveRow(a, p) =>
        [app |-> a, prod |-> p, sub |-> subs[<<a, p>>].id, plan |-> subs[<<a, p>>].plan]
            \in approvals

\* Billing is idempotent per subscription: one invoice that is not void.
OneLiveInvoice ==
    \A m, n \in DOMAIN invoices :
        /\ invoices[m].sub = invoices[n].sub /\ invoices[m].sub # 0
        /\ invoices[m].status # "void" /\ invoices[n].status # "void"
        => m = n

\* Rotation writes the gateway first: the stored key is never ahead of the
\* one the gateway accepts.
StoredKeyNotAhead ==
    \A a \in Apps :
        /\ consumers["production"][a] # NoConsumer =>
               creds[a].key <= consumers["production"][a].key
        /\ creds[a].sandboxKey <= consumers["sandbox"][a].key

\* A key-auth approval that gets as far as "active" leaves the route exact,
\* whatever an earlier failed request left behind: approving again
\* "re-asserts the gateway state and converges".
Activated(r, p) == /\ At(r, "approve.activate") /\ req[r].prod = p
                   /\ req'[r].op = "approve" /\ ~At(r, "approve.activate")'
ApprovalConverges ==
    [][\A r \in Requests, p \in Products :
          Activated(r, p) /\ products[p].auth = "key-auth" =>
              (routes["production"][p] = DesiredRoute(p))']_vars

\* The same for an oauth2 product, whose list holds client ids: every
\* lifecycle hook maintains the OAuth2-route whitelist rule.
OAuthApprovalConverges ==
    [][\A r \in Requests, p \in Products :
          Activated(r, p) /\ products[p].auth = "oauth2" =>
              (routes["production"][p] = DesiredRoute(p))']_vars

\* An approval that returns without an error settles everything, whatever an
\* earlier failed request, a resubmission or a void left behind: the row is
\* active, the consumer has the stored key and the limit of the approved plan,
\* and a plan that costs anything is invoiced.
Returned(r, op) == req[r].op = op /\ req'[r].op = "none" /\ faults' = faults
ApprovalSettles ==
    [][\A r \in Requests : Returned(r, "approve") =>
          LET a == req[r].app  p == req[r].prod  plan == plans[req[r].plan] IN
          /\ subs'[<<a, p>>].status = "active"
          /\ products[p].auth = "key-auth" =>
                 consumers'["production"][a] = [key |-> creds'[a].key, limit |-> plan.limit]
          /\ plan.paid => \E n \in DOMAIN invoices' :
                 invoices'[n].sub = req[r].sub /\ invoices'[n].status # "void"]_vars

\* Approve "rebuild[s] that product's sandbox route (adds the app)" when the
\* application has a sandbox key: an approval by key that goes on to bill has
\* put it there.
ApprovalGrantsSandbox ==
    \A r \in Requests :
        /\ At(r, "bill.pricing") /\ SandboxConfigured /\ creds[req[r].app].sandboxKey # 0
        /\ products[req[r].prod].sandbox /\ products[req[r].prod].auth = "key-auth"
        => req[r].app \in routes["sandbox"][req[r].prod].allowed

-----------------------------------------------------------------------------
(* What holds between requests when none overlaps another and none fails *)

\* Each route's allow-list is exactly the product's active subscribers.
RouteIsActiveSet ==
    Quiescent => \A p \in Products : products[p].live =>
        routes["production"][p] = DesiredRoute(p)

\* Reject "rebuilds the product route whitelist so the application is excluded":
\* between requests no route of a live key-auth product names a rejected one.
RejectedIsExcluded ==
    Quiescent => \A a \in Apps, p \in Products :
        subs[<<a, p>>].status = "rejected" /\ products[p].live /\ products[p].auth = "key-auth" =>
            \A e \in Envs : a \notin routes[e][p].allowed

\* The key the portal shows is the key the gateway accepts.
KeysAgree ==
    Quiescent => \A a \in Apps :
        /\ consumers["production"][a] # NoConsumer => creds[a].key = consumers["production"][a].key
        /\ consumers["sandbox"][a] # NoConsumer => creds[a].sandboxKey = consumers["sandbox"][a].key

\* The gateway limits an active subscriber as its plan says now: Update re-applies
\* changed limits "to every active subscriber's consumer".  Of an application
\* with one product; with more, the consumer has the limit installed last.
LimitFollowsPlan ==
    Quiescent => \A a \in Apps, p \in Products :
        ActiveRow(a, p) /\ products[p].auth = "key-auth" =>
            consumers["production"][a].limit = plans[subs[<<a, p>>].plan].limit

\* The sandbox-route whitelist rule: exactly the product's active subscribers
\* that have a sandbox key.
SandboxRouteIsRule ==
    Quiescent /\ SandboxConfigured => \A p \in Products : products[p].live =>
        routes["sandbox"][p].allowed =
            IF products[p].sandbox THEN SandboxConsumersForProduct(p) ELSE {}

\* Once a key is rotated away no gateway accepts it again.
RotatedKeyStaysDead ==
    [][\A e \in Envs, a \in Apps :
          consumers'[e][a] # NoConsumer => consumers'[e][a].key >= consumers[e][a].key]_vars

\* A live subscription to a paid plan was invoiced ("must not silently go
\* unbilled").
PaidIsInvoiced ==
    Quiescent => \A a \in Apps, p \in Products :
        ActiveRow(a, p) /\ plans[subs[<<a, p>>].plan].paid =>
            \E n \in DOMAIN invoices : invoices[n].sub = subs[<<a, p>>].id

\* A deleted application leaves no consumer and no route entry behind: no
\* consumer name of its own, no client id that only it had registered.
Identifies(i, a) == i = a \/ (i \in claims[a] /\ \A b \in apps : i \notin claims[b])
Erased(a) ==
    \A e \in Envs : /\ consumers[e][a] = NoConsumer
                    /\ \A p \in Products : ~\E i \in routes[e][p].allowed : Identifies(i, a)
DeletedIsErased == \A a \in Apps \ apps : Erased(a)

\* A deleted product leaves no route that admits anybody: a leftover route "is
\* harmless (its whitelist was already rebuilt to empty by the last unsubscribe)".
DeletedProductUnrouted ==
    Quiescent => \A p \in Products : ~products[p].live =>
        \A e \in Envs : routes[e][p].allowed = {}

\* Migrating a product to oauth2 never strands an active subscriber without a
\* registered client id.
MigrationStrandsNobody ==
    [][\A p \in Products : products[p].auth = "key-auth" /\ products'[p].auth = "oauth2" =>
          \A a \in ActiveApps(p) : oidc[a] # None]_vars

\* Between requests a route by key names every active subscriber of its live
\* product, also one who subscribed while it was by client id: "Existing
\* subscriptions are preserved".
SubscribersKept ==
    Quiescent => \A a \in Apps, p \in Products :
        ActiveRow(a, p) /\ products[p].auth = "key-auth" => a \in routes["production"][p].allowed

\* A delete that runs to its end removed the application.
DeletionCompletes ==
    [][\A r \in Requests : req[r].op = "deleteApp" /\ Idle(r)' => req[r].app \notin apps']_vars

-----------------------------------------------------------------------------
(* What eventually happens when nothing fails *)

\* No handler waits for ever: every loop ends and every branch returns.
EveryRequestReturns == \A r \in Requests : ~Idle(r) ~> Idle(r)

\* An application that lost its subscription is eventually shut out, unless
\* it is approved again first.
RevocationTakesEffect ==
    \A a \in Apps, p \in Products :
        (subs[<<a, p>>].status \in {"none", "rejected"} /\ a \in routes["production"][p].allowed)
            ~> (a \notin routes["production"][p].allowed \/ ActiveRow(a, p))

-----------------------------------------------------------------------------
(* The inductive invariant behind the first group *)

RoutePcs == {"route.product", "route.members", "route.push",
             "sandbox.product", "sandbox.members", "sandbox.push"}
ApprovePcs == {"approve.product", "approve.clientId", "approve.credential", "approve.consumer",
               "approve.activate", "approve.sandbox", "bill.pricing", "bill.create"}

\* Which handler performs a step, and the locals it has set by then.
RotatePcs == {"rotate.consumer", "rotate.save"}
EnablePcs == {"enable.consumer", "enable.save"}
DeletePcs == {"delete.next", "delete.consumer", "delete.sandboxKey", "delete.sandboxConsumer",
              "delete.row"}
OwnerPcs == RotatePcs \cup EnablePcs \cup DeletePcs
PlanPcs == {"plan.save", "plan.read", "plan.consumers", "plan.push",
            "plan.sandboxConsumers", "plan.sandboxPush"}
AdminOps == {"updateProduct", "deleteProduct", "updatePlan", "deletePlan"}
MayBeAt(q, pc) ==
    /\ pc \in RoutePcs => q.op # "none" /\ q.prod \in Products
    /\ pc \in {"subscribe.credential", "subscribe.save"} => q.op = "subscribe"
    /\ pc = "reject.set" => q.op = "reject"
    /\ pc \in ApprovePcs => q.op = "approve"
    /\ pc \in RotatePcs => q.op \in {"rotate", "rotateSandbox"}
    /\ pc \in EnablePcs => q.op = "enableSandbox"
    /\ pc \in DeletePcs => q.op = "deleteApp"
    /\ pc = "oidc.products" => q.op = "setOidc"
    /\ pc \in {"product.save", "product.count"} => q.op = "updateProduct"
    /\ pc \in {"product.delete", "product.deprovision"} => q.op = "deleteProduct"
    /\ pc \in PlanPcs => q.op = "updatePlan"
    /\ pc = "plan.delete" => q.op = "deletePlan"
RequestShape(q) ==
    /\ q.op = "none" => q = NoReq
    /\ q.op \notin {"none"} \cup AdminOps => q.app \in Apps
    /\ q.op \in {"subscribe", "approve", "reject", "updateProduct", "deleteProduct"} => q.prod \in Products
    /\ q.op \in {"subscribe", "approve", "updatePlan", "deletePlan"} => q.plan \in Plans
    /\ MayBeAt(q, q.pc)
    /\ q.allowed # {} => q.pc \in {"route.push", "sandbox.push"}
ShapeInv == \A r \in Requests : RequestShape(req[r])

\* A row has a plan and an id of its own, taken from the sequence.
RowInv ==
    \A x \in Apps \X Products :
        /\ subs[x].id < nextSub
        /\ subs[x] # NoSub => subs[x].status # "none" /\ subs[x].plan \in Plans /\ subs[x].id # 0
        /\ \A y \in Apps \X Products : subs[x].id = subs[y].id /\ subs[x].id # 0 => x = y

\* An approval is of an id that only ever belonged to its pair.
ApprovalInv ==
    \A ap \in approvals :
        /\ ap.sub # 0 /\ ap.sub < nextSub
        /\ \A x \in Apps \X Products : subs[x].id = ap.sub => x = <<ap.app, ap.prod>>

\* An approval in progress is recorded ...
Approving(q) == q.op = "approve" =>
    [app |-> q.app, prod |-> q.prod, sub |-> q.sub, plan |-> q.plan] \in approvals

\* ... and what a request is about to admit, or will admit further on in its
\* loop, is vouched for.  Only Approve and EnableSandbox admit somebody whom the
\* tables do not name, and Approve for its own product only.
Carries(q) ==
    /\ \A i \in q.allowed : Vouched(i, q.prod)
    /\ \A i \in q.extra, p \in Products : p \in q.todo \cup {q.prod} => Vouched(i, p)
    /\ q.op \notin {"approve", "enableSandbox"} => q.extra = {}
    /\ q.op = "approve" => q.todo = {}

ApprovingInv == \A r \in Requests : Approving(req[r])
CarriedInv == \A r \in Requests : Carries(req[r])

ClaimInv == \A a \in Apps : oidc[a] # None => oidc[a] \in claims[a]

IInv == /\ TypeOK /\ ShapeInv /\ RowInv /\ ApprovalInv /\ ApprovingInv /\ CarriedInv /\ ClaimInv
        /\ PlanOutlivesSubscriptions
        /\ ActiveWasApproved /\ NoGrantWithoutApproval /\ InvoiceForApprovedPlan

-----------------------------------------------------------------------------
(* The portal, one request at a time, implements Admission *)

Promise == INSTANCE Admission WITH
    status   <- [x \in Apps \X Products |-> subs[x].status],
    approved <- {<<ap.app, ap.prod>> : ap \in approvals},
    admitted <- {x \in Apps \X Products : x[1] \in routes["production"][x[2]].allowed}

\* Every statement and every gateway call of a key-auth request, including
\* those of a request that then fails, is one step of Admission or none.
ImplementsAdmission == Promise!AdmissionSpec

=============================================================================
