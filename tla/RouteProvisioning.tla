------------------------- MODULE RouteProvisioning -------------------------
(***************************************************************************)
(* reprovisionRoute and reprovisionSandboxRoute: a request rebuilds the    *)
(* allow-list of one product from the subscriptions table and pushes it to *)
(* the gateway.  The table is read in one statement and the route written  *)
(* in a later call, so the list pushed may already be stale.               *)
(***************************************************************************)
EXTENDS PortalState

Unprovisioned == UNCHANGED <<adminVars, appVars, subVars, keyVars, billVars, consumers, faults, histVars>>

\* Back in the caller; the list and the product read for it are gone.
ReturnTo(r, pc) ==
    req' = [req EXCEPT ![r] = [@ EXCEPT !.pc = pc, !.auth = "none", !.allowed = {}]]

\* Mutant: a product is provisioned but never taken off the list.
NextInTodoAgain(r, pc) ==
    \/ req[r].todo = {} /\ Finish(r)
    \/ \E p \in req[r].todo :
          req' = [req EXCEPT ![r] = [@ EXCEPT !.pc = pc, !.prod = p, !.auth = "none", !.allowed = {}]]

\* Continue with the next product of the handler's loop, or return.
NextInTodo(r, pc) ==
    \/ req[r].todo = {} /\ Finish(r)
    \/ \E p \in req[r].todo :
          req' = [req EXCEPT ![r] = [@ EXCEPT !.pc = pc, !.prod = p, !.todo = req[r].todo \ {p},
                                              !.auth = "none", !.allowed = {}]]

\* Mutant: Unsubscribe and Reject leave the sandbox route alone.
AfterRouteNoSandbox(r) ==
    \/ req[r].op = "approve" /\ ReturnTo(r, "approve.activate")
    \/ req[r].op = "setOidc" /\ NextInTodo(r, "route.product")
    \/ req[r].op \in {"unsubscribe", "reject", "updateProduct"} /\ Finish(r)
    \/ req[r].op = "deleteApp" /\ ReturnTo(r, "delete.next")

\* What each caller of reprovisionRoute does when it returns.
AfterRoute(r) ==
    \/ req[r].op = "approve" /\ ReturnTo(r, "approve.activate")
    \/ req[r].op = "setOidc" /\ NextInTodo(r, "route.product")
    \/ /\ req[r].op \in {"unsubscribe", "reject", "deleteApp"} \/ "sandbox" \in req[r].work
       /\ SandboxConfigured
       /\ ReturnTo(r, "sandbox.product")
    \/ /\ req[r].op \in {"unsubscribe", "reject"} /\ ~SandboxConfigured
       /\ Finish(r)
    \/ /\ req[r].op = "updateProduct" /\ ~(SandboxConfigured /\ "sandbox" \in req[r].work)
       /\ Finish(r)
    \/ /\ req[r].op = "deleteApp" /\ ~SandboxConfigured
       /\ ReturnTo(r, "delete.next")

\* What each caller of reprovisionSandboxRoute does when it returns.
AfterSandboxRoute(r) ==
    \/ req[r].op = "approve" /\ ReturnTo(r, "bill.pricing")
    \/ req[r].op = "enableSandbox" /\ NextInTodo(r, "sandbox.product")
    \/ req[r].op \in {"unsubscribe", "reject", "updateProduct"} /\ Finish(r)
    \/ req[r].op = "deleteApp" /\ ReturnTo(r, "delete.next")

-----------------------------------------------------------------------------

RouteProduct(r) ==
    /\ At(r, "route.product")
    /\ IF products[req[r].prod].live
       THEN req' = [req EXCEPT ![r] = [@ EXCEPT !.pc = "route.members",
                                                !.auth = products[req[r].prod].auth]]
       ELSE Finish(r)
    /\ Unprovisioned /\ UNCHANGED routes

\* Mutant: the application about to become active is not added.
RouteAllowedNoExtra(q) ==
    IF q.auth = "oauth2" THEN OAuthClientsForProduct(q.prod) ELSE ConsumersForProduct(q.prod)

\* The list is held by value from here on; extra names an application that
\* is about to become active and is not in the table's answer yet.
RouteAllowed(q) ==
    (IF q.auth = "oauth2" THEN OAuthClientsForProduct(q.prod)
                          ELSE ConsumersForProduct(q.prod)) \cup q.extra

RouteMembers(r) ==
    /\ At(r, "route.members")
    /\ req' = [req EXCEPT ![r] = [@ EXCEPT !.pc = "route.push", !.allowed = RouteAllowed(req[r])]]
    /\ Unprovisioned /\ UNCHANGED routes

RoutePush(r) ==
    /\ At(r, "route.push")
    /\ IF req[r].allowed = {} \/ (req[r].auth = "oauth2" /\ ~IssuerConfigured)
       THEN DeleteRoute("production", req[r].prod)
       ELSE PutRoute("production", req[r].prod, req[r].auth, req[r].allowed)
    /\ AfterRoute(r)
    /\ Unprovisioned

-----------------------------------------------------------------------------

\* Without a sandbox upstream the route is deleted, whoever subscribes.
SandboxProduct(r) ==
    /\ At(r, "sandbox.product")
    /\ \/ ~products[req[r].prod].live /\ Finish(r)
       \/ /\ products[req[r].prod].live
          /\ Goto(r, IF products[req[r].prod].sandbox THEN "sandbox.members" ELSE "sandbox.push")
    /\ Unprovisioned /\ UNCHANGED routes

SandboxMembers(r) ==
    /\ At(r, "sandbox.members")
    /\ req' = [req EXCEPT ![r] = [@ EXCEPT !.pc = "sandbox.push",
                  !.allowed = SandboxConsumersForProduct(req[r].prod) \cup req[r].extra]]
    /\ Unprovisioned /\ UNCHANGED routes

SandboxPush(r) ==
    /\ At(r, "sandbox.push")
    /\ IF req[r].allowed = {}
       THEN DeleteRoute("sandbox", req[r].prod)
       ELSE PutRoute("sandbox", req[r].prod, "key-auth", req[r].allowed)
    /\ AfterSandboxRoute(r)
    /\ Unprovisioned

RouteNext(r) ==
    \/ RouteProduct(r) \/ RouteMembers(r) \/ RoutePush(r)
    \/ SandboxProduct(r) \/ SandboxMembers(r) \/ SandboxPush(r)

=============================================================================
