------------------------------ MODULE RouteProofs ------------------------------
(***************************************************************************)
(* Proofs about routes, with one request in progress at a time: what each  *)
(* statement and gateway call does to the lists of subscribers and to the  *)
(* routes, and that the routes follow the subscriptions table.             *)
(***************************************************************************)
EXTENDS KeyProofs

-----------------------------------------------------------------------------
(* The statements and calls that routes depend on *)

Route3 == {"route.product", "route.members", "route.push"}
Sandbox3 == {"sandbox.product", "sandbox.members", "sandbox.push"}
\* Where a request may hold something about a route.
RouteWatch ==
    Route3 \cup Sandbox3 \cup EnablePcs \cup DeletePcs
    \cup {"reject.set", "approve.product", "approve.clientId", "approve.credential",
          "approve.consumer", "approve.activate", "approve.sandbox", "oidc.products",
          "product.save", "product.count", "product.delete", "product.deprovision"}

\* What the lists are made from, but for the keys, and the routes.
Lasting == <<products, oidc, subs, routes>>

\* The locals that outlast a subroutine.
SameJob(q, s) == Same(q, s) /\ s.prod = q.prod /\ s.todo = q.todo
\* Those an approval keeps while it reads what it needs.
SameApproval(q, s) ==
    s.op = q.op /\ s.app = q.app /\ s.prod = q.prod /\ s.sub = q.sub /\ s.todo = q.todo
    /\ s.work = q.work /\ s.allowed = q.allowed

\* The row of x goes.
Gone(x) == \A y \in Apps \X Products : subs'[y] = IF y = x THEN NoSub ELSE subs[y]
\* A request starts.
Fresh(r, op, pc) ==
    /\ req[r] = NoReq
    /\ req'[r].op = op /\ req'[r].pc = pc /\ req'[r].allowed = {} /\ req'[r].work = {}

\* Nothing that matters to a route happens.
Passes(r) == UNCHANGED Lasting /\ req[r].pc \notin RouteWatch /\ req'[r].pc \notin RouteWatch
\* A request gives up where it has nothing to rebuild, or because it fails.
Ends(r) ==
    /\ UNCHANGED Lasting /\ req'[r] = NoReq
    /\ \/ faults > 0 /\ UNCHANGED <<creds, consumers>>
       \/ req[r].pc \in {"route.product", "sandbox.product"} /\ ~products[req[r].prod].live
       \/ At(r, "oidc.products") /\ OAuthProductsForApp(req[r].app) = {}
       \/ At(r, "enable.save") /\ creds[req[r].app].key = 0
       \/ req[r].pc \in {"approve.product", "approve.credential", "delete.consumer", "delete.sandboxKey",
                         "delete.sandboxConsumer", "product.save", "product.delete"}

\* Subscribe saves its row.
Inserts(r) ==
    /\ At(r, "subscribe.save") /\ req'[r] = NoReq /\ UNCHANGED <<products, oidc, routes>>
    /\ UNCHANGED subs \/ SavedBy(r, <<req[r].app, req[r].prod>>)
    /\ \A x \in Apps \X Products : x # <<req[r].app, req[r].prod>> => subs'[x] = subs[x]
\* A row is deleted, by Unsubscribe or in the loop of DeleteApplication.
Withdraws(r) ==
    LET s == req'[r] IN
    /\ Fresh(r, "unsubscribe", "route.product") /\ s.app \in Apps /\ s.prod \in Products
    /\ s.extra = {} /\ s.todo = {}
    /\ Gone(<<s.app, s.prod>>) /\ UNCHANGED <<products, oidc, routes>>
Undoes(r) ==
    LET s == req'[r] IN
    /\ At(r, "delete.next") /\ Same(req[r], s) /\ s.pc = "route.product" /\ s.prod \in req[r].todo
    /\ s.allowed = {} /\ s.todo = req[r].todo \ {s.prod}
    /\ Gone(<<s.app, s.prod>>) /\ UNCHANGED <<products, oidc, routes>>
\* An admin's decision starts, about a row that waits or is live.
Reviews(r) ==
    LET s == req'[r] IN
    /\ UNCHANGED Lasting /\ s.app \in Apps /\ s.prod \in Products
    /\ Fresh(r, "approve", "approve.product") \/ Fresh(r, "reject", "reject.set")
    /\ s.extra = {} /\ s.todo = {} /\ s.key = 0
    /\ s.sub = subs[<<s.app, s.prod>>].id
    /\ subs[<<s.app, s.prod>>].status \in {"pending", "active"}
Refuses(r) ==
    /\ At(r, "reject.set") /\ UNCHANGED <<products, oidc, routes>>
    /\ SetSubscriptionStatus(req[r].sub, "rejected")
    /\ \/ ~HasSubscription(req[r].sub) /\ req'[r] = NoReq
       \/ /\ SameJob(req[r], req'[r]) /\ req'[r].allowed = req[r].allowed
          /\ req'[r].pc = "route.product"
\* Approve up to the rebuild of the route.
Looks(r) ==
    LET q == req[r]  s == req'[r] IN
    /\ At(r, "approve.product") /\ UNCHANGED Lasting /\ SameApproval(q, s)
    /\ s.extra = q.extra /\ s.key = q.key /\ products[q.prod].live
    /\ \/ s.pc = "approve.clientId" /\ products[q.prod].auth = "oauth2"
       \/ s.pc = "approve.credential" /\ products[q.prod].auth = "key-auth"
LooksUp(r) ==
    LET q == req[r]  s == req'[r] IN
    /\ At(r, "approve.clientId") /\ UNCHANGED Lasting /\ SameApproval(q, s)
    /\ s.key = q.key /\ s.pc = "route.product"
    /\ s.extra = {oidc[q.app]} \ {None} \/ (faults > 0 /\ s.extra = q.extra)
Credits(r) ==
    LET q == req[r]  s == req'[r] IN
    /\ At(r, "approve.credential") /\ UNCHANGED Lasting /\ SameApproval(q, s)
    /\ s.extra = q.extra /\ s.pc = "approve.consumer" /\ s.key = creds'[q.app].key
Installs(r) ==
    LET q == req[r]  s == req'[r] IN
    /\ At(r, "approve.consumer") /\ UNCHANGED Lasting /\ SameApproval(q, s)
    /\ s.extra = {q.app} /\ s.key = q.key /\ s.pc = "route.product"
    /\ UNCHANGED creds /\ SetsConsumer("production", q.app, q.key)
\* Approve from there on.
GoesLive(r) ==
    LET q == req[r]  s == req'[r] IN
    /\ At(r, "approve.activate") /\ UNCHANGED <<products, oidc, routes>>
    /\ SetSubscriptionStatus(q.sub, "active")
    /\ \/ ~HasSubscription(q.sub) /\ s = NoReq
       \/ /\ SameJob(q, s) /\ s.allowed = q.allowed
          /\ s.pc = IF q.key # 0 /\ SandboxConfigured THEN "approve.sandbox" ELSE "bill.pricing"
AsksSandbox(r) ==
    LET q == req[r]  s == req'[r] IN
    /\ At(r, "approve.sandbox") /\ UNCHANGED Lasting /\ SameJob(q, s) /\ s.allowed = q.allowed
    /\ \/ s.pc = "sandbox.product" /\ creds[q.app].sandboxKey # 0
       \/ s.pc = "bill.pricing" /\ (creds[q.app].sandboxKey = 0 \/ faults > 0)
\* SetOIDCClientID.
Registers(r) ==
    LET s == req'[r] IN
    /\ Fresh(r, "setOidc", "oidc.products") /\ s.app \in Apps /\ s.extra = {} /\ s.todo = {}
    /\ UNCHANGED <<products, subs, routes>>
    /\ \A b \in Apps : b # s.app => oidc'[b] = oidc[b]
ListsProducts(r) ==
    LET q == req[r]  s == req'[r] IN
    /\ At(r, "oidc.products") /\ UNCHANGED Lasting /\ Same(q, s) /\ s.allowed = q.allowed
    /\ s.pc = "route.product" /\ s.prod \in OAuthProductsForApp(q.app)
    /\ s.todo = OAuthProductsForApp(q.app) \ {s.prod}
\* EnableSandbox.
Opts(r) ==
    LET s == req'[r] IN
    /\ UNCHANGED Lasting /\ SandboxConfigured /\ Fresh(r, "enableSandbox", "enable.consumer")
    /\ s.app \in Apps /\ s.extra = {s.app} /\ s.todo = SandboxProductsForApp(s.app)
OptsIn(r) ==
    LET q == req[r]  s == req'[r] IN
    /\ At(r, "enable.consumer") /\ UNCHANGED Lasting /\ SameApproval(q, s)
    /\ s.extra = q.extra /\ s.pc = "enable.save"
OptedIn(r) ==
    /\ At(r, "enable.save") /\ UNCHANGED Lasting /\ creds[req[r].app].key # 0
    /\ (req[r].todo = {} /\ req'[r] = NoReq) \/ TakesNext(r, "sandbox.product")
\* DeleteApplication.
Retires(r) ==
    LET s == req'[r] IN
    /\ UNCHANGED Lasting /\ Fresh(r, "deleteApp", "delete.next")
    /\ s.app \in Apps /\ s.extra = {} /\ s.todo = SubscriptionsForApp(s.app)
Cleans(r) ==
    LET q == req[r]  s == req'[r] IN
    /\ q.pc \in DeletePcs /\ s.pc \in DeletePcs \ {"delete.next"} /\ UNCHANGED Lasting
    /\ SameJob(q, s) /\ s.allowed = q.allowed
    /\ q.pc = "delete.next" => q.todo = {}
Leaves(r) ==
    /\ At(r, "delete.row") /\ req'[r] = NoReq /\ UNCHANGED <<products, routes>>
    /\ \A x \in Apps \X Products : subs'[x] = IF x[1] = req[r].app THEN NoSub ELSE subs[x]
    /\ \A b \in Apps : b # req[r].app => oidc'[b] = oidc[b]
\* An edit of a product.
Edited(r) ==
    LET s == req'[r] IN
    /\ UNCHANGED Lasting /\ req[r] = NoReq /\ s.op = "updateProduct" /\ s.pc = "product.save"
    /\ s.prod \in Products /\ s.extra = {} /\ s.todo = {} /\ s.allowed = {}
    /\ s.row.auth # products[s.prod].auth =>
           "count" \in s.work \/ "route" \in s.work \/ ActiveApps(s.prod) = {}
    /\ s.row.sandbox # products[s.prod].sandbox => "sandbox" \in s.work
Remains(r, work) ==
    LET q == req[r]  s == req'[r] IN
    \/ /\ SameJob(q, s) /\ s.allowed = q.allowed
       /\ \/ "count" \in work /\ s.pc = "product.count"
          \/ "route" \in work /\ s.pc = "route.product"
          \/ work = {"sandbox"} /\ SandboxConfigured /\ s.pc = "sandbox.product"
    \/ s = NoReq /\ "count" \notin work /\ "route" \notin work
       /\ (SandboxConfigured => "sandbox" \notin work)
SavesEdit(r) ==
    LET q == req[r] IN
    /\ At(r, "product.save") /\ UNCHANGED <<oidc, subs, routes>>
    /\ products[q.prod].live
    /\ \A p \in Products : products'[p] = IF p = q.prod THEN q.row ELSE products[p]
    /\ Remains(r, q.work)
Counts(r) ==
    LET q == req[r]  s == req'[r] IN
    /\ At(r, "product.count") /\ UNCHANGED Lasting
    /\ \/ SameJob(q, s) /\ s.allowed = q.allowed /\ s.pc = "route.product"
       \/ ActiveApps(q.prod) = {} /\ Remains(r, q.work \ {"count"})
\* The deletion of one.
Discontinues(r) ==
    LET s == req'[r] IN
    /\ UNCHANGED Lasting /\ Fresh(r, "deleteProduct", "product.delete") /\ s.prod \in Products
    /\ s.extra = {} /\ s.todo = {} /\ ActiveApps(s.prod) = {}
Discards(r) ==
    LET q == req[r]  s == req'[r] IN
    /\ At(r, "product.delete") /\ UNCHANGED <<oidc, routes>>
    /\ \A p \in Products : products'[p] = IF p = q.prod THEN NoProduct ELSE products[p]
    /\ \A x \in Apps \X Products : subs'[x] = IF x[2] = q.prod THEN NoSub ELSE subs[x]
    /\ SameJob(q, s) /\ s.allowed = q.allowed /\ s.pc = "product.deprovision"

\* A route is set.
SetsRoute(e, p, route) ==
    \A f \in Envs, o \in Products : routes'[f][o] = IF f = e /\ o = p THEN route ELSE routes[f][o]
\* The list of a route, as pushed.
RouteFor(auth, members) ==
    IF members = {} \/ (auth = "oauth2" /\ ~IssuerConfigured)
    THEN NoRoute ELSE [kind |-> auth, allowed |-> members]
Deprovisions(r) ==
    /\ At(r, "product.deprovision") /\ UNCHANGED <<products, oidc, subs>> /\ req'[r] = NoReq
    /\ SetsRoute("production", req[r].prod, NoRoute)
\* The subroutines.
ReadsProduct(r) ==
    LET q == req[r]  s == req'[r] IN
    /\ At(r, "route.product") /\ UNCHANGED Lasting /\ SameJob(q, s)
    /\ products[q.prod].live /\ s.pc = "route.members" /\ s.auth = products[q.prod].auth
    /\ s.allowed = q.allowed
ListsMembers(r) ==
    LET q == req[r]  s == req'[r] IN
    /\ At(r, "route.members") /\ UNCHANGED Lasting /\ SameJob(q, s)
    /\ s.pc = "route.push" /\ s.auth = q.auth /\ s.allowed = RouteAllowed(q)
Pushes(r) ==
    LET q == req[r]  s == req'[r] IN
    /\ At(r, "route.push") /\ UNCHANGED <<products, oidc, subs>>
    /\ SetsRoute("production", q.prod, RouteFor(q.auth, q.allowed))
    /\ \/ /\ SameJob(q, s) /\ s.allowed = {}
          /\ \/ q.op = "approve" /\ s.pc = "approve.activate"
             \/ /\ q.op \in {"unsubscribe", "reject", "deleteApp"} \/ "sandbox" \in q.work
                /\ SandboxConfigured /\ s.pc = "sandbox.product"
             \/ q.op = "deleteApp" /\ ~SandboxConfigured /\ s.pc = "delete.next"
       \/ q.op = "setOidc" /\ ((q.todo = {} /\ s = NoReq) \/ TakesNext(r, "route.product"))
       \/ s = NoReq /\ q.op \in {"unsubscribe", "reject"} /\ ~SandboxConfigured
       \/ s = NoReq /\ q.op = "updateProduct" /\ ~(SandboxConfigured /\ "sandbox" \in q.work)
ReadsSandbox(r) ==
    LET q == req[r]  s == req'[r] IN
    /\ At(r, "sandbox.product") /\ UNCHANGED Lasting /\ SameJob(q, s) /\ s.allowed = q.allowed
    /\ products[q.prod].live
    /\ s.pc = IF products[q.prod].sandbox THEN "sandbox.members" ELSE "sandbox.push"
ListsSandbox(r) ==
    LET q == req[r]  s == req'[r] IN
    /\ At(r, "sandbox.members") /\ UNCHANGED Lasting /\ SameJob(q, s)
    /\ s.pc = "sandbox.push" /\ s.allowed = SandboxConsumersForProduct(q.prod) \cup q.extra
PushesSandbox(r) ==
    LET q == req[r]  s == req'[r] IN
    /\ At(r, "sandbox.push") /\ UNCHANGED <<products, oidc, subs>>
    /\ SetsRoute("sandbox", q.prod, RouteFor("key-auth", q.allowed))
    /\ \/ /\ SameJob(q, s) /\ s.allowed = {}
          /\ \/ q.op = "approve" /\ s.pc = "bill.pricing"
             \/ q.op = "deleteApp" /\ s.pc = "delete.next"
       \/ q.op = "enableSandbox" /\ ((q.todo = {} /\ s = NoReq) \/ TakesNext(r, "sandbox.product"))
       \/ s = NoReq /\ q.op \in {"unsubscribe", "reject", "updateProduct"}

RouteMove(r) ==
    \/ Passes(r) \/ Ends(r) \/ Inserts(r) \/ Withdraws(r) \/ Undoes(r) \/ Reviews(r) \/ Refuses(r)
    \/ Looks(r) \/ LooksUp(r) \/ Credits(r) \/ Installs(r) \/ GoesLive(r) \/ AsksSandbox(r)
    \/ Registers(r) \/ ListsProducts(r) \/ Opts(r) \/ OptsIn(r) \/ OptedIn(r)
    \/ Retires(r) \/ Cleans(r) \/ Leaves(r)
    \/ Edited(r) \/ SavesEdit(r) \/ Counts(r) \/ Discontinues(r) \/ Discards(r) \/ Deprovisions(r)
    \/ ReadsProduct(r) \/ ListsMembers(r) \/ Pushes(r)
    \/ ReadsSandbox(r) \/ ListsSandbox(r) \/ PushesSandbox(r)

\* The statements of the subscription life cycle.
LEMMA LifeCycleSteps ==
    ASSUME TypeOK, ShapeInv, RowInv, [Next]_vars, NEW r \in Requests, SubscriptionNext(r)
    PROVE  RouteMove(r)
<1>. DEFINE q == req[r]
            s == req'[r]
<1>1. /\ q \in Request /\ RequestShape(q) /\ NoReq \in Request /\ NoReq.work = {} /\ NoReq.key = 0
      /\ RouteWatch \cap {"idle", "subscribe.credential", "subscribe.save", "bill.pricing", "bill.create"} = {}
      /\ Idle(r) => q = NoReq
  BY NoReqType
  DEF TypeOK, ShapeInv, NoReq, RouteWatch, Route3, Sandbox3, EnablePcs, DeletePcs, Idle, RequestShape
<1>2. ASSUME NEW a \in Apps, NEW p \in Products, NEW pl \in Plans, Subscribe(r, a, p, pl) PROVE Passes(r)
  <2>1. Idle(r) /\ s.pc \in {"subscribe.save", "subscribe.credential"}
    BY <1>2 DEF Subscribe, Begin, TypeOK, NoReq
  <2>2. q.pc = "idle"
    BY <1>1, <2>1, NoReqType DEF Idle, RequestShape
  <2>. QED  BY <1>1, <1>2, <2>1, <2>2 DEF Subscribe, Unprovisioned, adminVars, appVars, subVars, Passes, Lasting
<1>3. ASSUME NEW a \in Apps, NEW p \in Products, Unsubscribe(r, a, p) PROVE Withdraws(r)
  <2>0. q = NoReq
    BY <1>1, <1>3 DEF Unsubscribe, Begin
  <2>1. s = [[NoReq EXCEPT !.pc = "route.product", !.app = a, !.prod = p] EXCEPT !.op = "unsubscribe"]
    BY <1>3 DEF Unsubscribe, Begin, TypeOK
  <2>2. Gone(<<a, p>>)
    BY <1>3 DEF Unsubscribe, DeleteSubscription, TypeOK, Gone
  <2>. QED
    BY <1>1, <1>3, <2>0, <2>1, <2>2, NoReqType
    DEF Unsubscribe, adminVars, appVars, gwVars, Withdraws, Fresh, Request
<1>4. ASSUME NEW a \in Apps, NEW p \in Products, Reject(r, a, p) PROVE Reviews(r)
  <2>0. q = NoReq
    BY <1>1, <1>4 DEF Reject, Begin
  <2>1. s = [[NoReq EXCEPT !.pc = "reject.set", !.app = a, !.prod = p, !.sub = subs[<<a, p>>].id]
                EXCEPT !.op = "reject"]
    BY <1>4 DEF Reject, Begin, TypeOK
  <2>. QED
    BY <1>1, <1>4, <2>0, <2>1, NoReqType
    DEF Reject, Unprovisioned, adminVars, appVars, subVars, Reviews, Lasting, Fresh, Request
<1>5. ASSUME NEW a \in Apps, NEW p \in Products, Approve(r, a, p) PROVE Reviews(r)
  <2>0. q = NoReq
    BY <1>1, <1>5 DEF Approve, Begin
  <2>1. s = [[NoReq EXCEPT !.pc = "approve.product", !.app = a, !.prod = p,
                 !.sub = subs[<<a, p>>].id, !.plan = subs[<<a, p>>].plan] EXCEPT !.op = "approve"]
    BY <1>5 DEF Approve, Begin, TypeOK
  <2>. QED
    BY <1>1, <1>5, <2>0, <2>1, NoReqType
    DEF Approve, adminVars, appVars, subVars, gwVars, Reviews, Lasting, Fresh, Request
<1>6. ASSUME SubscribeCredential(r) PROVE Passes(r)
  BY <1>1, <1>6, GotoFields, FinishFields, NoReqType
  DEF SubscribeCredential, At, Passes, Lasting, adminVars, appVars, subVars, gwVars
<1>7. ASSUME SubscribeSave(r) PROVE Inserts(r)
  <2>. DEFINE z == <<q.app, q.prod>>
  <2>1. z \in Apps \X Products /\ z = <<q.app, q.prod>>
    BY <1>1, <1>7 DEF SubscribeSave, At, RequestShape, MayBeAt, AdminOps
  <2>2. s = NoReq /\ UNCHANGED <<products, oidc, routes>>
    BY <1>7, FinishFields DEF SubscribeSave, adminVars, appVars, gwVars
  <2>3. CASE UNCHANGED subs
    BY <1>7, <2>2, <2>3 DEF Inserts, SubscribeSave
  <2>4. CASE ~UNCHANGED subs
    <3>1. Saves(r)
      BY <1>1, <1>7, <2>4 DEF SubscribeSave, Saves, subVars, At, RequestShape, MayBeAt
    <3>. DEFINE new == [id |-> nextSub, plan |-> q.plan, status |-> "pending"]
                row == [subs[z] EXCEPT !.plan = q.plan, !.status = "pending"]
    <3>2. subs[z] \in SubRow /\ NoSub.status = "none"
      BY <2>1 DEF TypeOK, NoSub
    <3>3. /\ new.id = nextSub /\ new.plan = q.plan /\ new.status = "pending"
          /\ row.id = subs[z].id /\ row.plan = q.plan /\ row.status = "pending"
      BY <3>2 DEF SubRow
    <3>4. subs' = [subs EXCEPT ![z] = IF subs[z] = NoSub THEN new ELSE row]
      BY <3>1 DEF Saves, SaveSubscription
    <3>. HIDE DEF new, row
    <3>5. \A x \in Apps \X Products : x # z => subs'[x] = subs[x]
      BY <2>1, <3>4 DEF TypeOK
    <3>6. subs'[z] = IF subs[z] = NoSub THEN new ELSE row
      BY <2>1, <3>4 DEF TypeOK
    <3>7. SavedBy(r, z)
      BY <3>1, <3>2, <3>3, <3>6 DEF SavedBy
    <3>. QED  BY <1>7, <2>2, <3>5, <3>7 DEF Inserts, SubscribeSave
  <2>. QED  BY <2>3, <2>4
<1>8. ASSUME RejectSet(r) PROVE Refuses(r)
  BY <1>8, GotoFields, FinishFields
  DEF RejectSet, Refuses, SameJob, adminVars, appVars, gwVars
<1>9. ASSUME ApproveProduct(r) PROVE Looks(r) \/ Ends(r)
  <2>1. UNCHANGED Lasting /\ At(r, "approve.product")
    BY <1>9 DEF ApproveProduct, Unprovisioned, adminVars, appVars, subVars, Lasting
  <2>2. CASE Finish(r)
    BY <2>1, <2>2, FinishFields DEF Ends, At
  <2>3. CASE Goto(r, "approve.clientId") /\ products[q.prod].live /\ products[q.prod].auth = "oauth2"
    BY <2>1, <2>3, GotoFields DEF Looks, Same, SameApproval
  <2>4. ASSUME NEW l, req' = [req EXCEPT ![r] = [@ EXCEPT !.pc = "approve.credential", !.limit = l]],
               products[q.prod].live, products[q.prod].auth = "key-auth"
        PROVE  Looks(r)
    <3>1. s = [q EXCEPT !.pc = "approve.credential", !.limit = l]
      BY <2>4 DEF TypeOK
    <3>2. SameApproval(q, s) /\ s.pc = "approve.credential" /\ s.extra = q.extra /\ s.key = q.key
      BY <1>1, <3>1 DEF Request, SameApproval
    <3>. QED  BY <2>1, <2>4, <3>2 DEF Looks
  <2>. QED  BY <1>9, <2>2, <2>3, <2>4 DEF ApproveProduct
<1>10. ASSUME ApproveClientId(r) PROVE LooksUp(r)
  <2>1. UNCHANGED Lasting /\ At(r, "approve.clientId")
    BY <1>10 DEF ApproveClientId, adminVars, appVars, subVars, gwVars, Lasting
  <2>2. CASE faults > 0 /\ Goto(r, "route.product")
    BY <2>1, <2>2, GotoFields DEF LooksUp, Same, SameApproval
  <2>3. CASE req' = [req EXCEPT ![r] = [@ EXCEPT !.pc = "route.product", !.extra = {oidc[q.app]} \ {None}]]
    <3>1. s = [q EXCEPT !.pc = "route.product", !.extra = {oidc[q.app]} \ {None}]
      BY <2>3 DEF TypeOK
    <3>. QED  BY <1>1, <2>1, <3>1 DEF Request, LooksUp, SameApproval
  <2>. QED  BY <1>10, <2>2, <2>3 DEF ApproveClientId
<1>11. ASSUME ApproveCredential(r) PROVE Credits(r) \/ Ends(r)
  <2>1. UNCHANGED Lasting /\ At(r, "approve.credential")
    BY <1>11 DEF ApproveCredential, adminVars, appVars, subVars, gwVars, Lasting
  <2>2. CASE Finish(r)
    BY <2>1, <2>2, FinishFields DEF Ends, At
  <2>3. CASE req' = [req EXCEPT ![r] = [@ EXCEPT !.pc = "approve.consumer", !.key = creds'[q.app].key]]
    <3>1. s = [q EXCEPT !.pc = "approve.consumer", !.key = creds'[q.app].key]
      BY <2>3 DEF TypeOK
    <3>. QED  BY <1>1, <2>1, <3>1 DEF Request, Credits, SameApproval
  <2>. QED  BY <1>11, <2>2, <2>3 DEF ApproveCredential
<1>12. ASSUME ApproveConsumer(r) PROVE Installs(r)
  <2>1. s = [q EXCEPT !.pc = "route.product", !.extra = {q.app}]
    BY <1>12 DEF ApproveConsumer, TypeOK
  <2>2. SameApproval(q, s) /\ s.pc = "route.product" /\ s.extra = {q.app} /\ s.key = q.key
    BY <1>1, <2>1 DEF Request, SameApproval
  <2>3. q.app \in Apps /\ "production" \in Envs
    BY <1>1, <1>12 DEF ApproveConsumer, At, RequestShape, MayBeAt, ApprovePcs, AdminOps, Envs
  <2>4. SetsConsumer("production", q.app, q.key)
    BY <1>12, <2>3, ConsumerInstalled DEF ApproveConsumer
  <2>. QED
    BY <1>12, <2>2, <2>4
    DEF ApproveConsumer, Installs, adminVars, appVars, subVars, keyVars, Lasting
<1>13. ASSUME ApproveActivate(r) PROVE GoesLive(r)
  BY <1>13, GotoFields, FinishFields
  DEF ApproveActivate, GoesLive, SameJob, adminVars, appVars, gwVars
<1>14. ASSUME ApproveSandbox(r) PROVE AsksSandbox(r)
  BY <1>14, GotoFields
  DEF ApproveSandbox, AsksSandbox, SameJob, adminVars, appVars, subVars, gwVars, Lasting
<1>15. ASSUME BillPricing(r) \/ BillCreate(r) PROVE Passes(r)
  BY <1>1, <1>15, GotoFields, FinishFields, NoReqType
  DEF BillPricing, BillCreate, At, Passes, Lasting, Unprovisioned, adminVars, appVars, subVars, gwVars
<1>. QED
  BY <1>2, <1>3, <1>4, <1>5, <1>6, <1>7, <1>8, <1>9, <1>10, <1>11, <1>12, <1>13, <1>14, <1>15
  DEF SubscriptionNext, RouteMove

\* The rebuild of a route.
LEMMA RouteCallSteps ==
    ASSUME TypeOK, ShapeInv, NEW r \in Requests, RouteNext(r)
    PROVE  RouteMove(r)
<1>. DEFINE q == req[r]
            s == req'[r]
<1>1. q \in Request
  BY DEF TypeOK
<1>2. ASSUME RouteProduct(r) PROVE ReadsProduct(r) \/ Ends(r)
  <2>1. UNCHANGED Lasting /\ At(r, "route.product")
    BY <1>2 DEF RouteProduct, Unprovisioned, adminVars, appVars, subVars, Lasting
  <2>2. CASE ~products[q.prod].live
    BY <1>2, <2>1, <2>2, FinishFields DEF RouteProduct, Ends, At
  <2>3. CASE products[q.prod].live
    <3>. DEFINE auth == products[q.prod].auth
    <3>1. s = [q EXCEPT !.pc = "route.members", !.auth = auth]
      BY <1>2, <2>3 DEF RouteProduct, TypeOK
    <3>. HIDE DEF auth
    <3>2. SameJob(q, s) /\ s.pc = "route.members" /\ s.auth = auth /\ s.allowed = q.allowed
      BY <1>1, <3>1 DEF Request, SameJob, Same
    <3>. QED  BY <2>1, <2>3, <3>2 DEF ReadsProduct, auth
  <2>. QED  BY <2>2, <2>3
<1>3. ASSUME RouteMembers(r) PROVE ListsMembers(r)
  <2>. DEFINE list == RouteAllowed(q)
  <2>1. s = [q EXCEPT !.pc = "route.push", !.allowed = list]
    BY <1>3 DEF RouteMembers, TypeOK
  <2>. HIDE DEF list
  <2>2. SameJob(q, s) /\ s.pc = "route.push" /\ s.auth = q.auth /\ s.allowed = list
    BY <1>1, <2>1 DEF Request, SameJob, Same
  <2>. QED
    BY <1>3, <2>2
    DEF RouteMembers, ListsMembers, Unprovisioned, adminVars, appVars, subVars, Lasting, list
<1>4. ASSUME NEW e \in Envs, NEW route, NEW p \in Products,
             routes' = [routes EXCEPT ![e] = [@ EXCEPT ![p] = route]]
      PROVE  SetsRoute(e, p, route)
  BY <1>4 DEF TypeOK, SetsRoute
<1>5. "production" \in Envs /\ "sandbox" \in Envs
  BY DEF Envs
<1>6. ASSUME RoutePush(r), q.prod \in Products PROVE Pushes(r)
  <2>1. UNCHANGED <<products, oidc, subs>> /\ At(r, "route.push")
    BY <1>6 DEF RoutePush, Unprovisioned, adminVars, appVars, subVars
  <2>2. SetsRoute("production", q.prod, RouteFor(q.auth, q.allowed))
    <3>1. routes' = [routes EXCEPT !["production"] = [@ EXCEPT ![q.prod] = RouteFor(q.auth, q.allowed)]]
      BY <1>6 DEF RoutePush, DeleteRoute, PutRoute, RouteFor
    <3>. QED  BY <1>4, <1>5, <1>6, <3>1
  <2>3. ASSUME NEW pc, ReturnTo(r, pc) PROVE SameJob(q, s) /\ s.allowed = {} /\ s.pc = pc
    BY <2>3, ReturnToFields DEF SameJob
  <2>4. NextInTodo(r, "route.product") => (q.todo = {} /\ s = NoReq) \/ TakesNext(r, "route.product")
    BY NextInTodoFields, FinishFields
  <2>. QED
    BY <1>6, <2>1, <2>2, <2>3, <2>4, FinishFields DEF RoutePush, AfterRoute, Pushes
<1>7. ASSUME SandboxProduct(r) PROVE ReadsSandbox(r) \/ Ends(r)
  <2>1. UNCHANGED Lasting /\ At(r, "sandbox.product")
    BY <1>7 DEF SandboxProduct, Unprovisioned, adminVars, appVars, subVars, Lasting
  <2>. QED
    BY <1>7, <2>1, FinishFields, GotoFields DEF SandboxProduct, Ends, At, ReadsSandbox, SameJob
<1>8. ASSUME SandboxMembers(r) PROVE ListsSandbox(r)
  <2>. DEFINE list == SandboxConsumersForProduct(q.prod) \cup q.extra
  <2>1. s = [q EXCEPT !.pc = "sandbox.push", !.allowed = list]
    BY <1>8 DEF SandboxMembers, TypeOK
  <2>. HIDE DEF list
  <2>2. SameJob(q, s) /\ s.pc = "sandbox.push" /\ s.allowed = list
    BY <1>1, <2>1 DEF Request, SameJob, Same
  <2>. QED
    BY <1>8, <2>2
    DEF SandboxMembers, ListsSandbox, Unprovisioned, adminVars, appVars, subVars, Lasting, list
<1>9. ASSUME SandboxPush(r), q.prod \in Products PROVE PushesSandbox(r)
  <2>1. UNCHANGED <<products, oidc, subs>> /\ At(r, "sandbox.push")
    BY <1>9 DEF SandboxPush, Unprovisioned, adminVars, appVars, subVars
  <2>2. SetsRoute("sandbox", q.prod, RouteFor("key-auth", q.allowed))
    <3>1. routes' = [routes EXCEPT !["sandbox"] = [@ EXCEPT ![q.prod] = RouteFor("key-auth", q.allowed)]]
      BY <1>9 DEF SandboxPush, DeleteRoute, PutRoute, RouteFor
    <3>. QED  BY <1>4, <1>5, <1>9, <3>1
  <2>3. ASSUME NEW pc, ReturnTo(r, pc) PROVE SameJob(q, s) /\ s.allowed = {} /\ s.pc = pc
    BY <2>3, ReturnToFields DEF SameJob
  <2>4. NextInTodo(r, "sandbox.product") => (q.todo = {} /\ s = NoReq) \/ TakesNext(r, "sandbox.product")
    BY NextInTodoFields, FinishFields
  <2>. QED
    BY <1>9, <2>1, <2>2, <2>3, <2>4, FinishFields DEF SandboxPush, AfterSandboxRoute, PushesSandbox
<1>10. RoutePush(r) \/ SandboxPush(r) => q.prod \in Products
  BY DEF RoutePush, SandboxPush, At, ShapeInv, RequestShape, MayBeAt, RoutePcs
<1>. QED  BY <1>2, <1>3, <1>6, <1>7, <1>8, <1>9, <1>10 DEF RouteNext, RouteMove

\* What owners do with their applications.
LEMMA OwnerSteps ==
    ASSUME TypeOK, ShapeInv, NEW r \in Requests, CredentialsNext(r)
    PROVE  RouteMove(r)
<1>. DEFINE q == req[r]
            s == req'[r]
<1>1. /\ q \in Request /\ RequestShape(q) /\ NoReq \in Request /\ NoReq.work = {} /\ NoReq.key = 0
      /\ NoReq.op = "none" /\ NoReq.pc = "idle" /\ NoReq.extra = {} /\ NoReq.allowed = {}
      /\ NoReq.todo = {}
      /\ RouteWatch \cap {"idle", "rotate.consumer", "rotate.save"} = {}
      /\ Idle(r) => q = NoReq
  BY NoReqType
  DEF TypeOK, ShapeInv, NoReq, RouteWatch, Route3, Sandbox3, EnablePcs, DeletePcs, Idle, RequestShape
<1>2. ASSUME NEW a \in Apps, Rotate(r, a) \/ RotateSandbox(r, a) PROVE Passes(r)
  <2>1. ASSUME NEW op, NEW l,
               Begin(r, op, [NoReq EXCEPT !.pc = "rotate.consumer", !.app = a, !.limit = l])
        PROVE  s.pc = "rotate.consumer"
    <3>1. s = [[NoReq EXCEPT !.pc = "rotate.consumer", !.app = a, !.limit = l] EXCEPT !.op = op]
      BY <2>1 DEF Begin, TypeOK
    <3>. QED  BY <1>1, <3>1 DEF Request
  <2>2. s.pc = "rotate.consumer"
    BY <1>2, <2>1 DEF Rotate, RotateSandbox
  <2>3. q = NoReq
    BY <1>1, <1>2 DEF Rotate, RotateSandbox, Begin
  <2>. QED
    BY <1>1, <1>2, <2>2, <2>3
    DEF Rotate, RotateSandbox, Unprovisioned, adminVars, appVars, subVars, Passes, Lasting
<1>3. ASSUME NEW a \in Apps, EnableSandbox(r, a) PROVE Opts(r)
  <2>. DEFINE list == SandboxProductsForApp(a)
  <2>1. PICK l : s = [[NoReq EXCEPT !.pc = "enable.consumer", !.app = a, !.limit = l,
                                    !.key = creds[a].sandboxKey, !.extra = {a}, !.todo = list]
                         EXCEPT !.op = "enableSandbox"]
    BY <1>3 DEF EnableSandbox, Begin, TypeOK
  <2>. HIDE DEF list
  <2>2. /\ s.op = "enableSandbox" /\ s.pc = "enable.consumer" /\ s.app = a /\ s.extra = {a}
        /\ s.todo = list /\ s.allowed = {} /\ s.work = {}
    BY <1>1, <2>1 DEF Request
  <2>3. q = NoReq /\ SandboxConfigured
    BY <1>1, <1>3 DEF EnableSandbox, Begin
  <2>. QED
    BY <1>3, <2>2, <2>3
    DEF EnableSandbox, Unprovisioned, adminVars, appVars, subVars, Lasting, Opts, Fresh, list
<1>4. ASSUME NEW a \in Apps, DeleteApp(r, a) PROVE Retires(r)
  <2>. DEFINE list == SubscriptionsForApp(a)
  <2>1. s = [[NoReq EXCEPT !.pc = "delete.next", !.app = a, !.todo = list] EXCEPT !.op = "deleteApp"]
    BY <1>4 DEF DeleteApp, Begin, TypeOK
  <2>. HIDE DEF list
  <2>2. /\ s.op = "deleteApp" /\ s.pc = "delete.next" /\ s.app = a /\ s.extra = {}
        /\ s.todo = list /\ s.allowed = {} /\ s.work = {}
    BY <1>1, <2>1 DEF Request
  <2>3. q = NoReq
    BY <1>1, <1>4 DEF DeleteApp, Begin
  <2>. QED
    BY <1>4, <2>2, <2>3
    DEF DeleteApp, Unprovisioned, adminVars, appVars, subVars, Lasting, Retires, Fresh, list
<1>5. ASSUME NEW a \in Apps, NEW c, SetOidc(r, a, c) PROVE Registers(r)
  <2>1. s = [[NoReq EXCEPT !.pc = "oidc.products", !.app = a] EXCEPT !.op = "setOidc"]
    BY <1>5 DEF SetOidc, Begin, TypeOK
  <2>2. /\ s.op = "setOidc" /\ s.pc = "oidc.products" /\ s.app = a /\ s.extra = {}
        /\ s.todo = {} /\ s.allowed = {} /\ s.work = {}
    BY <1>1, <2>1 DEF Request
  <2>3. q = NoReq
    BY <1>1, <1>5 DEF SetOidc, Begin
  <2>4. \A b \in Apps : b # a => oidc'[b] = oidc[b]
    BY <1>5 DEF SetOidc, TypeOK
  <2>. QED
    BY <1>5, <2>2, <2>3, <2>4 DEF SetOidc, adminVars, subVars, gwVars, Registers, Fresh
<1>6. ASSUME RotateConsumer(r) PROVE Passes(r)
  <2>1. s = [q EXCEPT !.pc = "rotate.save", !.key = nextKey]
    BY <1>6 DEF RotateConsumer, TypeOK
  <2>2. s.pc = "rotate.save"
    BY <1>1, <2>1 DEF Request
  <2>. QED
    BY <1>1, <1>6, <2>2 DEF RotateConsumer, At, Passes, Lasting, adminVars, appVars, subVars
<1>7. ASSUME RotateSave(r) PROVE Passes(r)
  BY <1>1, <1>7, FinishFields DEF RotateSave, At, Passes, Lasting, adminVars, appVars, subVars, gwVars
<1>8. ASSUME EnableConsumer(r) PROVE OptsIn(r)
  <2>1. PICK k : s = [q EXCEPT !.pc = "enable.save", !.key = k]
    BY <1>8 DEF EnableConsumer, TypeOK
  <2>2. SameApproval(q, s) /\ s.pc = "enable.save" /\ s.extra = q.extra
    BY <1>1, <2>1 DEF Request, SameApproval
  <2>. QED
    BY <1>8, <2>2 DEF EnableConsumer, OptsIn, adminVars, appVars, subVars, Lasting
<1>9. ASSUME EnableSave(r) PROVE OptedIn(r) \/ Ends(r)
  <2>1. UNCHANGED Lasting /\ At(r, "enable.save")
    BY <1>9 DEF EnableSave, adminVars, appVars, subVars, gwVars, Lasting
  <2>. QED
    BY <1>9, <2>1, FinishFields, NextInTodoFields DEF EnableSave, OptedIn, Ends
<1>10. ASSUME OidcProducts(r) PROVE ListsProducts(r) \/ Ends(r)
  <2>. DEFINE ps == OAuthProductsForApp(q.app)
  <2>1. UNCHANGED Lasting /\ At(r, "oidc.products")
    BY <1>10 DEF OidcProducts, Unprovisioned, adminVars, appVars, subVars, Lasting
  <2>2. \/ ps = {} /\ Finish(r)
        \/ \E p \in ps : s = [q EXCEPT !.pc = "route.product", !.prod = p, !.todo = ps \ {p}]
    BY <1>10 DEF OidcProducts, TypeOK
  <2>. HIDE DEF ps
  <2>3. ASSUME NEW p \in ps, s = [q EXCEPT !.pc = "route.product", !.prod = p, !.todo = ps \ {p}]
        PROVE  /\ Same(q, s) /\ s.pc = "route.product" /\ s.prod = p /\ s.todo = ps \ {p}
               /\ s.allowed = q.allowed
    BY <1>1, <2>3 DEF Request, Same
  <2>. QED
    BY <2>1, <2>2, <2>3, FinishFields DEF ListsProducts, Ends, ps
<1>11. ASSUME DeleteNext(r) PROVE Undoes(r)
  <2>1. PICK p \in q.todo :
           /\ DeleteSubscription(q.app, p)
           /\ req' = [req EXCEPT ![r] = [@ EXCEPT !.pc = "route.product", !.prod = p, !.todo = q.todo \ {p}]]
    BY <1>11 DEF DeleteNext
  <2>2. s = [q EXCEPT !.pc = "route.product", !.prod = p, !.todo = q.todo \ {p}]
    BY <2>1 DEF TypeOK
  <2>3. /\ Same(q, s) /\ s.pc = "route.product" /\ s.prod = p /\ s.todo = q.todo \ {p}
        /\ s.allowed = q.allowed
    BY <1>1, <2>2 DEF Request, Same
  <2>4. q.allowed = {} /\ s.app = q.app /\ q.app \in Apps /\ p \in Products
    BY <1>1, <1>11, <2>3
    DEF DeleteNext, At, RequestShape, MayBeAt, DeletePcs, AdminOps, Same, Request
  <2>5. Gone(<<s.app, s.prod>>)
    BY <2>1, <2>3, <2>4 DEF DeleteSubscription, TypeOK, Gone
  <2>. QED
    BY <1>11, <2>3, <2>4, <2>5 DEF DeleteNext, Undoes, adminVars, appVars, gwVars
<1>12. ASSUME \/ DeleteCredential(r) \/ DeleteConsumer(r) \/ DeleteSandboxKey(r) \/ DeleteSandboxConsumer(r)
       PROVE  Cleans(r) \/ Ends(r)
  <2>1. UNCHANGED Lasting
    BY <1>12 DEF DeleteCredential, DeleteConsumer, DeleteSandboxKey, DeleteSandboxConsumer,
                 Unprovisioned, adminVars, appVars, subVars, Lasting
  <2>2. ASSUME NEW pc, Goto(r, pc) PROVE SameJob(q, s) /\ s.allowed = q.allowed /\ s.pc = pc
    BY <2>2, GotoFields DEF SameJob
  <2>. QED
    BY <1>12, <2>1, <2>2, FinishFields
    DEF DeleteCredential, DeleteConsumer, DeleteSandboxKey, DeleteSandboxConsumer, At, Cleans, Ends,
        DeletePcs
<1>13. ASSUME DeleteRow(r) PROVE Leaves(r)
  <2>1. UNCHANGED <<products, routes>> /\ s = NoReq /\ At(r, "delete.row")
    BY <1>13, FinishFields DEF DeleteRow, adminVars, gwVars
  <2>2. /\ \A x \in Apps \X Products : subs'[x] = IF x[1] = q.app THEN NoSub ELSE subs[x]
        /\ \A b \in Apps : b # q.app => oidc'[b] = oidc[b]
    BY <1>13 DEF DeleteRow, TypeOK
  <2>. QED  BY <2>1, <2>2 DEF Leaves
<1>. QED
  BY <1>2, <1>3, <1>4, <1>5, <1>6, <1>7, <1>8, <1>9, <1>10, <1>11, <1>12, <1>13
  DEF CredentialsNext, RouteMove

\* What the admin does with products.
LEMMA ProductSteps ==
    ASSUME TypeOK, ShapeInv, NEW r \in Requests, ProductNext(r)
    PROVE  RouteMove(r)
<1>. DEFINE q == req[r]
            s == req'[r]
<1>1. /\ q \in Request /\ RequestShape(q) /\ NoReq \in Request /\ NoReq.work = {}
      /\ NoReq.extra = {} /\ NoReq.allowed = {} /\ NoReq.todo = {}
      /\ Idle(r) => q = NoReq
  BY NoReqType DEF TypeOK, ShapeInv, NoReq, Idle, RequestShape
<1>2. ASSUME NEW pc, Goto(r, pc) PROVE SameJob(q, s) /\ s.allowed = q.allowed /\ s.pc = pc
  BY <1>2, GotoFields DEF SameJob
<1>3. ASSUME NEW work, Remaining(r, work) PROVE Remains(r, work)
  BY <1>2, <1>3, FinishFields DEF Remaining, Remains
<1>4. ASSUME NEW p \in Products, NEW row \in Edits, NEW moved \in SUBSET {"upstream", "sandbox"},
             UpdateProduct(r, p, row, moved)
      PROVE  Edited(r)
  <2>. DEFINE migrates == row.auth = "oauth2" /\ products[p].auth # "oauth2"
              rebuilds == "upstream" \in moved \/ row.auth # products[p].auth
              work == (moved \cap {"sandbox"})
                      \cup (IF rebuilds /\ ~migrates THEN {"count"} ELSE {})
                      \cup (IF rebuilds /\ migrates /\ ActiveApps(p) # {} THEN {"route"} ELSE {})
  <2>1. row.sandbox # products[p].sandbox => "sandbox" \in moved
    BY <1>4 DEF UpdateProduct
  <2>2. /\ "sandbox" \in moved => "sandbox" \in work
        /\ row.auth # products[p].auth => "count" \in work \/ "route" \in work \/ ActiveApps(p) = {}
    OBVIOUS
  <2>3. s = [[NoReq EXCEPT !.pc = "product.save", !.prod = p, !.row = row, !.work = work]
                EXCEPT !.op = "updateProduct"]
    BY <1>4 DEF UpdateProduct, Begin, TypeOK
  <2>. HIDE DEF work
  <2>4. /\ s.op = "updateProduct" /\ s.pc = "product.save" /\ s.prod = p /\ s.extra = {} /\ s.todo = {}
        /\ s.allowed = {} /\ s.row = row /\ s.work = work
    BY <1>1, <2>3 DEF Request
  <2>5. UNCHANGED Lasting /\ q = NoReq
    BY <1>1, <1>4 DEF UpdateProduct, Begin, Unprovisioned, adminVars, appVars, subVars, Lasting
  <2>. QED  BY <2>1, <2>2, <2>4, <2>5 DEF Edited
<1>5. ASSUME NEW p \in Products, DeleteProduct(r, p) PROVE Discontinues(r)
  <2>1. s = [[NoReq EXCEPT !.pc = "product.delete", !.prod = p] EXCEPT !.op = "deleteProduct"]
    BY <1>5 DEF DeleteProduct, Begin, TypeOK
  <2>2. /\ s.op = "deleteProduct" /\ s.pc = "product.delete" /\ s.prod = p /\ s.extra = {} /\ s.todo = {}
        /\ s.allowed = {} /\ s.work = {}
    BY <1>1, <2>1 DEF Request
  <2>3. UNCHANGED Lasting /\ q = NoReq
    BY <1>1, <1>5 DEF DeleteProduct, Begin, Unprovisioned, adminVars, appVars, subVars, Lasting
  <2>. QED  BY <1>5, <2>2, <2>3 DEF DeleteProduct, Discontinues, Fresh
<1>6. ASSUME ProductSave(r) PROVE SavesEdit(r) \/ Ends(r)
  <2>1. UNCHANGED <<oidc, subs, routes>> /\ At(r, "product.save")
    BY <1>6 DEF ProductSave, appVars, subVars, gwVars
  <2>2. CASE /\ products[q.prod].live /\ products' = [products EXCEPT ![q.prod] = q.row]
             /\ Remaining(r, q.work)
    <3>1. \A p \in Products : products'[p] = IF p = q.prod THEN q.row ELSE products[p]
      BY <2>2 DEF TypeOK
    <3>. QED  BY <1>3, <2>1, <2>2, <3>1 DEF SavesEdit
  <2>3. CASE Finish(r) /\ UNCHANGED products
    BY <2>1, <2>3, FinishFields DEF Ends, Lasting, At
  <2>. QED  BY <1>6, <2>2, <2>3 DEF ProductSave
<1>7. ASSUME ProductCount(r) PROVE Counts(r)
  <2>1. UNCHANGED Lasting /\ At(r, "product.count")
    BY <1>7 DEF ProductCount, Unprovisioned, adminVars, appVars, subVars, Lasting
  <2>2. CASE Goto(r, "route.product")
    BY <1>2, <2>1, <2>2 DEF Counts
  <2>3. CASE ActiveApps(q.prod) = {} /\ Remaining(r, q.work \ {"count"})
    BY <1>3, <2>1, <2>3 DEF Counts
  <2>. QED  BY <1>7, <2>2, <2>3 DEF ProductCount
<1>8. ASSUME ProductDelete(r) PROVE Discards(r) \/ Ends(r)
  <2>1. UNCHANGED <<oidc, routes>> /\ At(r, "product.delete")
    BY <1>8 DEF ProductDelete, appVars, gwVars
  <2>2. CASE /\ products' = [products EXCEPT ![q.prod] = NoProduct]
             /\ subs' = [x \in Apps \X Products |-> IF x[2] = q.prod THEN NoSub ELSE subs[x]]
             /\ Goto(r, "product.deprovision")
    <3>1. /\ \A p \in Products : products'[p] = IF p = q.prod THEN NoProduct ELSE products[p]
          /\ \A x \in Apps \X Products : subs'[x] = IF x[2] = q.prod THEN NoSub ELSE subs[x]
      BY <2>2 DEF TypeOK
    <3>. QED  BY <1>2, <2>1, <2>2, <3>1 DEF Discards
  <2>3. CASE Finish(r) /\ UNCHANGED <<products, subs>>
    BY <2>1, <2>3, FinishFields DEF Ends, Lasting, At
  <2>. QED  BY <1>8, <2>2, <2>3 DEF ProductDelete
<1>9. ASSUME ProductDeprovision(r) PROVE Deprovisions(r)
  <2>1. q.prod \in Products /\ "production" \in Envs
    BY <1>1, <1>9 DEF ProductDeprovision, At, RequestShape, MayBeAt, Envs
  <2>2. SetsRoute("production", q.prod, NoRoute)
    BY <1>9, <2>1 DEF ProductDeprovision, DeleteRoute, SetsRoute, TypeOK
  <2>. QED
    BY <1>9, <2>2, FinishFields
    DEF ProductDeprovision, Unprovisioned, adminVars, appVars, subVars, Deprovisions
<1>. QED  BY <1>4, <1>5, <1>6, <1>7, <1>8, <1>9 DEF ProductNext, RouteMove

\* What the admin does with plans does not matter to a route.
LEMMA PlanPasses ==
    ASSUME TypeOK, ShapeInv, NEW r \in Requests, PlanNext(r)
    PROVE  Passes(r)
<1>. DEFINE q == req[r]
            s == req'[r]
<1>1. /\ q \in Request /\ NoReq \in Request /\ NoReq.pc = "idle" /\ NoReq.op = "none"
      /\ RouteWatch \cap (PlanPcs \cup {"idle", "plan.delete"}) = {}
      /\ PlanPcs = {"plan.save", "plan.read", "plan.consumers", "plan.push",
                    "plan.sandboxConsumers", "plan.sandboxPush"}
      /\ Idle(r) => q = NoReq
  BY NoReqType DEF ShapeInv, RequestShape, Idle, TypeOK, RouteWatch, Route3, Sandbox3, EnablePcs, DeletePcs, PlanPcs
<1>2. UNCHANGED Lasting
  BY DEF PlanNext, UpdatePlan, DeletePlan, PlanSave, PlanRead, PlanConsumers, PlanPush,
         PlanSandboxConsumers, PlanSandboxPush, PlanDelete, Unprovisioned, adminVars, appVars, subVars,
         gwVars, Lasting
<1>3. ASSUME NEW pc, NEW l, s = [q EXCEPT !.pc = pc, !.limit = l] \/ s = [q EXCEPT !.pc = pc, !.keys = l]
      PROVE  s.pc = pc
  BY <1>1, <1>3 DEF Request
<1>4. ASSUME NEW pl \in Plans, UpdatePlan(r, pl) \/ DeletePlan(r, pl)
      PROVE  q.pc = "idle" /\ s.pc \in {"plan.save", "plan.delete"}
  <2>1. CASE UpdatePlan(r, pl)
    <3>1. PICK l : s = [[NoReq EXCEPT !.pc = "plan.save", !.plan = pl, !.limit = l] EXCEPT !.op = "updatePlan"]
      BY <2>1 DEF UpdatePlan, Begin, TypeOK
    <3>2. s.pc = "plan.save"
      BY <1>1, <3>1 DEF Request
    <3>. QED  BY <1>1, <2>1, <3>2 DEF UpdatePlan, Begin
  <2>2. CASE DeletePlan(r, pl)
    <3>1. s = [[NoReq EXCEPT !.pc = "plan.delete", !.plan = pl] EXCEPT !.op = "deletePlan"]
      BY <2>2 DEF DeletePlan, Begin, TypeOK
    <3>2. s.pc = "plan.delete"
      BY <1>1, <3>1 DEF Request
    <3>. QED  BY <1>1, <2>2, <3>2 DEF DeletePlan, Begin
  <2>. QED  BY <1>4, <2>1, <2>2
<1>5. ASSUME PlanSave(r) \/ PlanDelete(r) PROVE q.pc \in {"plan.save", "plan.delete"} /\ s.pc \in {"plan.read", "idle"}
  BY <1>5, NextPc DEF PlanSave, PlanDelete, At
<1>6. ASSUME PlanRead(r) PROVE q.pc = "plan.read" /\ s.pc \in {"plan.consumers", "idle"}
  <2>1. Finish(r) \/ \E l : s = [q EXCEPT !.pc = "plan.consumers", !.limit = l]
    BY <1>6 DEF PlanRead, TypeOK
  <2>. QED  BY <1>3, <1>6, <2>1, NextPc, ZenonT(60) DEF PlanRead, At
<1>7. ASSUME NEW keys, PushRest(r, keys) \/ SandboxPushRest(r, keys)
      PROVE  s.pc \in PlanPcs \cup {"idle"}
  <2>1. \/ Finish(r)
        \/ s = [q EXCEPT !.pc = "plan.push", !.keys = keys]
        \/ s = [q EXCEPT !.pc = "plan.sandboxConsumers", !.keys = keys]
        \/ s = [q EXCEPT !.pc = "plan.sandboxPush", !.keys = keys]
    BY <1>7 DEF PushRest, SandboxPushRest, TypeOK
  <2>. QED  BY <1>1, <1>3, <2>1, NextPc
<1>8. ASSUME PlanConsumers(r) \/ PlanPush(r) \/ PlanSandboxConsumers(r) \/ PlanSandboxPush(r)
      PROVE  q.pc \in PlanPcs /\ s.pc \in PlanPcs \cup {"idle"}
  BY <1>1, <1>7, <1>8 DEF PlanConsumers, PlanPush, PlanSandboxConsumers, PlanSandboxPush, At
<1>. QED  BY <1>1, <1>2, <1>4, <1>5, <1>6, <1>8 DEF PlanNext, Passes

\* What any step does to routes and to what they are made from.
LEMMA RouteSteps ==
    ASSUME TypeOK, ShapeInv, RowInv, [Next]_vars, NEW r \in Requests, Step(r) \/ Fail(r)
    PROVE  RouteMove(r)
<1>1. ASSUME Fail(r) PROVE Ends(r)
  BY <1>1, FinishFields
  DEF Fail, Ends, adminVars, appVars, subVars, keyVars, gwVars, Lasting
<1>. QED
  BY <1>1, LifeCycleSteps, RouteCallSteps, OwnerSteps, ProductSteps, PlanPasses DEF Step, RouteMove

-----------------------------------------------------------------------------
(* What a request holds about routes *)

\* The lists the tables give for each product.
Subscribers == [p \in Products |-> DesiredMembers(p)]
SandboxSubscribers ==
    [p \in Products |-> IF products[p].sandbox THEN SandboxConsumersForProduct(p) ELSE {}]
RowOf(q) == subs[<<q.app, q.prod>>]

\* A list read is still what the tables say, and the product it was read for is
\* as it was; an approval has pushed the list with the newcomer on it.
ListHeld(q) ==
    /\ q.pc \in {"route.members", "route.push"} =>
           products[q.prod].live /\ q.auth = products[q.prod].auth
    /\ q.pc = "route.push" => q.allowed = Subscribers[q.prod] \cup q.extra
    /\ q.pc = "approve.activate" =>
           routes["production"][q.prod] =
               RouteFor(products[q.prod].auth, Subscribers[q.prod] \cup q.extra)
    /\ q.pc = "sandbox.members" => products[q.prod].sandbox
    /\ q.pc = "sandbox.push" =>
           q.allowed = IF products[q.prod].sandbox THEN SandboxSubscribers[q.prod] \cup q.extra ELSE {}

\* The newcomer an approval adds to the list of the route: it can be let in, and
\* activation will put it on the list.
NewcomerHeld(q) ==
    /\ products[q.prod].auth = "key-auth" =>
           /\ q.extra = {q.app} /\ q.key # 0
           /\ creds[q.app].key # 0 /\ consumers["production"][q.app] # NoConsumer
    /\ products[q.prod].auth = "oauth2" =>
           /\ q.key = 0 /\ q.extra \subseteq {oidc[q.app]} \ {None}
           /\ MaxFaults = 0 => q.extra = {oidc[q.app]} \ {None}
ApprovalHeld(q) ==
    /\ IsSubscription(<<q.app, q.prod>>, q.sub)
    /\ q.pc \in {"approve.credential", "approve.consumer"} => products[q.prod].auth = "key-auth"
    /\ q.pc = "approve.clientId" => products[q.prod].auth = "oauth2"
    /\ q.pc \in {"approve.product", "approve.clientId"} => q.key = 0 /\ q.extra = {}
    /\ q.pc \in Route3 \cup {"approve.activate"} => NewcomerHeld(q)
    /\ q.pc \in {"approve.sandbox"} \cup Sandbox3 =>
           RowOf(q).status = "active" /\ q.extra = {q.app} /\ SandboxConfigured
    /\ q.pc \in Sandbox3 => creds[q.app].sandboxKey # 0

\* What is left for the other requests to do is what the tables say.
WorkHeld(q) ==
    /\ q.op # "updateProduct" => q.work = {}
    /\ q.pc = "reject.set" => IsSubscription(<<q.app, q.prod>>, q.sub)
    /\ q.op = "deleteApp" =>
           /\ \A p \in Products : subs[<<q.app, p>>] # NoSub => p \in q.todo
           /\ q.pc \in DeletePcs \ {"delete.next"} => q.todo = {}
    /\ q.pc \in EnablePcs => q.todo = SandboxProductsForApp(q.app) /\ SandboxConfigured
    /\ q.op = "enableSandbox" => q.extra = {q.app}
    /\ q.op = "enableSandbox" /\ q.pc \in Sandbox3 =>
           /\ creds[q.app].sandboxKey # 0
           /\ \A p \in q.todo \cup {q.prod} : ActiveRow(q.app, p) /\ products[p].sandbox
    /\ q.pc \in Sandbox3 => SandboxConfigured
    /\ q.op = "setOidc" /\ q.pc \in Route3 =>
           \A p \in q.todo \cup {q.prod} : ActiveRow(q.app, p) /\ products[p].auth = "oauth2"
    /\ q.pc = "product.save" =>
           /\ q.row.auth # products[q.prod].auth =>
                  "count" \in q.work \/ "route" \in q.work \/ ActiveApps(q.prod) = {}
           /\ q.row.sandbox # products[q.prod].sandbox => "sandbox" \in q.work
    /\ q.pc = "product.delete" => ActiveApps(q.prod) = {}
    /\ q.pc = "product.deprovision" => ~products[q.prod].live

Held(q) == q.pc \in RouteWatch =>
    ListHeld(q) /\ (q.op = "approve" => ApprovalHeld(q)) /\ WorkHeld(q)
HeldInv == /\ \A r \in Requests : Held(req[r])
           /\ MaxFaults = 0 => faults = 0

-----------------------------------------------------------------------------
(* The keys meanwhile *)

\* Where a key is issued, stored or deleted, a consumer installed or dropped.
KeyWrites ==
    {"subscribe.credential", "approve.credential", "approve.consumer", "rotate.consumer", "rotate.save",
     "enable.consumer", "enable.save", "plan.push", "plan.sandboxPush",
     "delete.consumer", "delete.sandboxConsumer", "delete.row"}

\* Everywhere else the keys stay as they are, and an application that has a key
\* or a consumer keeps one until it is deleted.
LEMMA KeysKept ==
    ASSUME BaseInv, Serial, Serial', KeyInv, [Next]_vars, NEW r \in Requests, Step(r) \/ Fail(r)
    PROVE  /\ req[r].pc \notin KeyWrites => UNCHANGED <<creds, consumers>>
           /\ \A a \in Apps : ~(At(r, "delete.row") /\ req[r].app = a) =>
                  /\ creds[a].key # 0 => creds'[a].key # 0
                  /\ creds[a].sandboxKey # 0 => creds'[a].sandboxKey # 0
           /\ \A a \in Apps : ~(At(r, "delete.consumer") /\ req[r].app = a) =>
                  (consumers["production"][a] # NoConsumer => consumers'["production"][a] # NoConsumer)
<1>. DEFINE q == req[r]
<1>0. KeyMove(r) /\ KeyHeld(q) /\ KeysBelow /\ TypeOK
  BY KeyMoves DEF BaseInv, KeyInv
<1>1. /\ KeyMove(r) /\ KeyHeld(q) /\ KeysBelow /\ nextKey \in Nat \ {0}
      /\ \A a \in Apps : creds[a] \in CredRow /\ consumers["production"][a] \in ConsumerObj
      /\ NoConsumer.key = 0 /\ Envs = {"production", "sandbox"}
  BY <1>0 DEF TypeOK, Envs, NoConsumer
<1>2. q.pc \notin KeyWrites => UNCHANGED <<creds, consumers>>
  BY <1>1
  DEF KeyMove, Quiet, Issues, Admits, Selects, Rotates, Enables, Keeps, Clears, Forgets, Lists, Reinstalls,
      KeepsKeys, KeyWrites, At
<1>3. ASSUME NEW a \in Apps, ~(At(r, "delete.row") /\ q.app = a)
      PROVE  /\ creds[a].key # 0 => creds'[a].key # 0
             /\ creds[a].sandboxKey # 0 => creds'[a].sandboxKey # 0
  <2>1. CASE UNCHANGED creds
    BY <1>3, <2>1
  <2>2. CASE Issues(r)
    BY <1>1, <1>3, <2>2 DEF Issues, StoresKey
  <2>3. CASE Keeps(r)
    BY <1>1, <1>3, <2>3 DEF Keeps, At, KeyHeld, StoresKey, StoresSandboxKey
  <2>4. CASE Forgets(r)
    BY <1>3, <2>4 DEF Forgets
  <2>. QED
    BY <1>1, <2>1, <2>2, <2>3, <2>4
    DEF KeyMove, Quiet, Admits, Selects, Rotates, Enables, Clears, Lists, Reinstalls, KeepsKeys
<1>4. ASSUME NEW e \in Envs, NEW a \in Apps, NEW k, SetsConsumer(e, a, k), k # 0, NEW b \in Apps,
             consumers["production"][b] # NoConsumer
      PROVE  consumers'["production"][b] # NoConsumer
  BY <1>1, <1>4 DEF SetsConsumer
<1>5. ASSUME NEW a \in Apps, ~(At(r, "delete.consumer") /\ q.app = a),
             consumers["production"][a] # NoConsumer
      PROVE  consumers'["production"][a] # NoConsumer
  <2>1. CASE UNCHANGED consumers
    BY <1>5, <2>1
  <2>2. CASE Admits(r)
    BY <1>1, <1>4, <1>5, <2>2 DEF Admits, At, KeyHeld
  <2>3. CASE Rotates(r)
    BY <1>1, <1>4, <1>5, <2>3 DEF Rotates, RotatedEnv
  <2>4. CASE Enables(r)
    <3>1. req'[r].key # 0
      BY <1>1, <2>4 DEF Enables
    <3>. QED  BY <1>1, <1>4, <1>5, <2>4, <3>1 DEF Enables
  <2>5. CASE Clears(r)
    BY <1>1, <1>5, <2>5 DEF Clears, Drops
  <2>6. CASE Reinstalls(r)
    BY <1>1, <1>4, <1>5, <2>6 DEF Reinstalls
  <2>. QED
    BY <1>1, <2>1, <2>2, <2>3, <2>4, <2>5, <2>6
    DEF KeyMove, Quiet, Issues, Selects, Keeps, Forgets, Lists, KeepsKeys
<1>. QED  BY <1>2, <1>3, <1>5

-----------------------------------------------------------------------------
(* Each request keeps hold of what it holds *)

\* The lists stay as they are while the tables do.
LEMMA ListsKept ==
    ASSUME UNCHANGED <<products, oidc, subs, creds>>
    PROVE  /\ UNCHANGED <<Subscribers, SandboxSubscribers>>
           /\ \A a \in Apps : SandboxProductsForApp(a)' = SandboxProductsForApp(a)
           /\ \A p \in Products : ActiveApps(p)' = ActiveApps(p) /\ DesiredRoute(p)' = DesiredRoute(p)
BY DEF Subscribers, SandboxSubscribers, DesiredMembers, OAuthClientsForProduct, ConsumersForProduct,
       SandboxConsumersForProduct, SandboxProductsForApp, ActiveApps, ActiveProducts, DesiredRoute

\* Whose request is at which step.
LEMMA WhoseStep ==
    ASSUME NEW q, RequestShape(q), q.pc \in RouteWatch
    PROVE  /\ q.op \notin AdminOps => q.app \in Apps
           /\ q.pc \in RoutePcs \cup ApprovePcs \cup {"reject.set"} => q.prod \in Products
           /\ q.pc \in ApprovePcs => q.op = "approve"
           /\ q.pc = "reject.set" => q.op = "reject"
           /\ q.pc \in EnablePcs => q.op = "enableSandbox"
           /\ q.pc \in DeletePcs => q.op = "deleteApp"
           /\ q.pc = "oidc.products" => q.op = "setOidc"
           /\ q.pc \in {"product.save", "product.count"} => q.op = "updateProduct" /\ q.prod \in Products
           /\ q.pc \in {"product.delete", "product.deprovision"} =>
                  q.op = "deleteProduct" /\ q.prod \in Products
BY DEF RequestShape, MayBeAt, RoutePcs, ApprovePcs, AdminOps, EnablePcs, DeletePcs, RouteWatch, Route3,
       Sandbox3

\* Without overlap, what a request holds stays current, whatever fails.
LEMMA NextHeld ==
    ASSUME IInv, IInv', Serial, Serial', KeyInv, KeyInv', HeldInv, [Next]_vars
    PROVE  HeldInv'
<1>0. BaseInv /\ TypeOK /\ TypeOK' /\ ShapeInv /\ ShapeInv' /\ RowInv
  BY DEF IInv, BaseInv
<1>1. MaxFaults = 0 => faults' = 0
  BY <1>0, NoMoreFaults DEF HeldInv
<1>2. CASE UNCHANGED <<products, oidc, subs, creds, consumers, routes, req>>
  <2>. SUFFICES ASSUME NEW t \in Requests PROVE Held(req[t])'
    BY <1>1 DEF HeldInv
  <2>1. Held(req[t]) /\ UNCHANGED <<Subscribers, SandboxSubscribers, products, oidc, subs, creds, consumers, routes, req>>
    BY <1>2, ListsKept DEF HeldInv
  <2>2. ActiveApps(req[t].prod)' = ActiveApps(req[t].prod)
    BY <1>2 DEF ActiveApps
  <2>3. SandboxProductsForApp(req[t].app)' = SandboxProductsForApp(req[t].app)
    BY <1>2 DEF SandboxProductsForApp, ActiveProducts
  <2>4. /\ ListHeld(req[t])' <=> ListHeld(req[t])
        /\ ApprovalHeld(req[t])' <=> ApprovalHeld(req[t])
        /\ WorkHeld(req[t])' <=> WorkHeld(req[t])
    <3>1. ListHeld(req[t])' <=> ListHeld(req[t])
      BY <2>1 DEF ListHeld
    <3>2. ApprovalHeld(req[t])' <=> ApprovalHeld(req[t])
      BY <2>1 DEF ApprovalHeld, NewcomerHeld, IsSubscription, RowOf
    <3>3. WorkHeld(req[t])' <=> WorkHeld(req[t])
      BY <2>1, <2>2, <2>3 DEF WorkHeld, IsSubscription, ActiveRow
    <3>. QED  BY <3>1, <3>2, <3>3
  <2>. QED  BY <2>1, <2>4 DEF Held
<1>3. ASSUME NEW r \in Requests, Step(r) \/ Fail(r)
      PROVE  HeldInv'
  <2>. DEFINE q == req[r]
              s == req'[r]
  <2>1. /\ RouteMove(r) /\ Held(q) /\ RequestShape(q) /\ (RequestShape(req[r]))'
        /\ q \in Request /\ s \in Request
    BY <1>0, <1>3, RouteSteps DEF HeldInv, ShapeInv, TypeOK
  <2>2. Held(NoReq)'
    BY NoReqType DEF Held, RouteWatch, Route3, Sandbox3, EnablePcs, DeletePcs
  <2>3. SUFFICES Held(req[r])'
    BY <1>0, <1>1, <1>3, <2>2, Alone DEF HeldInv
  <2>4. /\ \A a \in Apps, p \in Products : <<a, p>> \in Apps \X Products
        /\ \A x \in Apps \X Products : subs[x] \in SubRow /\ subs'[x] \in SubRow
        /\ NoSub.status = "none" /\ NoSub.id = 0 /\ NoReq.pc = "idle" /\ NoReq \in Request
    BY <1>0, NoReqType DEF TypeOK, NoSub
  <2>5. /\ q.pc \notin KeyWrites => UNCHANGED <<creds, consumers>>
        /\ Carries(q) /\ KeyHeld(q) /\ KeyHeld(req[r])'
    BY <1>0, <1>3, KeysKept DEF IInv, CarriedInv, KeyInv
  <2>6. s.pc \notin RouteWatch \/ s = NoReq => Held(req[r])'
    <3>1. "idle" \notin RouteWatch
      BY DEF RouteWatch, Route3, Sandbox3, EnablePcs, DeletePcs
    <3>. QED  BY <2>4, <3>1 DEF Held
  <2>10. CASE Passes(r) \/ Ends(r) \/ Inserts(r) \/ Leaves(r) \/ Deprovisions(r)
    BY <2>6, <2>10 DEF Passes, Ends, Inserts, Leaves, Deprovisions
  <2>11. CASE Withdraws(r)
    BY <2>11
    DEF Withdraws, Fresh, Held, ListHeld, WorkHeld, EnablePcs, DeletePcs, Route3, Sandbox3
  <2>12. CASE Undoes(r)
    <3>1. q.op = "deleteApp" /\ s.op = "deleteApp" /\ s.pc = "route.product" /\ s.work = {} /\ s.app \in Apps
      BY <2>1, <2>12, WhoseStep
      DEF Undoes, Same, At, Held, WorkHeld, RouteWatch, DeletePcs, AdminOps
    <3>2. \A p \in Products : subs'[<<s.app, p>>] # NoSub => p \in s.todo
      BY <2>1, <2>4, <2>12, <3>1
      DEF Undoes, Same, At, Held, WorkHeld, RouteWatch, DeletePcs, Gone
    <3>. QED
      BY <3>1, <3>2 DEF Held, ListHeld, WorkHeld, EnablePcs, DeletePcs, Route3, Sandbox3
  <2>13. CASE Reviews(r)
    <3>1. IsSubscription(<<q.app, q.prod>>, q.sub)' /\ s.work = {}
      BY <2>4, <2>13 DEF Reviews, Lasting, IsSubscription, Fresh
    <3>. QED
      BY <2>13, <3>1
      DEF Reviews, Fresh, Held, ListHeld, ApprovalHeld, WorkHeld, EnablePcs, DeletePcs, Route3, Sandbox3
  <2>14. CASE Refuses(r)
    <3>1. q.op = "reject" /\ q.work = {}
      BY <2>1, <2>14, WhoseStep DEF Refuses, At, RouteWatch, Held, WorkHeld
    <3>. QED
      BY <2>6, <2>14, <3>1
      DEF Refuses, SameJob, Same, Held, ListHeld, WorkHeld, EnablePcs, DeletePcs, Route3, Sandbox3

  <2>15. CASE Looks(r)
    <3>1. q.op = "approve" /\ s.op = "approve" /\ s.work = {} /\ ApprovalHeld(q)
      BY <2>1, <2>15, WhoseStep
      DEF Looks, SameApproval, At, RouteWatch, ApprovePcs, Held, WorkHeld
    <3>2. IsSubscription(<<q.app, q.prod>>, q.sub)' /\ s.key = 0 /\ s.extra = {}
      BY <2>15, <3>1 DEF Looks, SameApproval, At, ApprovalHeld, IsSubscription, Lasting
    <3>. QED
      BY <2>15, <3>1, <3>2
      DEF Looks, SameApproval, Lasting, Held, ListHeld, ApprovalHeld, WorkHeld, EnablePcs, DeletePcs, Route3,
          Sandbox3
  <2>16. CASE LooksUp(r)
    <3>1. /\ q.op = "approve" /\ s.op = "approve" /\ s.work = {} /\ ApprovalHeld(q)
          /\ UNCHANGED <<creds, consumers>>
      BY <2>1, <2>5, <2>16, WhoseStep
      DEF LooksUp, SameApproval, At, RouteWatch, ApprovePcs, Held, WorkHeld, KeyWrites
    <3>2. IsSubscription(<<q.app, q.prod>>, q.sub)' /\ s.key = 0 /\ products'[s.prod].auth = "oauth2"
      BY <2>16, <3>1 DEF LooksUp, SameApproval, At, ApprovalHeld, IsSubscription, Lasting
    <3>3. /\ s.extra \subseteq {oidc'[s.app]} \ {None}
          /\ MaxFaults = 0 => s.extra = {oidc'[s.app]} \ {None}
      BY <2>16, <3>1 DEF LooksUp, SameApproval, At, ApprovalHeld, Lasting, HeldInv
    <3>. QED
      BY <2>16, <3>1, <3>2, <3>3
      DEF LooksUp, Held, ListHeld, ApprovalHeld, NewcomerHeld, WorkHeld, EnablePcs, DeletePcs, Route3, Sandbox3
  <2>17. CASE Credits(r)
    <3>1. q.op = "approve" /\ s.op = "approve" /\ s.work = {} /\ ApprovalHeld(q)
      BY <2>1, <2>17, WhoseStep
      DEF Credits, SameApproval, At, RouteWatch, ApprovePcs, Held, WorkHeld
    <3>2. IsSubscription(<<q.app, q.prod>>, q.sub)' /\ products'[s.prod].auth = "key-auth"
      BY <2>17, <3>1 DEF Credits, SameApproval, At, ApprovalHeld, IsSubscription, Lasting
    <3>. QED
      BY <2>17, <3>1, <3>2
      DEF Credits, Held, ListHeld, ApprovalHeld, WorkHeld, EnablePcs, DeletePcs, Route3, Sandbox3
  <2>18. CASE Installs(r)
    <3>1. q.op = "approve" /\ s.op = "approve" /\ s.work = {} /\ ApprovalHeld(q) /\ q.app \in Apps
      BY <2>1, <2>18, WhoseStep
      DEF Installs, SameApproval, At, RouteWatch, ApprovePcs, AdminOps, Held, WorkHeld
    <3>2. IsSubscription(<<q.app, q.prod>>, q.sub)' /\ products'[s.prod].auth = "key-auth"
      BY <2>18, <3>1 DEF Installs, SameApproval, At, ApprovalHeld, IsSubscription, Lasting
    <3>3. q.key # 0 /\ creds[q.app].key # 0 /\ creds' = creds /\ consumers'["production"][q.app].key = q.key
      BY <2>5, <2>18, <3>1 DEF Installs, KeyHeld, At, SetsConsumer, Envs
    <3>4. consumers'["production"][q.app] # NoConsumer
      BY <3>3 DEF NoConsumer
    <3>. QED
      BY <2>18, <3>1, <3>2, <3>3, <3>4
      DEF Installs, SameApproval, Held, ListHeld, ApprovalHeld, NewcomerHeld, WorkHeld, EnablePcs, DeletePcs,
          Route3, Sandbox3
  <2>19. CASE GoesLive(r)
    <3>1. /\ q.op = "approve" /\ ApprovalHeld(q) /\ NewcomerHeld(q) /\ q.work = {}
          /\ <<q.app, q.prod>> \in Apps \X Products /\ products[q.prod].auth \in {"key-auth", "oauth2"}
      BY <1>0, <2>1, <2>4, <2>19, WhoseStep
      DEF GoesLive, At, RouteWatch, ApprovePcs, AdminOps, Held, WorkHeld, ApprovalHeld, TypeOK, ProductRow,
          AuthTypes
    <3>2. subs'[<<q.app, q.prod>>] = [subs[<<q.app, q.prod>>] EXCEPT !.status = "active"]
      BY <2>19, <3>1 DEF GoesLive, SetSubscriptionStatus, ApprovalHeld
    <3>3. subs'[<<q.app, q.prod>>].status = "active" /\ subs'[<<q.app, q.prod>>].id = q.sub
      BY <2>4, <3>1, <3>2 DEF SubRow, ApprovalHeld, IsSubscription
    <3>4. CASE s.pc = "approve.sandbox"
      <4>1. q.key # 0 /\ SandboxConfigured /\ SameJob(q, s)
        BY <2>4, <2>19, <3>4 DEF GoesLive
      <4>2. s.extra = {s.app} /\ s.app = q.app /\ s.prod = q.prod /\ s.sub = q.sub /\ s.op = "approve" /\ s.work = {}
        BY <3>1, <4>1 DEF NewcomerHeld, SameJob, Same
      <4>. QED
        BY <2>4, <3>3, <3>4, <4>1, <4>2
        DEF Held, ListHeld, ApprovalHeld, WorkHeld, IsSubscription, RowOf, EnablePcs, DeletePcs, Route3, Sandbox3
    <3>5. CASE s.pc # "approve.sandbox"
      <4>1. s = NoReq \/ s.pc = "bill.pricing"
        BY <2>19, <3>5 DEF GoesLive
      <4>. QED  BY <2>6, <4>1 DEF RouteWatch, Route3, Sandbox3, EnablePcs, DeletePcs
    <3>. QED  BY <3>4, <3>5
  <2>20. CASE AsksSandbox(r)
    <3>1. /\ q.op = "approve" /\ ApprovalHeld(q) /\ q.work = {} /\ UNCHANGED <<creds, consumers>>
      BY <2>1, <2>5, <2>20, WhoseStep
      DEF AsksSandbox, At, RouteWatch, ApprovePcs, Held, WorkHeld, KeyWrites
    <3>2. CASE s.pc = "sandbox.product" /\ creds[q.app].sandboxKey # 0
      BY <2>20, <3>1, <3>2
      DEF AsksSandbox, SameJob, Same, At, Lasting, Held, ListHeld, ApprovalHeld, NewcomerHeld, WorkHeld,
          IsSubscription, RowOf, EnablePcs, DeletePcs, Route3, Sandbox3
    <3>3. CASE s.pc = "bill.pricing"
      BY <2>6, <3>3 DEF RouteWatch, Route3, Sandbox3, EnablePcs, DeletePcs
    <3>. QED  BY <2>20, <3>2, <3>3 DEF AsksSandbox
  <2>21. CASE Registers(r)
    BY <2>21
    DEF Registers, Fresh, Held, ListHeld, WorkHeld, EnablePcs, DeletePcs, Route3, Sandbox3
  <2>22. CASE ListsProducts(r)
    <3>1. q.op = "setOidc" /\ q.work = {} /\ s.op = "setOidc" /\ s.work = {} /\ s.pc = "route.product"
      BY <2>1, <2>22, WhoseStep DEF ListsProducts, Same, At, RouteWatch, Held, WorkHeld
    <3>2. \A p \in s.todo \cup {s.prod} : ActiveRow(q.app, p)' /\ products'[p].auth = "oauth2"
      BY <2>22
      DEF ListsProducts, Same, Lasting, OAuthProductsForApp, ActiveProducts, ActiveRow
    <3>. QED
      BY <3>1, <3>2 DEF Held, ListHeld, WorkHeld, EnablePcs, DeletePcs, Route3, Sandbox3
  <2>23. CASE Opts(r)
    <3>1. s.todo = SandboxProductsForApp(q.app)'
      BY <2>23 DEF Opts, Lasting, SandboxProductsForApp, ActiveProducts
    <3>. QED
      BY <2>23, <3>1
      DEF Opts, Fresh, Held, ListHeld, WorkHeld, EnablePcs, DeletePcs, Route3, Sandbox3
  <2>24. CASE OptsIn(r)
    <3>1. q.op = "enableSandbox" /\ WorkHeld(q)
      BY <2>1, <2>24, WhoseStep DEF OptsIn, At, RouteWatch, EnablePcs, Held
    <3>2. s.todo = SandboxProductsForApp(q.app)' /\ SandboxConfigured
      BY <2>24, <3>1
      DEF OptsIn, At, SameApproval, WorkHeld, EnablePcs, Lasting, SandboxProductsForApp, ActiveProducts
    <3>. QED
      BY <2>24, <3>1, <3>2
      DEF OptsIn, SameApproval, Held, ListHeld, WorkHeld, EnablePcs, DeletePcs, Route3, Sandbox3
  <2>25. CASE OptedIn(r)
    <3>1. q.op = "enableSandbox" /\ WorkHeld(q) /\ q.app \in Apps
      BY <2>1, <2>25, WhoseStep DEF OptedIn, At, RouteWatch, EnablePcs, AdminOps, Held
    <3>2. CASE TakesNext(r, "sandbox.product")
      <4>1. Step(r)
        BY <1>0, <1>3, <2>4, <3>2, FinishFields DEF Fail, TakesNext
      <4>2. creds'[q.app].sandboxKey # 0
        BY <1>0, <2>5, <2>25, <3>1, <4>1, SaveStep
        DEF OptedIn, At, Keeps, KeyHeld, StoresSandboxKey
      <4>3. \A p \in s.todo \cup {s.prod} : ActiveRow(q.app, p)' /\ products'[p].sandbox
        BY <2>25, <3>1, <3>2
        DEF OptedIn, At, TakesNext, Same, Lasting, WorkHeld, EnablePcs, SandboxProductsForApp, ActiveProducts,
            ActiveRow
      <4>. QED
        BY <2>25, <3>1, <3>2, <4>2, <4>3
        DEF OptedIn, At, TakesNext, Same, Held, ListHeld, WorkHeld, EnablePcs, DeletePcs, Route3, Sandbox3
    <3>. QED  BY <2>6, <2>25, <3>2 DEF OptedIn
  <2>26. CASE Retires(r)
    BY <2>4, <2>26
    DEF Retires, Fresh, Lasting, Held, ListHeld, WorkHeld, EnablePcs, DeletePcs, Route3, Sandbox3,
        SubscriptionsForApp
  <2>27. CASE Cleans(r)
    <3>1. q.op = "deleteApp" /\ WorkHeld(q) /\ q.todo = {} /\ q.work = {}
      BY <2>1, <2>27, WhoseStep DEF Cleans, RouteWatch, Held, WorkHeld
    <3>. QED
      BY <2>27, <3>1
      DEF Cleans, SameJob, Same, Lasting, Held, ListHeld, WorkHeld, EnablePcs, DeletePcs, Route3, Sandbox3
  <2>28. CASE Edited(r)
    <3>1. ActiveApps(q.prod)' = ActiveApps(s.prod)
      BY <2>28 DEF Edited, Lasting, ActiveApps
    <3>. QED
      BY <2>28, <3>1
      DEF Edited, Lasting, Held, ListHeld, WorkHeld, EnablePcs, DeletePcs, Route3, Sandbox3
  <2>29. CASE SavesEdit(r) \/ Counts(r)
    <3>1. q.op = "updateProduct"
      BY <2>1, <2>29, WhoseStep DEF SavesEdit, Counts, At, RouteWatch
    <3>2. \/ s = NoReq
          \/ /\ s.op = "updateProduct"
             /\ s.pc \in {"product.count", "route.product"} \/ (s.pc = "sandbox.product" /\ SandboxConfigured)
      BY <2>29, <3>1 DEF SavesEdit, Counts, Remains, SameJob, Same
    <3>. QED
      BY <2>6, <3>2 DEF Held, ListHeld, WorkHeld, EnablePcs, DeletePcs, Route3, Sandbox3
  <2>30. CASE Discontinues(r)
    <3>1. ActiveApps(q.prod)' = {}
      BY <2>30 DEF Discontinues, Lasting, ActiveApps
    <3>. QED
      BY <2>30, <3>1
      DEF Discontinues, Fresh, Held, ListHeld, WorkHeld, EnablePcs, DeletePcs, Route3, Sandbox3
  <2>31. CASE Discards(r)
    <3>1. q.op = "deleteProduct" /\ q.work = {} /\ q.prod \in Products
      BY <2>1, <2>31, WhoseStep DEF Discards, At, RouteWatch, Held, WorkHeld
    <3>. QED
      BY <2>31, <3>1
      DEF Discards, SameJob, Same, Held, ListHeld, WorkHeld, EnablePcs, DeletePcs, Route3, Sandbox3, NoProduct

  <2>32. CASE ReadsProduct(r)
    <3>1. /\ WorkHeld(q) /\ (q.op = "approve" => ApprovalHeld(q)) /\ q.prod \in Products
          /\ UNCHANGED <<creds, consumers>>
      BY <2>1, <2>5, <2>32, WhoseStep DEF ReadsProduct, At, RouteWatch, Route3, Held, RoutePcs, KeyWrites
    <3>. QED
      BY <2>32, <3>1
      DEF ReadsProduct, SameJob, Same, At, Lasting, Held, ListHeld, ApprovalHeld, NewcomerHeld, WorkHeld,
          IsSubscription, RowOf, ActiveRow, EnablePcs, DeletePcs, Route3, Sandbox3
  <2>33. CASE ListsMembers(r)
    <3>1. /\ WorkHeld(q) /\ ListHeld(q) /\ (q.op = "approve" => ApprovalHeld(q)) /\ q.prod \in Products
          /\ UNCHANGED <<creds, consumers>>
      BY <2>1, <2>5, <2>33, WhoseStep DEF ListsMembers, At, RouteWatch, Route3, Held, RoutePcs, KeyWrites
    <3>2. UNCHANGED <<Subscribers, SandboxSubscribers>>
      BY <2>33, <3>1, ListsKept DEF ListsMembers, Lasting
    <3>3. /\ products'[s.prod].live /\ s.auth = products'[s.prod].auth
          /\ s.allowed = Subscribers'[s.prod] \cup s.extra
      <4>1. RouteAllowed(q) = Subscribers[q.prod] \cup q.extra
        BY <2>33, <3>1 DEF ListsMembers, At, ListHeld, RouteAllowed, Subscribers, DesiredMembers
      <4>. QED
        BY <2>33, <3>1, <3>2, <4>1 DEF ListsMembers, At, SameJob, Same, Lasting, ListHeld
    <3>4. s.op = "approve" => (ApprovalHeld(q))'
      BY <2>33, <3>1
      DEF ListsMembers, SameJob, Same, At, Lasting, ApprovalHeld, NewcomerHeld, IsSubscription, RowOf, Route3,
          Sandbox3
    <3>5. (WorkHeld(q))'
      BY <2>33, <3>1
      DEF ListsMembers, SameJob, Same, At, Lasting, WorkHeld, ActiveRow, EnablePcs, DeletePcs, Route3, Sandbox3
    <3>. QED
      BY <2>33, <3>3, <3>4, <3>5 DEF ListsMembers, Held, ListHeld
  <2>34. CASE Pushes(r)
    <3>1. /\ WorkHeld(q) /\ ListHeld(q) /\ (q.op = "approve" => ApprovalHeld(q)) /\ q.prod \in Products
          /\ UNCHANGED <<creds, consumers>> /\ q.pc = "route.push"
          /\ UNCHANGED <<products, oidc, subs>>
      BY <2>1, <2>5, <2>34, WhoseStep DEF Pushes, At, RouteWatch, Route3, Held, RoutePcs, KeyWrites
    <3>2. UNCHANGED <<Subscribers, SandboxSubscribers>>
      BY <3>1, ListsKept
    <3>3. CASE q.op = "approve" /\ s.pc = "approve.activate" /\ SameJob(q, s)
      <4>1. routes'["production"][q.prod] = RouteFor(q.auth, q.allowed)
        BY <2>34, <3>1 DEF Pushes, SetsRoute, Envs
      <4>2. routes'["production"][s.prod] = RouteFor(products'[s.prod].auth, Subscribers'[s.prod] \cup s.extra)
        BY <3>1, <3>2, <3>3, <4>1 DEF ListHeld, SameJob, Same
      <4>3. (ApprovalHeld(q))'
        BY <3>1, <3>3
        DEF SameJob, Same, ApprovalHeld, NewcomerHeld, IsSubscription, RowOf, Route3, Sandbox3
      <4>. QED
        BY <3>1, <3>3, <4>2, <4>3
        DEF SameJob, Same, Held, ListHeld, WorkHeld, EnablePcs, DeletePcs, Route3, Sandbox3
    <3>4. CASE SameJob(q, s) /\ s.pc = "sandbox.product" /\ SandboxConfigured
               /\ (q.op \in {"unsubscribe", "reject", "deleteApp"} \/ "sandbox" \in q.work)
      <4>1. q.op \notin {"approve", "enableSandbox", "setOidc"}
        BY <3>1, <3>4 DEF WorkHeld
      <4>. QED
        BY <3>1, <3>4, <4>1
        DEF SameJob, Same, Held, ListHeld, WorkHeld, ActiveRow, EnablePcs, DeletePcs, Route3, Sandbox3
    <3>5. CASE SameJob(q, s) /\ q.op = "deleteApp" /\ s.pc = "delete.next"
      BY <3>1, <3>5
      DEF SameJob, Same, Held, ListHeld, WorkHeld, EnablePcs, DeletePcs, Route3, Sandbox3
    <3>6. CASE q.op = "setOidc" /\ TakesNext(r, "route.product")
      BY <3>1, <3>6
      DEF TakesNext, Same, Held, ListHeld, WorkHeld, ActiveRow, EnablePcs, DeletePcs, Route3, Sandbox3
    <3>. QED  BY <2>6, <2>34, <3>3, <3>4, <3>5, <3>6 DEF Pushes
  <2>35. CASE ReadsSandbox(r)
    <3>1. /\ WorkHeld(q) /\ (q.op = "approve" => ApprovalHeld(q)) /\ q.prod \in Products
          /\ UNCHANGED <<creds, consumers>> /\ q.allowed = {} /\ q.pc = "sandbox.product"
      BY <2>1, <2>5, <2>35, WhoseStep
      DEF ReadsSandbox, At, RouteWatch, Sandbox3, Held, RoutePcs, KeyWrites, RequestShape
    <3>2. s.op = "approve" => (ApprovalHeld(q))'
      BY <2>35, <3>1
      DEF ReadsSandbox, SameJob, Same, Lasting, ApprovalHeld, IsSubscription, RowOf, Route3, Sandbox3
    <3>3. (WorkHeld(q))'
      BY <2>35, <3>1
      DEF ReadsSandbox, SameJob, Same, Lasting, WorkHeld, ActiveRow, EnablePcs, DeletePcs, Route3, Sandbox3
    <3>4. (ListHeld(q))'
      BY <2>35, <3>1 DEF ReadsSandbox, SameJob, Same, Lasting, ListHeld
    <3>. QED
      BY <3>2, <3>3, <3>4 DEF Held
  <2>36. CASE ListsSandbox(r)
    <3>1. /\ WorkHeld(q) /\ ListHeld(q) /\ (q.op = "approve" => ApprovalHeld(q)) /\ q.prod \in Products
          /\ UNCHANGED <<creds, consumers>> /\ q.pc = "sandbox.members"
      BY <2>1, <2>5, <2>36, WhoseStep DEF ListsSandbox, At, RouteWatch, Sandbox3, Held, RoutePcs, KeyWrites
    <3>2. UNCHANGED <<Subscribers, SandboxSubscribers>>
      BY <2>36, <3>1, ListsKept DEF ListsSandbox, Lasting
    <3>3. s.op = "approve" => (ApprovalHeld(q))'
      BY <2>36, <3>1
      DEF ListsSandbox, SameJob, Same, Lasting, ApprovalHeld, IsSubscription, RowOf, Route3, Sandbox3
    <3>4. (WorkHeld(q))'
      BY <2>36, <3>1
      DEF ListsSandbox, SameJob, Same, Lasting, WorkHeld, ActiveRow, EnablePcs, DeletePcs, Route3, Sandbox3
    <3>5. (ListHeld(q))'
      <4>1. SandboxSubscribers[q.prod] = SandboxConsumersForProduct(q.prod)
        BY <3>1 DEF ListHeld, SandboxSubscribers
      <4>. QED  BY <2>36, <3>1, <3>2, <4>1 DEF ListsSandbox, SameJob, Same, Lasting, ListHeld
    <3>. QED
      BY <3>3, <3>4, <3>5 DEF Held
  <2>37. CASE PushesSandbox(r)
    <3>1. WorkHeld(q) /\ UNCHANGED <<creds, consumers>> /\ q.pc = "sandbox.push"
      BY <2>1, <2>5, <2>37 DEF PushesSandbox, At, RouteWatch, Sandbox3, Held, KeyWrites
    <3>2. CASE q.op = "deleteApp" /\ s.pc = "delete.next" /\ SameJob(q, s)
      BY <2>37, <3>1, <3>2
      DEF PushesSandbox, SameJob, Same, Held, ListHeld, WorkHeld, EnablePcs, DeletePcs, Route3, Sandbox3
    <3>3. CASE q.op = "enableSandbox" /\ TakesNext(r, "sandbox.product")
      BY <2>37, <3>1, <3>3
      DEF PushesSandbox, TakesNext, Same, Held, ListHeld, WorkHeld, ActiveRow, EnablePcs, DeletePcs, Route3,
          Sandbox3
    <3>4. CASE s.pc = "bill.pricing"
      BY <2>6, <3>4 DEF RouteWatch, Route3, Sandbox3, EnablePcs, DeletePcs
    <3>. QED  BY <2>6, <2>37, <3>2, <3>3, <3>4 DEF PushesSandbox
  <2>. QED
    BY <2>1, <2>10, <2>11, <2>12, <2>13, <2>14, <2>15, <2>16, <2>17, <2>18, <2>19, <2>20, <2>21, <2>22, <2>23,
       <2>24, <2>25, <2>26, <2>27, <2>28, <2>29, <2>30, <2>31, <2>32, <2>33, <2>34, <2>35, <2>36, <2>37
    DEF RouteMove
<1>. QED  BY <1>2, <1>3, NextByOne
=============================================================================
