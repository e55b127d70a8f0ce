---------------------------- MODULE PortalProofs ----------------------------
(***************************************************************************)
(* Proofs, for every number of applications, products, plans and requests  *)
(* in progress, of the properties of Portal that hold whatever the         *)
(* interleaving and whichever request fails.                               *)
(***************************************************************************)
EXTENDS Portal, TLAPS

\* First half of IInv: types, locals in place, rows with ids of their own.
BaseInv == TypeOK /\ ShapeInv /\ RowInv

-----------------------------------------------------------------------------
(* Requests *)

\* A step of request r changes its own locals only, and leaves them in shape.
LocalStep(r) == /\ req' = [req EXCEPT ![r] = req'[r]]
                /\ req'[r] \in Request
                /\ RequestShape(req'[r])

\* Only the locals of r change, so the other requests stay as they were.
LEMMA RequestStep ==
    ASSUME TypeOK, ShapeInv, NEW r \in Requests, LocalStep(r)
    PROVE  req' \in [Requests -> Request] /\ ShapeInv'
BY DEF TypeOK, ShapeInv, LocalStep

\* The steps of the handlers, one by one.
LEMMA Named ==
    /\ "idle" \in PcNames /\ "route.product" \in PcNames
    /\ "route.members" \in PcNames /\ "route.push" \in PcNames
    /\ "sandbox.product" \in PcNames /\ "sandbox.members" \in PcNames
    /\ "sandbox.push" \in PcNames /\ "subscribe.credential" \in PcNames
    /\ "subscribe.save" \in PcNames /\ "reject.set" \in PcNames
    /\ "approve.product" \in PcNames /\ "approve.clientId" \in PcNames
    /\ "approve.credential" \in PcNames /\ "approve.consumer" \in PcNames
    /\ "approve.activate" \in PcNames /\ "approve.sandbox" \in PcNames
    /\ "bill.pricing" \in PcNames /\ "bill.create" \in PcNames
    /\ "rotate.consumer" \in PcNames /\ "rotate.save" \in PcNames
    /\ "enable.consumer" \in PcNames /\ "enable.save" \in PcNames
    /\ "oidc.products" \in PcNames /\ "delete.next" \in PcNames
    /\ "delete.consumer" \in PcNames /\ "delete.sandboxKey" \in PcNames
    /\ "delete.sandboxConsumer" \in PcNames /\ "delete.row" \in PcNames
    /\ "product.save" \in PcNames /\ "product.count" \in PcNames
    /\ "product.delete" \in PcNames /\ "product.deprovision" \in PcNames
    /\ "plan.save" \in PcNames /\ "plan.read" \in PcNames
    /\ "plan.consumers" \in PcNames /\ "plan.push" \in PcNames
    /\ "plan.sandboxConsumers" \in PcNames /\ "plan.sandboxPush" \in PcNames
    /\ "plan.delete" \in PcNames
BY DEF PcNames

\* The locals of an empty slot have their types and hold nothing.
LEMMA NoReqType ==
    /\ NoReq \in Request /\ NoProduct \in ProductRow
    /\ NoReq.op = "none" /\ NoReq.pc = "idle" /\ NoReq.prod = None
    /\ NoReq.extra = {} /\ NoReq.allowed = {} /\ NoReq.todo = {}
    /\ NoKeys \in [Apps -> Nat]
<1>1. NoKeys \in [Apps -> Nat]
  BY DEF NoKeys
<1>. QED  BY <1>1, Named DEF NoReq, Request, ProductRow, NoProduct, AuthTypes

\* A handler that returns empties its slot.
LEMMA FinishStep ==
    ASSUME TypeOK, NEW r \in Requests, Finish(r)
    PROVE  LocalStep(r)
<1>1. NoReq \in Request
  BY NoReqType
<1>2. RequestShape(NoReq)
  BY DEF NoReq, RequestShape, MayBeAt, RoutePcs, ApprovePcs, OwnerPcs, RotatePcs, EnablePcs, DeletePcs, PlanPcs, AdminOps
<1>3. req' = [req EXCEPT ![r] = NoReq] /\ req'[r] = NoReq
  BY DEF Finish, TypeOK
<1>. QED  BY <1>1, <1>2, <1>3 DEF LocalStep

\* A handler goes on to pc with locals q, of the same request.
LEMMA MoveStep ==
    ASSUME TypeOK, ShapeInv, NEW r \in Requests, ~Idle(r), NEW q \in Request,
           q.op = req[r].op, q.app = req[r].app, q.plan = req[r].plan,
           q.prod = req[r].prod \/ q.prod \in Products,
           MayBeAt(q, q.pc), q.allowed # {} => q.pc \in {"route.push", "sandbox.push"},
           req' = [req EXCEPT ![r] = q]
    PROVE  LocalStep(r)
<1>1. RequestShape(req[r])
  BY DEF ShapeInv
<1>2. RequestShape(q)
  BY <1>1 DEF RequestShape, Idle
<1>. QED  BY <1>2 DEF TypeOK, LocalStep

\* Going to another step changes pc only.
LEMMA GotoStep ==
    ASSUME TypeOK, ShapeInv, NEW r \in Requests, ~Idle(r), NEW pc \in PcNames, Goto(r, pc),
           MayBeAt(req[r], pc), req[r].allowed = {}
    PROVE  LocalStep(r)
<1>. DEFINE q == [req[r] EXCEPT !.pc = pc]
<1>0. req[r] \in Request
  BY DEF TypeOK
<1>1. q \in Request
  BY <1>0 DEF Request
<1>2. /\ q.op = req[r].op /\ q.app = req[r].app /\ q.prod = req[r].prod /\ q.plan = req[r].plan
      /\ q.allowed = {} /\ q.pc = pc
  BY <1>0 DEF Request
<1>3. req' = [req EXCEPT ![r] = q]
  BY DEF Goto
<1>4. MayBeAt(q, q.pc)
  BY <1>2 DEF MayBeAt
<1>. HIDE DEF q
<1>. QED  BY <1>1, <1>2, <1>3, <1>4, MoveStep

\* A handler starts with locals q.
LEMMA BeginStep ==
    ASSUME TypeOK, NEW r \in Requests, NEW op \in OpNames, NEW q \in Request, Begin(r, op, q),
           op \notin AdminOps => q.app \in Apps,
           op \in {"subscribe", "approve", "reject", "updateProduct", "deleteProduct"}
               => q.prod \in Products,
           op \in {"subscribe", "approve", "updatePlan", "deletePlan"} => q.plan \in Plans,
           MayBeAt([q EXCEPT !.op = op], q.pc), q.allowed = {}
    PROVE  LocalStep(r)
<1>. DEFINE s == [q EXCEPT !.op = op]
<1>1. s \in Request
  BY DEF Request
<1>2. /\ s.op = op /\ s.app = q.app /\ s.prod = q.prod /\ s.plan = q.plan
      /\ s.allowed = {} /\ s.pc = q.pc
  BY DEF Request
<1>3. MayBeAt(s, s.pc) /\ req' = [req EXCEPT ![r] = s]
  BY <1>2 DEF Begin
<1>4. op # "none"
  BY DEF OpNames
<1>. HIDE DEF s
<1>5. RequestShape(s)
  BY <1>2, <1>3, <1>4 DEF RequestShape
<1>. QED  BY <1>1, <1>3, <1>5 DEF TypeOK, LocalStep

-----------------------------------------------------------------------------
(* Route provisioning *)

\* Returning from the route subroutine clears its locals.
LEMMA ReturnToStep ==
    ASSUME TypeOK, ShapeInv, NEW r \in Requests, NEW pc \in PcNames, ReturnTo(r, pc),
           ~Idle(r), MayBeAt(req[r], pc)
    PROVE  LocalStep(r)
<1>. DEFINE q == [req[r] EXCEPT !.pc = pc, !.auth = "none", !.allowed = {}]
<1>0. req[r] \in Request
  BY DEF TypeOK
<1>1. q \in Request
  BY <1>0 DEF Request
<1>2. /\ q.op = req[r].op /\ q.app = req[r].app /\ q.prod = req[r].prod /\ q.plan = req[r].plan
      /\ q.allowed = {} /\ q.pc = pc
  BY <1>0 DEF Request
<1>3. req' = [req EXCEPT ![r] = q]
  BY DEF ReturnTo
<1>4. MayBeAt(q, q.pc)
  BY <1>2 DEF MayBeAt
<1>. HIDE DEF q
<1>. QED  BY <1>1, <1>2, <1>3, <1>4, MoveStep

\* The handler's loop takes the next product on its list, or ends.
LEMMA NextInTodoStep ==
    ASSUME TypeOK, ShapeInv, NEW r \in Requests, NEW pc \in RoutePcs, NextInTodo(r, pc), ~Idle(r)
    PROVE  LocalStep(r)
<1>0. req[r] \in Request
  BY DEF TypeOK
<1>1. CASE Finish(r)
  BY <1>1, FinishStep
<1>2. ASSUME NEW p \in req[r].todo,
             req' = [req EXCEPT ![r] = [@ EXCEPT !.pc = pc, !.prod = p, !.todo = req[r].todo \ {p},
                                                 !.auth = "none", !.allowed = {}]]
      PROVE  LocalStep(r)
  <2>. DEFINE q == [req[r] EXCEPT !.pc = pc, !.prod = p, !.todo = req[r].todo \ {p},
                                  !.auth = "none", !.allowed = {}]
  <2>1. q \in Request
    BY <1>0, Named DEF Request, RoutePcs
  <2>2. /\ q.op = req[r].op /\ q.app = req[r].app /\ q.prod \in Products /\ q.plan = req[r].plan
        /\ q.allowed = {} /\ q.pc = pc
    BY <1>0 DEF Request
  <2>3. req' = [req EXCEPT ![r] = q]
    BY <1>2
  <2>4. MayBeAt(q, q.pc)
    BY <2>2 DEF MayBeAt, RoutePcs, ApprovePcs, OwnerPcs, RotatePcs, EnablePcs, DeletePcs, PlanPcs, AdminOps, Idle
  <2>. HIDE DEF q
  <2>. QED  BY <2>1, <2>2, <2>3, <2>4, MoveStep
<1>. QED  BY <1>1, <1>2 DEF NextInTodo

\* Each caller of reprovisionRoute continues where it may be.
LEMMA AfterRouteStep ==
    ASSUME TypeOK, ShapeInv, NEW r \in Requests, At(r, "route.push"), AfterRoute(r)
    PROVE  LocalStep(r)
<1>1. ~Idle(r) /\ req[r].prod \in Products
  BY DEF ShapeInv, RequestShape, MayBeAt, RoutePcs, At, Idle
<1>2. ASSUME req[r].op = "approve" PROVE MayBeAt(req[r], "approve.activate")
  BY <1>2 DEF MayBeAt, RoutePcs, ApprovePcs, OwnerPcs, RotatePcs, EnablePcs, DeletePcs, PlanPcs, AdminOps
<1>3. MayBeAt(req[r], "sandbox.product")
  BY <1>1 DEF MayBeAt, RoutePcs, ApprovePcs, OwnerPcs, RotatePcs, EnablePcs, DeletePcs, PlanPcs, AdminOps, Idle
<1>4. ASSUME req[r].op = "deleteApp" PROVE MayBeAt(req[r], "delete.next")
  BY <1>4 DEF MayBeAt, RoutePcs, ApprovePcs, OwnerPcs, RotatePcs, EnablePcs, DeletePcs, PlanPcs, AdminOps
<1>. QED
  BY <1>1, <1>2, <1>3, <1>4, ReturnToStep, NextInTodoStep, FinishStep
  DEF AfterRoute, RoutePcs, PcNames

\* Each caller of reprovisionSandboxRoute continues where it may be.
LEMMA AfterSandboxRouteStep ==
    ASSUME TypeOK, ShapeInv, NEW r \in Requests, At(r, "sandbox.push"), AfterSandboxRoute(r)
    PROVE  LocalStep(r)
<1>1. ~Idle(r) /\ req[r].prod \in Products
  BY DEF ShapeInv, RequestShape, MayBeAt, RoutePcs, At, Idle
<1>2. ASSUME req[r].op = "approve" PROVE MayBeAt(req[r], "bill.pricing")
  BY <1>2 DEF MayBeAt, RoutePcs, ApprovePcs, OwnerPcs, RotatePcs, EnablePcs, DeletePcs, PlanPcs, AdminOps
<1>4. ASSUME req[r].op = "deleteApp" PROVE MayBeAt(req[r], "delete.next")
  BY <1>4 DEF MayBeAt, RoutePcs, ApprovePcs, OwnerPcs, RotatePcs, EnablePcs, DeletePcs, PlanPcs, AdminOps
<1>. QED
  BY <1>1, <1>2, <1>4, ReturnToStep, NextInTodoStep, FinishStep
  DEF AfterSandboxRoute, RoutePcs, PcNames

\* The list a handler is about to push names consumers and client ids only.
LEMMA RouteAllowedType ==
    ASSUME TypeOK, NEW q \in Request, q.prod \in Products
    PROVE  RouteAllowed(q) \subseteq Identities
<1>1. OAuthClientsForProduct(q.prod) \subseteq ClientIds
  BY DEF TypeOK, OAuthClientsForProduct, ActiveApps
<1>2. ConsumersForProduct(q.prod) \subseteq Apps
  BY DEF ConsumersForProduct, ActiveApps
<1>3. q.extra \subseteq Identities
  BY DEF Request
<1>. QED  BY <1>1, <1>2, <1>3 DEF RouteAllowed, Identities

\* Every step of route provisioning.
LEMMA RouteLocal ==
    ASSUME TypeOK, ShapeInv, NEW r \in Requests, RouteNext(r)
    PROVE  LocalStep(r)
<1>1. req[r] \in Request /\ RequestShape(req[r])
  BY DEF TypeOK, ShapeInv
<1>2. ~Idle(r) /\ req[r].prod \in Products /\ req[r].pc \in RoutePcs
  BY <1>1 DEF RequestShape, MayBeAt, RouteNext, RouteProduct, RouteMembers, RoutePush,
              SandboxProduct, SandboxMembers, SandboxPush, At, Idle, RoutePcs
<1>3. ASSUME NEW q \in Request, q.op = req[r].op, q.app = req[r].app, q.plan = req[r].plan,
             q.prod = req[r].prod, q.pc \in RoutePcs,
             q.allowed # {} => q.pc \in {"route.push", "sandbox.push"},
             req' = [req EXCEPT ![r] = q]
      PROVE  LocalStep(r)
  <2>1. MayBeAt(q, q.pc)
    BY <1>2, <1>3 DEF MayBeAt, RoutePcs, ApprovePcs, OwnerPcs, RotatePcs, EnablePcs, DeletePcs, PlanPcs, AdminOps, Idle
  <2>. QED  BY <1>2, <1>3, <2>1, MoveStep
<1>4. CASE RouteProduct(r)
  <2>. DEFINE q == [req[r] EXCEPT !.pc = "route.members", !.auth = products[req[r].prod].auth]
  <2>1. q \in Request
    <3>1. "route.members" \in PcNames
      BY DEF PcNames
    <3>. QED  BY <1>1, <1>2, <3>1 DEF Request, TypeOK, ProductRow
  <2>2. /\ q.op = req[r].op /\ q.app = req[r].app /\ q.prod = req[r].prod /\ q.plan = req[r].plan
        /\ q.allowed = {} /\ q.pc \in RoutePcs
    BY <1>1, <1>4 DEF Request, RequestShape, RouteProduct, At, RoutePcs
  <2>3. Finish(r) \/ req' = [req EXCEPT ![r] = q]
    BY <1>4 DEF RouteProduct
  <2>. HIDE DEF q
  <2>. QED  BY <2>1, <2>2, <2>3, <1>3, FinishStep
<1>5. CASE RouteMembers(r)
  <2>. DEFINE q == [req[r] EXCEPT !.pc = "route.push", !.allowed = RouteAllowed(req[r])]
  <2>1. q \in Request
    <3>1. "route.push" \in PcNames
      BY DEF PcNames
    <3>. QED  BY <1>1, <1>2, RouteAllowedType, <3>1 DEF Request
  <2>2. /\ q.op = req[r].op /\ q.app = req[r].app /\ q.prod = req[r].prod /\ q.plan = req[r].plan
        /\ q.pc = "route.push"
    BY <1>1 DEF Request
  <2>3. req' = [req EXCEPT ![r] = q]
    BY <1>5 DEF RouteMembers
  <2>. HIDE DEF q
  <2>. QED  BY <2>1, <2>2, <2>3, <1>3 DEF RoutePcs
<1>6. CASE RoutePush(r)
  BY <1>6, AfterRouteStep DEF RoutePush
<1>7. CASE SandboxProduct(r)
  <2>1. req[r].allowed = {}
    BY <1>1, <1>7 DEF SandboxProduct, At, RequestShape
  <2>2. \A pc \in RoutePcs : MayBeAt(req[r], pc) /\ pc \in PcNames
    BY <1>2 DEF MayBeAt, RoutePcs, ApprovePcs, OwnerPcs, RotatePcs, EnablePcs, DeletePcs, PlanPcs, AdminOps, PcNames, Idle
  <2>. QED  BY <1>2, <1>7, <2>1, <2>2, GotoStep, FinishStep DEF SandboxProduct, RoutePcs
<1>8. CASE SandboxMembers(r)
  <2>. DEFINE s == SandboxConsumersForProduct(req[r].prod) \cup req[r].extra
              q == [req[r] EXCEPT !.pc = "sandbox.push", !.allowed = s]
  <2>1. s \subseteq Identities
    BY <1>1 DEF Request, Identities, SandboxConsumersForProduct, ActiveApps
  <2>2. q \in Request
    BY <1>1, <2>1, Named DEF Request
  <2>3. /\ q.op = req[r].op /\ q.app = req[r].app /\ q.prod = req[r].prod /\ q.plan = req[r].plan
        /\ q.pc = "sandbox.push"
    BY <1>1 DEF Request
  <2>4. req' = [req EXCEPT ![r] = q]
    BY <1>8 DEF SandboxMembers
  <2>. HIDE DEF q
  <2>. QED  BY <2>2, <2>3, <2>4, <1>3 DEF RoutePcs
<1>9. CASE SandboxPush(r)
  BY <1>9, AfterSandboxRouteStep DEF SandboxPush
<1>. QED  BY <1>4, <1>5, <1>6, <1>7, <1>8, <1>9 DEF RouteNext

-----------------------------------------------------------------------------
(* The subscription life cycle *)

\* Subscribe starts with an application, a product and a plan.
LEMMA SubscribeLocal ==
    ASSUME TypeOK, NEW r \in Requests, NEW a \in Apps, NEW p \in Products, NEW pl \in Plans,
           Subscribe(r, a, p, pl)
    PROVE  LocalStep(r)
<1>. DEFINE pc == IF products[p].auth = "oauth2" THEN "subscribe.save" ELSE "subscribe.credential"
            q == [NoReq EXCEPT !.app = a, !.prod = p, !.plan = pl, !.pc = pc]
            s == [q EXCEPT !.op = "subscribe"]
<1>1. Begin(r, "subscribe", q)
  BY DEF Subscribe
<1>2. pc \in {"subscribe.save", "subscribe.credential"}
  OBVIOUS
<1>. HIDE DEF pc
<1>3. q \in Request /\ q.app = a /\ q.prod = p /\ q.plan = pl /\ q.allowed = {} /\ q.pc = pc
  BY <1>2, NoReqType, Named DEF Request, NoReq
<1>4. s.op = "subscribe" /\ s.prod = p
  BY NoReqType DEF Request, NoReq
<1>. HIDE DEF q
<1>5. MayBeAt(s, pc)
  BY <1>2, <1>4 DEF MayBeAt, RoutePcs, ApprovePcs, OwnerPcs, RotatePcs, EnablePcs, DeletePcs, PlanPcs, AdminOps
<1>. QED  BY <1>1, <1>3, <1>5, BeginStep DEF OpNames, AdminOps

\* Unsubscribe starts with the pair it deleted, at the route.
LEMMA UnsubscribeLocal ==
    ASSUME TypeOK, NEW r \in Requests, NEW a \in Apps, NEW p \in Products, Unsubscribe(r, a, p)
    PROVE  LocalStep(r)
<1>. DEFINE q == [NoReq EXCEPT !.pc = "route.product", !.app = a, !.prod = p]
            s == [q EXCEPT !.op = "unsubscribe"]
<1>1. Begin(r, "unsubscribe", q)
  BY DEF Unsubscribe
<1>2. q \in Request /\ q.app = a /\ q.prod = p /\ q.allowed = {} /\ q.pc = "route.product"
  BY NoReqType, Named DEF Request, NoReq
<1>3. s.op = "unsubscribe" /\ s.prod = p
  BY NoReqType DEF Request, NoReq
<1>. HIDE DEF q
<1>4. MayBeAt(s, "route.product")
  BY <1>3 DEF MayBeAt, RoutePcs, ApprovePcs, OwnerPcs, RotatePcs, EnablePcs, DeletePcs, PlanPcs, AdminOps
<1>. QED  BY <1>1, <1>2, <1>4, BeginStep DEF OpNames, AdminOps

\* Reject starts with the id it read.
LEMMA RejectLocal ==
    ASSUME TypeOK, NEW r \in Requests, NEW a \in Apps, NEW p \in Products, Reject(r, a, p)
    PROVE  LocalStep(r)
<1>. DEFINE id == subs[<<a, p>>].id
            q == [NoReq EXCEPT !.pc = "reject.set", !.app = a, !.prod = p, !.sub = id]
            s == [q EXCEPT !.op = "reject"]
<1>1. Begin(r, "reject", q)
  BY DEF Reject
<1>2. id \in Nat
  BY DEF TypeOK, SubRow
<1>. HIDE DEF id
<1>3. q \in Request /\ q.app = a /\ q.prod = p /\ q.allowed = {} /\ q.pc = "reject.set"
  BY <1>2, NoReqType, Named DEF Request, NoReq
<1>4. s.op = "reject" /\ s.prod = p
  BY NoReqType DEF Request, NoReq
<1>. HIDE DEF q
<1>5. MayBeAt(s, "reject.set")
  BY <1>4 DEF MayBeAt, RoutePcs, ApprovePcs, OwnerPcs, RotatePcs, EnablePcs, DeletePcs, PlanPcs, AdminOps
<1>. QED  BY <1>1, <1>3, <1>5, BeginStep DEF OpNames, AdminOps

\* Approve starts with the id and the plan it read, which a row has.
LEMMA ApproveLocal ==
    ASSUME TypeOK, RowInv, NEW r \in Requests, NEW a \in Apps, NEW p \in Products, Approve(r, a, p)
    PROVE  LocalStep(r)
<1>. DEFINE id == subs[<<a, p>>].id
            pl == subs[<<a, p>>].plan
            q == [NoReq EXCEPT !.pc = "approve.product", !.app = a, !.prod = p, !.sub = id, !.plan = pl]
            s == [q EXCEPT !.op = "approve"]
<1>1. Begin(r, "approve", q)
  BY DEF Approve
<1>2. id \in Nat /\ pl \in Plans
  BY DEF TypeOK, SubRow, RowInv, NoSub, Approve
<1>. HIDE DEF id, pl
<1>3. q \in Request /\ q.app = a /\ q.prod = p /\ q.plan = pl /\ q.allowed = {}
      /\ q.pc = "approve.product"
  BY <1>2, NoReqType, Named DEF Request, NoReq
<1>4. s.op = "approve" /\ s.prod = p
  BY NoReqType DEF Request, NoReq
<1>. HIDE DEF q
<1>5. MayBeAt(s, "approve.product")
  BY <1>4 DEF MayBeAt, RoutePcs, ApprovePcs, OwnerPcs, RotatePcs, EnablePcs, DeletePcs, PlanPcs, AdminOps
<1>. QED  BY <1>1, <1>2, <1>3, <1>5, BeginStep DEF OpNames, AdminOps

\* A step in the middle of Subscribe, Reject or Approve.
LEMMA SubscriptionStepLocal ==
    ASSUME TypeOK, ShapeInv, NEW r \in Requests,
           \/ SubscribeCredential(r) \/ SubscribeSave(r) \/ RejectSet(r)
           \/ ApproveProduct(r) \/ ApproveClientId(r) \/ ApproveCredential(r) \/ ApproveConsumer(r)
           \/ ApproveActivate(r) \/ ApproveSandbox(r) \/ BillPricing(r) \/ BillCreate(r)
    PROVE  LocalStep(r)
<1>1. req[r] \in Request /\ RequestShape(req[r])
  BY DEF TypeOK, ShapeInv
<1>2. ~Idle(r) /\ req[r].prod \in Products /\ req[r].app \in Apps /\ req[r].allowed = {}
  BY <1>1 DEF RequestShape, MayBeAt, AdminOps, ApprovePcs, Idle, At, SubscribeCredential, SubscribeSave,
              RejectSet, ApproveProduct, ApproveClientId, ApproveCredential, ApproveConsumer,
              ApproveActivate, ApproveSandbox, BillPricing, BillCreate
<1>3. MayBeAt(req[r], "route.product") /\ MayBeAt(req[r], "sandbox.product")
  BY <1>2 DEF MayBeAt, RoutePcs, ApprovePcs, OwnerPcs, RotatePcs, EnablePcs, DeletePcs, PlanPcs, AdminOps, Idle
<1>4. ASSUME req[r].op = "approve", NEW pc \in ApprovePcs PROVE MayBeAt(req[r], pc)
  BY <1>4 DEF MayBeAt, RoutePcs, ApprovePcs, OwnerPcs, RotatePcs, EnablePcs, DeletePcs, PlanPcs, AdminOps
<1>5. ASSUME NEW q \in Request, q.op = req[r].op, q.app = req[r].app, q.plan = req[r].plan,
             q.prod = req[r].prod, q.allowed = {},
             q.op = "approve", q.pc \in ApprovePcs \cup {"route.product"}, req' = [req EXCEPT ![r] = q]
      PROVE  LocalStep(r)
  <2>1. MayBeAt(q, q.pc)
    BY <1>2, <1>5 DEF MayBeAt, RoutePcs, ApprovePcs, OwnerPcs, RotatePcs, EnablePcs, DeletePcs, PlanPcs, AdminOps
  <2>. QED  BY <1>2, <1>5, <2>1, MoveStep
<1>6. CASE SubscribeCredential(r)
  <2>1. MayBeAt(req[r], "subscribe.save")
    BY <1>1, <1>6 DEF SubscribeCredential, At, RequestShape, MayBeAt, RoutePcs, ApprovePcs, OwnerPcs, RotatePcs, EnablePcs, DeletePcs, PlanPcs, AdminOps
  <2>. QED  BY <1>2, <1>6, <2>1, GotoStep, FinishStep DEF SubscribeCredential, PcNames
<1>7. CASE SubscribeSave(r)
  BY <1>7, FinishStep DEF SubscribeSave
<1>8. CASE RejectSet(r)
  BY <1>2, <1>3, <1>8, GotoStep, FinishStep DEF RejectSet, PcNames
<1>9. ASSUME req[r].pc \in ApprovePcs PROVE req[r].op = "approve"
  BY <1>1, <1>9 DEF RequestShape, MayBeAt
<1>10. CASE ApproveProduct(r)
  <2>. DEFINE q == [req[r] EXCEPT !.pc = "approve.credential", !.limit = plans[req[r].plan].limit]
  <2>0. req[r].op = "approve"
    BY <1>9, <1>10 DEF ApproveProduct, At, ApprovePcs
  <2>1. plans[req[r].plan].limit \in Nat
    BY <1>1, <2>0 DEF TypeOK, PlanRow, RequestShape
  <2>2. q \in Request
    BY <1>1, <2>1, Named DEF Request
  <2>3. /\ q.op = req[r].op /\ q.app = req[r].app /\ q.prod = req[r].prod /\ q.plan = req[r].plan
        /\ q.allowed = {} /\ q.pc = "approve.credential"
    BY <1>1, <1>2 DEF Request
  <2>4. Finish(r) \/ Goto(r, "approve.clientId") \/ req' = [req EXCEPT ![r] = q]
    BY <1>10 DEF ApproveProduct
  <2>. HIDE DEF q
  <2>. QED  BY <2>0, <2>2, <2>3, <2>4, <1>2, <1>4, <1>5, FinishStep, GotoStep DEF ApprovePcs, PcNames
<1>11. CASE ApproveClientId(r)
  <2>. DEFINE x == {oidc[req[r].app]} \ {None}
              q == [req[r] EXCEPT !.pc = "route.product", !.extra = x]
  <2>0. req[r].op = "approve"
    BY <1>9, <1>11 DEF ApproveClientId, At, ApprovePcs
  <2>1. x \subseteq Identities
    BY <1>2 DEF TypeOK, Identities
  <2>2. q \in Request
    BY <1>1, <2>1, Named DEF Request
  <2>3. /\ q.op = req[r].op /\ q.app = req[r].app /\ q.prod = req[r].prod /\ q.plan = req[r].plan
        /\ q.allowed = {} /\ q.pc = "route.product"
    BY <1>1, <1>2 DEF Request
  <2>4. Goto(r, "route.product") \/ req' = [req EXCEPT ![r] = q]
    BY <1>11 DEF ApproveClientId
  <2>. HIDE DEF q
  <2>. QED  BY <2>0, <2>2, <2>3, <2>4, <1>2, <1>3, <1>5, GotoStep DEF PcNames
<1>12. CASE ApproveCredential(r)
  <2>. DEFINE k == creds'[req[r].app].key
              q == [req[r] EXCEPT !.pc = "approve.consumer", !.key = k]
  <2>0. req[r].op = "approve"
    BY <1>9, <1>12 DEF ApproveCredential, At, ApprovePcs
  <2>1. CASE Finish(r)
    BY <2>1, FinishStep
  <2>2. CASE GetOrCreateCredential(req[r].app) /\ req' = [req EXCEPT ![r] = q]
    <3>1. k \in Nat
      BY <1>2, <2>2 DEF TypeOK, GetOrCreateCredential, CredRow
    <3>. HIDE DEF k
    <3>2. q \in Request
      BY <1>1, <3>1, Named DEF Request
    <3>3. /\ q.op = req[r].op /\ q.app = req[r].app /\ q.prod = req[r].prod /\ q.plan = req[r].plan
          /\ q.allowed = {} /\ q.pc = "approve.consumer"
      BY <1>1, <1>2 DEF Request
    <3>. HIDE DEF q
    <3>. QED  BY <2>0, <2>2, <3>2, <3>3, <1>5 DEF ApprovePcs
  <2>. QED  BY <1>12, <2>1, <2>2 DEF ApproveCredential
<1>13. CASE ApproveConsumer(r)
  <2>. DEFINE q == [req[r] EXCEPT !.pc = "route.product", !.extra = {req[r].app}]
  <2>0. req[r].op = "approve"
    BY <1>9, <1>13 DEF ApproveConsumer, At, ApprovePcs
  <2>1. q \in Request
    <3>1. "route.product" \in PcNames
      BY DEF PcNames
    <3>. QED  BY <1>1, <1>2, <3>1 DEF Request, Identities
  <2>2. /\ q.op = req[r].op /\ q.app = req[r].app /\ q.prod = req[r].prod /\ q.plan = req[r].plan
        /\ q.allowed = {} /\ q.pc = "route.product"
    BY <1>1, <1>2 DEF Request
  <2>3. req' = [req EXCEPT ![r] = q]
    BY <1>13 DEF ApproveConsumer
  <2>. HIDE DEF q
  <2>. QED  BY <2>0, <2>1, <2>2, <2>3, <1>5
<1>14. CASE ApproveActivate(r) \/ ApproveSandbox(r) \/ BillPricing(r) \/ BillCreate(r)
  <2>1. req[r].op = "approve"
    BY <1>9, <1>14 DEF ApproveActivate, ApproveSandbox, BillPricing, BillCreate, At, ApprovePcs
  <2>2. \/ Finish(r) \/ Goto(r, "sandbox.product")
        \/ \E pc \in ApprovePcs : Goto(r, pc)
    BY <1>14 DEF ApproveActivate, ApproveSandbox, BillPricing, BillCreate, ApprovePcs
  <2>3. ApprovePcs \subseteq PcNames
    BY DEF ApprovePcs, PcNames
  <2>. QED  BY <1>2, <1>3, <1>4, <2>1, <2>2, <2>3, GotoStep, FinishStep DEF PcNames
<1>. QED  BY <1>6, <1>7, <1>8, <1>10, <1>11, <1>12, <1>13, <1>14

\* Every step of the subscription life cycle.
LEMMA SubscriptionLocal ==
    ASSUME TypeOK, ShapeInv, RowInv, NEW r \in Requests, SubscriptionNext(r)
    PROVE  LocalStep(r)
BY SubscribeLocal, UnsubscribeLocal, RejectLocal, ApproveLocal, SubscriptionStepLocal
DEF SubscriptionNext

-----------------------------------------------------------------------------
(* What an application's owner does *)

\* Rotate, RotateSandbox, EnableSandbox and DeleteApp start with an
\* application and, but for pc, locals that are in place anywhere.
LEMMA OwnerBegin ==
    ASSUME TypeOK, NEW r \in Requests, NEW a \in Apps, NEW q \in Request,
           NEW op \in {"rotate", "rotateSandbox", "enableSandbox", "deleteApp"},
           Begin(r, op, q), q.app = a, q.allowed = {},
           \/ q.pc = "rotate.consumer" /\ op \in {"rotate", "rotateSandbox"}
           \/ q.pc = "enable.consumer" /\ op = "enableSandbox"
           \/ q.pc = "delete.next" /\ op = "deleteApp"
    PROVE  LocalStep(r)
<1>. DEFINE s == [q EXCEPT !.op = op]
<1>1. s.op = op
  BY DEF Request
<1>2. MayBeAt(s, q.pc)
  BY <1>1 DEF MayBeAt, RoutePcs, ApprovePcs, RotatePcs, EnablePcs, DeletePcs, PlanPcs, AdminOps
<1>. QED  BY <1>2, BeginStep DEF OpNames, AdminOps

\* An active row has a plan, so its limit is a number.
LEMMA ActivePlanLimitsType ==
    ASSUME TypeOK, RowInv, NEW a \in Apps
    PROVE  ActivePlanLimits(a) \subseteq Nat
<1>1. ASSUME NEW p \in LatestActive(a) PROVE plans[subs[<<a, p>>].plan].limit \in Nat
  BY <1>1 DEF LatestActive, ActiveProducts, TypeOK, PlanRow, RowInv, NoSub
<1>. QED  BY <1>1 DEF ActivePlanLimits

\* A rotation starts with the limit it read.
LEMMA RotateBeginLocal ==
    ASSUME TypeOK, RowInv, NEW r \in Requests, NEW a \in Apps, Rotate(r, a) \/ RotateSandbox(r, a)
    PROVE  LocalStep(r)
<1>1. PICK limit \in ActivePlanLimits(a), op \in {"rotate", "rotateSandbox"} :
          Begin(r, op, [NoReq EXCEPT !.pc = "rotate.consumer", !.app = a, !.limit = limit])
  BY DEF Rotate, RotateSandbox
<1>. DEFINE q == [NoReq EXCEPT !.pc = "rotate.consumer", !.app = a, !.limit = limit]
<1>2. q \in Request /\ q.app = a /\ q.allowed = {} /\ q.pc = "rotate.consumer"
  BY NoReqType, ActivePlanLimitsType, Named DEF Request, NoReq
<1>3. Begin(r, op, q)
  BY <1>1
<1>. HIDE DEF q
<1>. QED  BY <1>2, <1>3, OwnerBegin

\* EnableSandbox starts with the products it listed.
LEMMA EnableBeginLocal ==
    ASSUME TypeOK, RowInv, NEW r \in Requests, NEW a \in Apps, EnableSandbox(r, a)
    PROVE  LocalStep(r)
<1>. DEFINE k == creds[a].sandboxKey
            ps == SandboxProductsForApp(a)
<1>1. PICK limit \in ActivePlanLimits(a) :
          Begin(r, "enableSandbox",
                [NoReq EXCEPT !.pc = "enable.consumer", !.app = a, !.limit = limit,
                              !.key = k, !.extra = {a}, !.todo = ps])
  BY DEF EnableSandbox
<1>2. k \in Nat /\ ps \subseteq Products /\ {a} \subseteq Identities
  BY DEF TypeOK, CredRow, SandboxProductsForApp, ActiveProducts, Identities
<1>. HIDE DEF k, ps
<1>. DEFINE q == [NoReq EXCEPT !.pc = "enable.consumer", !.app = a, !.limit = limit,
                               !.key = k, !.extra = {a}, !.todo = ps]
<1>3. q \in Request /\ q.app = a /\ q.allowed = {} /\ q.pc = "enable.consumer"
  BY <1>2, NoReqType, ActivePlanLimitsType, Named DEF Request, NoReq
<1>4. Begin(r, "enableSandbox", q)
  BY <1>1
<1>. HIDE DEF q
<1>. QED  BY <1>3, <1>4, OwnerBegin

\* DeleteApplication starts with the products it listed.
LEMMA DeleteAppLocal ==
    ASSUME TypeOK, NEW r \in Requests, NEW a \in Apps, DeleteApp(r, a)
    PROVE  LocalStep(r)
<1>. DEFINE ps == SubscriptionsForApp(a)
            q == [NoReq EXCEPT !.pc = "delete.next", !.app = a, !.todo = ps]
<1>1. ps \subseteq Products
  BY DEF SubscriptionsForApp
<1>2. Begin(r, "deleteApp", q)
  BY DEF DeleteApp
<1>. HIDE DEF ps
<1>3. q \in Request /\ q.app = a /\ q.allowed = {} /\ q.pc = "delete.next"
  BY <1>1, NoReqType, Named DEF Request, NoReq
<1>. HIDE DEF q
<1>. QED  BY <1>2, <1>3, OwnerBegin

\* SetOIDCClientID starts once the client id is written.
LEMMA SetOidcLocal ==
    ASSUME TypeOK, NEW r \in Requests, NEW a \in Apps, NEW c, SetOidc(r, a, c)
    PROVE  LocalStep(r)
<1>. DEFINE q == [NoReq EXCEPT !.pc = "oidc.products", !.app = a]
<1>1. Begin(r, "setOidc", q)
  BY DEF SetOidc
<1>2. q \in Request /\ q.app = a /\ q.allowed = {} /\ q.pc = "oidc.products"
  BY NoReqType, Named DEF Request, NoReq
<1>. DEFINE s == [q EXCEPT !.op = "setOidc"]
<1>3. s.op = "setOidc"
  BY NoReqType DEF Request, NoReq
<1>. HIDE DEF q
<1>4. MayBeAt(s, "oidc.products")
  BY <1>3 DEF MayBeAt, RoutePcs, ApprovePcs, OwnerPcs, RotatePcs, EnablePcs, DeletePcs, PlanPcs, AdminOps
<1>. QED  BY <1>1, <1>2, <1>4, BeginStep DEF OpNames, AdminOps

\* A step in the middle of one of them.
LEMMA OwnerStepLocal ==
    ASSUME TypeOK, ShapeInv, NEW r \in Requests,
           \/ RotateConsumer(r) \/ RotateSave(r) \/ EnableConsumer(r) \/ EnableSave(r)
           \/ OidcProducts(r)
           \/ DeleteNext(r) \/ DeleteCredential(r) \/ DeleteConsumer(r)
           \/ DeleteSandboxKey(r) \/ DeleteSandboxConsumer(r) \/ DeleteRow(r)
    PROVE  LocalStep(r)
<1>1. req[r] \in Request /\ RequestShape(req[r])
  BY DEF TypeOK, ShapeInv
<1>2. req[r].pc \in OwnerPcs \cup {"oidc.products"}
  BY DEF OwnerPcs, RotatePcs, EnablePcs, DeletePcs, At, RotateConsumer, RotateSave, EnableConsumer, EnableSave, OidcProducts,
         DeleteNext, DeleteCredential, DeleteConsumer, DeleteSandboxKey, DeleteSandboxConsumer,
         DeleteRow
<1>3. /\ ~Idle(r) /\ req[r].op \notin AdminOps
      /\ req[r].app \in Apps /\ req[r].allowed = {}
  BY <1>1, <1>2 DEF RequestShape, MayBeAt, AdminOps, OwnerPcs, RotatePcs, EnablePcs, DeletePcs, Idle
<1>4. ASSUME req[r].pc \in DeletePcs, NEW pc \in DeletePcs
      PROVE  MayBeAt(req[r], pc) /\ pc \in PcNames
  <2>1. req[r].op = "deleteApp"
    BY <1>1, <1>4 DEF RequestShape, MayBeAt
  <2>. QED
    BY <1>4, <2>1 DEF MayBeAt, RoutePcs, ApprovePcs, RotatePcs, EnablePcs, DeletePcs, PlanPcs,
                      AdminOps, PcNames
<1>5. ASSUME NEW q \in Request, q.op = req[r].op, q.app = req[r].app, q.plan = req[r].plan,
             q.allowed = {}, req' = [req EXCEPT ![r] = q],
             \/ q.prod = req[r].prod /\ \E s \in {RotatePcs, EnablePcs} : {req[r].pc, q.pc} \subseteq s
             \/ q.prod \in Products /\ q.pc \in RoutePcs
      PROVE  LocalStep(r)
  <2>1. MayBeAt(q, q.pc)
    BY <1>1, <1>3, <1>5 DEF RequestShape, MayBeAt, RoutePcs, ApprovePcs, OwnerPcs, RotatePcs, EnablePcs, DeletePcs, PlanPcs, AdminOps, Idle
  <2>. QED  BY <1>3, <1>5, <2>1, MoveStep
<1>6. CASE RotateConsumer(r)
  <2>. DEFINE q == [req[r] EXCEPT !.pc = "rotate.save", !.key = nextKey]
  <2>1. q \in Request
    BY <1>1, Named DEF Request, TypeOK
  <2>2. /\ q.op = req[r].op /\ q.app = req[r].app /\ q.prod = req[r].prod /\ q.plan = req[r].plan
        /\ q.allowed = {} /\ q.pc = "rotate.save"
    BY <1>1, <1>3 DEF Request
  <2>3. req' = [req EXCEPT ![r] = q]
    BY <1>6 DEF RotateConsumer
  <2>. HIDE DEF q
  <2>. QED  BY <1>6, <2>1, <2>2, <2>3, <1>5 DEF RotateConsumer, At, RotatePcs
<1>7. CASE EnableConsumer(r)
  <2>. DEFINE k == IF req[r].key = 0 THEN nextKey ELSE req[r].key
              q == [req[r] EXCEPT !.pc = "enable.save", !.key = k]
  <2>1. k \in Nat
    BY <1>1 DEF Request, TypeOK
  <2>2. req' = [req EXCEPT ![r] = q]
    BY <1>7 DEF EnableConsumer
  <2>. HIDE DEF k
  <2>3. q \in Request
    BY <1>1, <2>1, Named DEF Request
  <2>4. /\ q.op = req[r].op /\ q.app = req[r].app /\ q.prod = req[r].prod /\ q.plan = req[r].plan
        /\ q.allowed = {} /\ q.pc = "enable.save"
    BY <1>1, <1>3 DEF Request
  <2>. HIDE DEF q
  <2>. QED  BY <1>7, <2>2, <2>3, <2>4, <1>5 DEF EnableConsumer, At, EnablePcs
<1>8. CASE RotateSave(r) \/ DeleteRow(r)
  BY <1>8, FinishStep DEF RotateSave, DeleteRow
<1>9. CASE EnableSave(r)
  BY <1>3, <1>9, FinishStep, NextInTodoStep DEF EnableSave, RoutePcs
<1>10. CASE OidcProducts(r)
  <2>1. CASE Finish(r)
    BY <2>1, FinishStep
  <2>2. ASSUME NEW p \in OAuthProductsForApp(req[r].app),
               req' = [req EXCEPT ![r] = [@ EXCEPT !.pc = "route.product", !.prod = p,
                          !.todo = OAuthProductsForApp(req[r].app) \ {p}]]
        PROVE  LocalStep(r)
    <3>. DEFINE ps == OAuthProductsForApp(req[r].app) \ {p}
                q == [req[r] EXCEPT !.pc = "route.product", !.prod = p, !.todo = ps]
    <3>1. p \in Products /\ ps \subseteq Products
      BY DEF OAuthProductsForApp, ActiveProducts
    <3>2. req' = [req EXCEPT ![r] = q]
      BY <2>2
    <3>. HIDE DEF ps
    <3>3. q \in Request
      BY <1>1, <3>1, Named DEF Request
    <3>4. /\ q.op = req[r].op /\ q.app = req[r].app /\ q.prod = p /\ q.plan = req[r].plan
          /\ q.allowed = {} /\ q.pc = "route.product"
      BY <1>1, <1>3 DEF Request
    <3>. HIDE DEF q
    <3>. QED  BY <3>1, <3>2, <3>3, <3>4, <1>5 DEF RoutePcs
  <2>. QED  BY <1>10, <2>1, <2>2 DEF OidcProducts
<1>11. CASE DeleteNext(r)
  <2>1. PICK p \in req[r].todo :
            req' = [req EXCEPT ![r] = [@ EXCEPT !.pc = "route.product", !.prod = p,
                                                !.todo = req[r].todo \ {p}]]
    BY <1>11 DEF DeleteNext
  <2>. DEFINE q == [req[r] EXCEPT !.pc = "route.product", !.prod = p, !.todo = req[r].todo \ {p}]
  <2>2. q \in Request
    BY <1>1, Named DEF Request
  <2>3. /\ q.op = req[r].op /\ q.app = req[r].app /\ q.prod \in Products /\ q.plan = req[r].plan
        /\ q.allowed = {} /\ q.pc = "route.product"
    BY <1>1, <1>3 DEF Request
  <2>4. req' = [req EXCEPT ![r] = q]
    BY <2>1
  <2>. HIDE DEF q
  <2>. QED  BY <2>2, <2>3, <2>4, <1>5 DEF RoutePcs
<1>12. CASE \/ DeleteCredential(r) \/ DeleteConsumer(r) \/ DeleteSandboxKey(r)
            \/ DeleteSandboxConsumer(r)
  <2>1. req[r].pc \in DeletePcs /\ (Finish(r) \/ \E pc \in DeletePcs : Goto(r, pc))
    BY <1>12 DEF DeleteCredential, DeleteConsumer, DeleteSandboxKey, DeleteSandboxConsumer, DeletePcs, At
  <2>. QED  BY <1>3, <1>4, <2>1, GotoStep, FinishStep
<1>. QED  BY <1>6, <1>7, <1>8, <1>9, <1>10, <1>11, <1>12

\* Every step of the owner's other operations.
LEMMA CredentialsLocal ==
    ASSUME TypeOK, ShapeInv, RowInv, NEW r \in Requests, CredentialsNext(r)
    PROVE  LocalStep(r)
BY RotateBeginLocal, EnableBeginLocal, DeleteAppLocal, SetOidcLocal, OwnerStepLocal
DEF CredentialsNext

-----------------------------------------------------------------------------
(* Product administration *)

\* UpdateProduct and DeleteProduct start with a product.
LEMMA ProductBegin ==
    ASSUME TypeOK, NEW r \in Requests, NEW q \in Request,
           \/ Begin(r, "updateProduct", q) /\ q.pc = "product.save"
           \/ Begin(r, "deleteProduct", q) /\ q.pc = "product.delete",
           q.prod \in Products, q.allowed = {}
    PROVE  LocalStep(r)
<1>1. CASE Begin(r, "updateProduct", q) /\ q.pc = "product.save"
  <2>. DEFINE s == [q EXCEPT !.op = "updateProduct"]
  <2>1. s.op = "updateProduct"
    BY DEF Request
  <2>2. MayBeAt(s, q.pc)
    BY <1>1, <2>1 DEF MayBeAt, RoutePcs, ApprovePcs, OwnerPcs, RotatePcs, EnablePcs, DeletePcs, PlanPcs, AdminOps
  <2>. QED  BY <1>1, <2>2, BeginStep DEF OpNames, AdminOps
<1>2. CASE Begin(r, "deleteProduct", q) /\ q.pc = "product.delete"
  <2>. DEFINE s == [q EXCEPT !.op = "deleteProduct"]
  <2>1. s.op = "deleteProduct"
    BY DEF Request
  <2>2. MayBeAt(s, q.pc)
    BY <1>2, <2>1 DEF MayBeAt, RoutePcs, ApprovePcs, OwnerPcs, RotatePcs, EnablePcs, DeletePcs, PlanPcs, AdminOps
  <2>. QED  BY <1>2, <2>2, BeginStep DEF OpNames, AdminOps
<1>. QED  BY <1>1, <1>2

\* UpdateProduct starts with the row to write and the work to do after it.
LEMMA UpdateProductLocal ==
    ASSUME TypeOK, NEW r \in Requests, NEW p \in Products, NEW row \in Edits,
           NEW moved \in SUBSET {"upstream", "sandbox"}, UpdateProduct(r, p, row, moved)
    PROVE  LocalStep(r)
<1>1. PICK w \in SUBSET {"count", "route", "sandbox"} :
          Begin(r, "updateProduct",
                [NoReq EXCEPT !.pc = "product.save", !.prod = p, !.row = row, !.work = w])
  <2>. DEFINE old == products[p]
              migrates == row.auth = "oauth2" /\ old.auth # "oauth2"
              rebuilds == "upstream" \in moved \/ row.auth # old.auth
              counted == migrates /\ ActiveApps(p) # {}
              w == (moved \cap {"sandbox"})
                       \cup (IF rebuilds /\ ~migrates THEN {"count"} ELSE {})
                       \cup (IF rebuilds /\ counted THEN {"route"} ELSE {})
  <2>1. w \in SUBSET {"count", "route", "sandbox"}
    OBVIOUS
  <2>2. Begin(r, "updateProduct",
              [NoReq EXCEPT !.pc = "product.save", !.prod = p, !.row = row, !.work = w])
    BY DEF UpdateProduct
  <2>. HIDE DEF w
  <2>. QED  BY <2>1, <2>2
<1>. DEFINE q == [NoReq EXCEPT !.pc = "product.save", !.prod = p, !.row = row, !.work = w]
<1>2. row \in ProductRow
  BY EditsType
<1>3. q \in Request /\ q.prod = p /\ q.allowed = {} /\ q.pc = "product.save"
  BY <1>2, NoReqType, Named DEF Request, NoReq
<1>4. Begin(r, "updateProduct", q)
  BY <1>1
<1>. HIDE DEF q
<1>. QED  BY <1>3, <1>4, ProductBegin

\* DeleteProduct starts at its statement.
LEMMA DeleteProductLocal ==
    ASSUME TypeOK, NEW r \in Requests, NEW p \in Products, DeleteProduct(r, p)
    PROVE  LocalStep(r)
<1>. DEFINE q == [NoReq EXCEPT !.pc = "product.delete", !.prod = p]
<1>1. Begin(r, "deleteProduct", q)
  BY DEF DeleteProduct
<1>2. q \in Request /\ q.prod = p /\ q.allowed = {} /\ q.pc = "product.delete"
  BY NoReqType, Named DEF Request, NoReq
<1>. HIDE DEF q
<1>. QED  BY <1>1, <1>2, ProductBegin

\* A step in the middle of one of them.
LEMMA ProductStepLocal ==
    ASSUME TypeOK, ShapeInv, NEW r \in Requests,
           ProductSave(r) \/ ProductCount(r) \/ ProductDelete(r) \/ ProductDeprovision(r)
    PROVE  LocalStep(r)
<1>1. req[r] \in Request /\ RequestShape(req[r])
  BY DEF TypeOK, ShapeInv
<1>2. /\ ~Idle(r) /\ req[r].prod \in Products /\ req[r].allowed = {}
      /\ req[r].op \in {"updateProduct", "deleteProduct"}
  BY <1>1 DEF RequestShape, MayBeAt, Idle, At, ProductSave, ProductCount, ProductDelete,
              ProductDeprovision
<1>3. MayBeAt(req[r], "route.product") /\ MayBeAt(req[r], "sandbox.product")
  BY <1>2 DEF MayBeAt, RoutePcs, ApprovePcs, OwnerPcs, RotatePcs, EnablePcs, DeletePcs, PlanPcs, AdminOps
<1>4. CASE ProductSave(r) \/ ProductCount(r)
  <2>1. MayBeAt(req[r], "product.count")
    BY <1>1, <1>4 DEF RequestShape, MayBeAt, RoutePcs, ApprovePcs, OwnerPcs, RotatePcs, EnablePcs, DeletePcs, PlanPcs, AdminOps, At,
                      ProductSave, ProductCount
  <2>2. \/ Finish(r) \/ Goto(r, "product.count") \/ Goto(r, "route.product")
        \/ Goto(r, "sandbox.product")
    BY <1>4 DEF ProductSave, ProductCount, Remaining
  <2>. QED  BY <1>2, <1>3, <2>1, <2>2, GotoStep, FinishStep DEF PcNames
<1>5. CASE ProductDelete(r)
  <2>1. MayBeAt(req[r], "product.deprovision")
    BY <1>1, <1>5 DEF RequestShape, MayBeAt, RoutePcs, ApprovePcs, OwnerPcs, RotatePcs, EnablePcs, DeletePcs, PlanPcs, AdminOps, At, ProductDelete
  <2>. QED  BY <1>2, <1>5, <2>1, GotoStep, FinishStep DEF ProductDelete, PcNames
<1>6. CASE ProductDeprovision(r)
  BY <1>6, FinishStep DEF ProductDeprovision
<1>. QED  BY <1>4, <1>5, <1>6

\* Every step of product administration.
LEMMA ProductLocal ==
    ASSUME TypeOK, ShapeInv, NEW r \in Requests, ProductNext(r)
    PROVE  LocalStep(r)
BY UpdateProductLocal, DeleteProductLocal, ProductStepLocal DEF ProductNext

-----------------------------------------------------------------------------
(* Plan administration *)

\* UpdatePlan and DeletePlan start with a plan.
LEMMA PlanBegin ==
    ASSUME TypeOK, NEW r \in Requests, NEW q \in Request,
           \/ Begin(r, "updatePlan", q) /\ q.pc = "plan.save"
           \/ Begin(r, "deletePlan", q) /\ q.pc = "plan.delete",
           q.plan \in Plans, q.allowed = {}
    PROVE  LocalStep(r)
<1>1. CASE Begin(r, "updatePlan", q) /\ q.pc = "plan.save"
  <2>. DEFINE s == [q EXCEPT !.op = "updatePlan"]
  <2>1. s.op = "updatePlan"
    BY DEF Request
  <2>2. MayBeAt(s, q.pc)
    BY <1>1, <2>1 DEF MayBeAt, RoutePcs, ApprovePcs, OwnerPcs, RotatePcs, EnablePcs, DeletePcs, PlanPcs, AdminOps
  <2>. QED  BY <1>1, <2>2, BeginStep DEF OpNames, AdminOps
<1>2. CASE Begin(r, "deletePlan", q) /\ q.pc = "plan.delete"
  <2>. DEFINE s == [q EXCEPT !.op = "deletePlan"]
  <2>1. s.op = "deletePlan"
    BY DEF Request
  <2>2. MayBeAt(s, q.pc)
    BY <1>2, <2>1 DEF MayBeAt, RoutePcs, ApprovePcs, OwnerPcs, RotatePcs, EnablePcs, DeletePcs, PlanPcs, AdminOps
  <2>. QED  BY <1>2, <2>2, BeginStep DEF OpNames, AdminOps
<1>. QED  BY <1>1, <1>2

\* They start with the limit they read, or with nothing else.
LEMMA PlanBeginLocal ==
    ASSUME TypeOK, NEW r \in Requests, NEW pl \in Plans, UpdatePlan(r, pl) \/ DeletePlan(r, pl)
    PROVE  LocalStep(r)
<1>1. CASE UpdatePlan(r, pl)
  <2>. DEFINE limit == plans[pl].limit
              q == [NoReq EXCEPT !.pc = "plan.save", !.plan = pl, !.limit = limit]
  <2>1. limit \in Nat /\ Begin(r, "updatePlan", q)
    BY <1>1 DEF UpdatePlan, TypeOK, PlanRow
  <2>. HIDE DEF limit
  <2>2. q \in Request /\ q.plan = pl /\ q.allowed = {} /\ q.pc = "plan.save"
    BY <2>1, NoReqType, Named DEF Request, NoReq
  <2>. HIDE DEF q
  <2>. QED  BY <2>1, <2>2, PlanBegin
<1>2. CASE DeletePlan(r, pl)
  <2>. DEFINE q == [NoReq EXCEPT !.pc = "plan.delete", !.plan = pl]
  <2>1. Begin(r, "deletePlan", q)
    BY <1>2 DEF DeletePlan
  <2>2. q \in Request /\ q.plan = pl /\ q.allowed = {} /\ q.pc = "plan.delete"
    BY NoReqType, Named DEF Request, NoReq
  <2>. HIDE DEF q
  <2>. QED  BY <2>1, <2>2, PlanBegin
<1>. QED  BY <1>1, <1>2

\* The lists ReprovisionPlan reads, and what is left of them.
LEMMA PlanKeysType ==
    ASSUME TypeOK, NEW r \in Requests
    PROVE  /\ \A pl : ConsumersForPlan(pl) \in [Apps -> Nat]
           /\ \A pl : SandboxConsumersForPlan(pl) \in [Apps -> Nat]
           /\ \A a \in Apps : [req[r].keys EXCEPT ![a] = 0] \in [Apps -> Nat]
<1>1. \A a \in Apps : creds[a].key \in Nat /\ creds[a].sandboxKey \in Nat
  BY DEF TypeOK, CredRow
<1>2. req[r].keys \in [Apps -> Nat]
  BY DEF TypeOK, Request
<1>. QED  BY <1>1, <1>2 DEF ConsumersForPlan, SandboxConsumersForPlan

\* A step in the middle of one of them.
LEMMA PlanStepLocal ==
    ASSUME TypeOK, ShapeInv, NEW r \in Requests,
           \/ PlanSave(r) \/ PlanRead(r) \/ PlanConsumers(r) \/ PlanPush(r)
           \/ PlanSandboxConsumers(r) \/ PlanSandboxPush(r) \/ PlanDelete(r)
    PROVE  LocalStep(r)
<1>1. req[r] \in Request /\ RequestShape(req[r])
  BY DEF TypeOK, ShapeInv
<1>2. ASSUME ~PlanDelete(r)
      PROVE  req[r].op = "updatePlan" /\ req[r].allowed = {} /\ ~Idle(r) /\ req[r].plan \in Plans
  <2>1. req[r].pc \in PlanPcs
    BY <1>2 DEF PlanPcs, At, PlanSave, PlanRead, PlanConsumers, PlanPush, PlanSandboxConsumers,
                PlanSandboxPush
  <2>. QED  BY <1>1, <2>1 DEF RequestShape, MayBeAt, PlanPcs, Idle
<1>3. ASSUME NEW q \in Request, q.op = req[r].op, q.app = req[r].app, q.plan = req[r].plan,
             q.prod = req[r].prod, q.allowed = {}, q.pc \in PlanPcs, req[r].op = "updatePlan",
             req' = [req EXCEPT ![r] = q]
      PROVE  LocalStep(r)
  <2>1. MayBeAt(q, q.pc)
    BY <1>3 DEF MayBeAt, RoutePcs, ApprovePcs, OwnerPcs, RotatePcs, EnablePcs, DeletePcs, PlanPcs, AdminOps
  <2>. QED  BY <1>3, <2>1, MoveStep DEF Idle
<1>4. CASE PlanSave(r)
  <2>1. Finish(r) \/ Goto(r, "plan.read")
    BY <1>4 DEF PlanSave
  <2>2. ~PlanDelete(r)
    BY <1>4 DEF PlanSave, PlanDelete, At
  <2>3. MayBeAt(req[r], "plan.read")
    BY <1>2, <2>2 DEF MayBeAt, RoutePcs, ApprovePcs, OwnerPcs, RotatePcs, EnablePcs, DeletePcs, PlanPcs, AdminOps
  <2>. QED  BY <1>2, <2>1, <2>2, <2>3, FinishStep, GotoStep DEF PcNames
<1>5. CASE PlanRead(r)
  <2>. DEFINE limit == plans[req[r].plan].limit
              q == [req[r] EXCEPT !.pc = "plan.consumers", !.limit = limit]
  <2>0. ~PlanDelete(r)
    BY <1>5 DEF PlanRead, PlanDelete, At
  <2>1. limit \in Nat
    BY <1>2, <2>0 DEF TypeOK, PlanRow
  <2>2. Finish(r) \/ req' = [req EXCEPT ![r] = q]
    BY <1>5 DEF PlanRead
  <2>. HIDE DEF limit
  <2>3. q \in Request
    BY <1>1, <2>1, Named DEF Request
  <2>4. /\ q.op = req[r].op /\ q.app = req[r].app /\ q.prod = req[r].prod /\ q.plan = req[r].plan
        /\ q.allowed = {} /\ q.pc \in PlanPcs
    BY <1>1, <1>2, <2>0 DEF Request, PlanPcs
  <2>. HIDE DEF q
  <2>. QED  BY <1>2, <1>3, <2>0, <2>2, <2>3, <2>4, FinishStep
<1>6. ASSUME NEW pc \in PlanPcs, NEW keys \in [Apps -> Nat], ~PlanDelete(r),
             req' = [req EXCEPT ![r] = [@ EXCEPT !.pc = pc, !.keys = keys]]
      PROVE  LocalStep(r)
  <2>. DEFINE q == [req[r] EXCEPT !.pc = pc, !.keys = keys]
  <2>1. q \in Request
    <3>1. pc \in PcNames
      BY DEF PcNames, PlanPcs
    <3>. QED  BY <1>1, <3>1 DEF Request
  <2>2. /\ q.op = req[r].op /\ q.app = req[r].app /\ q.prod = req[r].prod /\ q.plan = req[r].plan
        /\ q.allowed = {} /\ q.pc \in PlanPcs
    BY <1>1, <1>2, <1>6 DEF Request
  <2>3. req' = [req EXCEPT ![r] = q]
    BY <1>6
  <2>. HIDE DEF q
  <2>. QED  BY <1>2, <1>3, <1>6, <2>1, <2>2, <2>3
<1>7. ASSUME NEW keys \in [Apps -> Nat], ~PlanDelete(r), PushRest(r, keys) \/ SandboxPushRest(r, keys)
      PROVE  LocalStep(r)
  BY <1>6, <1>7, FinishStep DEF PushRest, SandboxPushRest, PlanPcs
<1>8. CASE PlanConsumers(r) \/ PlanPush(r) \/ PlanSandboxConsumers(r) \/ PlanSandboxPush(r)
  <2>1. ~PlanDelete(r)
    BY <1>8 DEF PlanConsumers, PlanPush, PlanSandboxConsumers, PlanSandboxPush, PlanDelete, At
  <2>2. \E keys \in [Apps -> Nat] : PushRest(r, keys) \/ SandboxPushRest(r, keys)
    BY <1>8, PlanKeysType DEF PlanConsumers, PlanPush, PlanSandboxConsumers, PlanSandboxPush
  <2>. QED  BY <1>7, <2>1, <2>2
<1>9. CASE PlanDelete(r)
  BY <1>9, FinishStep DEF PlanDelete
<1>. QED  BY <1>4, <1>5, <1>8, <1>9

\* Every step of plan administration.
LEMMA PlanLocal ==
    ASSUME TypeOK, ShapeInv, NEW r \in Requests, PlanNext(r)
    PROVE  LocalStep(r)
BY PlanBeginLocal, PlanStepLocal DEF PlanNext

\* Every step leaves the requests well formed.
LEMMA RequestsPreserved ==
    ASSUME BaseInv, [Next]_vars
    PROVE  req' \in [Requests -> Request] /\ ShapeInv'
<1>1. CASE UNCHANGED vars
  BY <1>1 DEF BaseInv, TypeOK, ShapeInv, vars
<1>2. CASE BillingNext \/ \E pl \in Plans, row \in PlanEdits : CreatePlan(pl, row)
  BY <1>2 DEF BaseInv, TypeOK, ShapeInv, BillingNext, MarkPaid, Void, Settle, CreatePlan
<1>3. ASSUME NEW r \in Requests, Step(r) \/ Fail(r)
      PROVE  LocalStep(r)
  BY <1>3, RouteLocal, SubscriptionLocal, CredentialsLocal, ProductLocal, PlanLocal, FinishStep
  DEF BaseInv, Step, Fail
<1>. QED  BY <1>1, <1>2, <1>3, RequestStep DEF Next, BaseInv

-----------------------------------------------------------------------------
(* What a step may do to the tables and the gateways *)

\* The tables and gateways whose type each statement keeps on its own.
DataOK ==
    /\ products \in [Products -> ProductRow]
    /\ plans \in [Plans -> PlanRow]
    /\ apps \subseteq Apps
    /\ oidc \in [Apps -> ClientIds \cup {None}]
    /\ creds \in [Apps -> CredRow]
    /\ nextKey \in Nat \ {0}
    /\ consumers \in [Envs -> [Apps -> ConsumerObj]]
    /\ routes \in [Envs -> [Products -> RouteObj]]
    /\ faults \in Nat
    /\ approvals \subseteq Approval
    /\ claims \in [Apps -> SUBSET ClientIds]

\* Rows are saved, erased with their invoices detached, or given a status;
\* never anything else.
EraseRows(D) == subs' = [x \in Apps \X Products |-> IF x \in D THEN NoSub ELSE subs[x]]
Erases(D) == EraseRows(D) /\ DetachInvoices({subs[x].id : x \in D})
Saves(r) ==
    /\ At(r, "subscribe.save") /\ req[r].op = "subscribe"
    /\ req[r].app \in apps /\ req[r].prod \in Products /\ req[r].plan \in Plans
    /\ products[req[r].prod].live /\ plans[req[r].plan].state = "live"
    /\ SaveSubscription(req[r].app, req[r].prod, req[r].plan)
Rejects(r) == /\ At(r, "reject.set") /\ req[r].op = "reject"
              /\ SetSubscriptionStatus(req[r].sub, "rejected")
Activates(r) == /\ At(r, "approve.activate") /\ req[r].op = "approve"
                /\ SetSubscriptionStatus(req[r].sub, "active")
                /\ HasSubscription(req[r].sub) => Goto(r, "approve.sandbox") \/ Goto(r, "bill.pricing")
SubsEffect ==
    \/ UNCHANGED <<subs, nextSub>>
    \/ \E r \in Requests : Saves(r)
    \/ UNCHANGED nextSub /\ \E D \in SUBSET (Apps \X Products) : Erases(D)
    \/ UNCHANGED nextSub /\ \E r \in Requests : Rejects(r) \/ Activates(r)

Bills(r) == /\ At(r, "bill.create") /\ req[r].op = "approve"
            /\ Finish(r)
            /\ invoices' = Append(invoices,
                  [sub |-> req[r].sub, plan |-> req[r].plan, status |-> "pending"])
InvoicesEffect ==
    \/ UNCHANGED invoices
    \/ \E D \in SUBSET (Apps \X Products) : Erases(D)
    \/ \E r \in Requests : Bills(r)
    \/ \E n \in DOMAIN invoices, s \in {"paid", "void"} :
          invoices[n].status = "pending" /\ invoices' = [invoices EXCEPT ![n].status = s]

\* A live plan stays so as long as a subscription refers to it.
PlansEffect ==
    \/ UNCHANGED plans
    \/ UNCHANGED subs /\ \A pl \in Plans :
          plans[pl].state = "live" => plans'[pl].state = "live" \/ ~PlanReferenced(pl)

\* A route is only ever given the list its request carries.
RoutesEffect ==
    \/ UNCHANGED routes
    \/ \E env \in Envs, p \in Products : DeleteRoute(env, p)
    \/ \E env \in Envs, r \in Requests, kind \in AuthTypes \cup {"none"} :
          req[r].prod \in Products /\ PutRoute(env, req[r].prod, kind, req[r].allowed)

\* History grows; an approval is recorded of a row as it is then, and a client
\* id when it is registered.
HistoryEffect ==
    /\ approvals \subseteq approvals'
    /\ \A ap \in approvals' \ approvals :
          /\ UNCHANGED <<subs, nextSub>>
          /\ \E x \in Apps \X Products :
                /\ subs[x] # NoSub
                /\ ap = [app |-> x[1], prod |-> x[2], sub |-> subs[x].id, plan |-> subs[x].plan]
    /\ \A a \in Apps : /\ claims[a] \subseteq claims'[a]
                        /\ oidc'[a] \in {oidc[a], None} \cup claims'[a]

Effect == DataOK' /\ PlansEffect /\ SubsEffect /\ InvoicesEffect /\ RoutesEffect /\ HistoryEffect

\* Saving, erasing and setting a status keep ids unique and rows complete.
LEMMA SubsPreserved ==
    ASSUME TypeOK, RowInv, SubsEffect
    PROVE  subs' \in [Apps \X Products -> SubRow] /\ nextSub' \in Nat \ {0} /\ RowInv'
<1>1. CASE UNCHANGED <<subs, nextSub>>
  BY <1>1 DEF TypeOK, RowInv
<1>2. ASSUME NEW a \in Apps, NEW p \in Products, NEW pl \in Plans, SaveSubscription(a, p, pl)
      PROVE  subs' \in [Apps \X Products -> SubRow] /\ nextSub' \in Nat \ {0} /\ RowInv'
  <2>. DEFINE z == <<a, p>>
  <2>0. z \in Apps \X Products /\ subs[z] \in SubRow /\ subs[z].id < nextSub /\ NoSub.id = 0
    BY DEF TypeOK, RowInv, NoSub
  <2>1. CASE subs[z] = NoSub
    <3>1. subs' = [subs EXCEPT ![z] = [id |-> nextSub, plan |-> pl, status |-> "pending"]]
          /\ nextSub' = nextSub + 1
      BY <1>2, <2>1 DEF SaveSubscription
    <3>. HIDE DEF z
    <3>2. subs' \in [Apps \X Products -> SubRow] /\ nextSub' \in Nat \ {0}
      BY <2>0, <3>1 DEF TypeOK, SubRow, Statuses
    <3>3. /\ subs'[z].id = nextSub /\ subs'[z].plan = pl /\ subs'[z].status = "pending"
          /\ \A x \in Apps \X Products : x # z => subs'[x] = subs[x]
      BY <2>0, <3>1 DEF TypeOK
    <3>4. \A x \in Apps \X Products : subs[x].id \in Nat /\ subs[x].id < nextSub /\ nextSub \in Nat \ {0}
      BY DEF TypeOK, RowInv, SubRow
    <3>5. RowInv'
      BY <3>1, <3>2, <3>3, <3>4 DEF RowInv
    <3>. QED  BY <3>2, <3>5
  <2>2. CASE subs[z] # NoSub
    <3>. DEFINE row == [subs[z] EXCEPT !.plan = pl, !.status = "pending"]
    <3>1. subs' = [subs EXCEPT ![z] = row] /\ nextSub' = nextSub
      BY <1>2, <2>2 DEF SaveSubscription
    <3>2. row \in SubRow /\ row.id = subs[z].id /\ row.plan = pl /\ row.status = "pending"
      BY <2>0 DEF SubRow, Statuses
    <3>. HIDE DEF row
    <3>3. subs[z].id # 0
      BY <2>0, <2>2 DEF RowInv
    <3>. HIDE DEF z
    <3>4. subs' \in [Apps \X Products -> SubRow] /\ nextSub' \in Nat \ {0}
      BY <2>0, <3>1, <3>2 DEF TypeOK
    <3>5. subs'[z] = row /\ \A x \in Apps \X Products : x # z => subs'[x] = subs[x]
      BY <2>0, <3>1 DEF TypeOK
    <3>6. RowInv'
      BY <2>0, <3>1, <3>2, <3>3, <3>5 DEF RowInv, NoSub
    <3>. QED  BY <3>4, <3>6
  <2>. QED  BY <2>1, <2>2
<1>3. ASSUME NEW D \in SUBSET (Apps \X Products), EraseRows(D), UNCHANGED nextSub
      PROVE  subs' \in [Apps \X Products -> SubRow] /\ nextSub' \in Nat \ {0} /\ RowInv'
  <2>1. NoSub \in SubRow /\ NoSub.id = 0 /\ NoSub.status = "none"
    BY DEF NoSub, SubRow
  <2>. QED  BY <1>3, <2>1 DEF EraseRows, TypeOK, RowInv
<1>4. ASSUME NEW id \in Nat, NEW s \in {"active", "rejected"}, SetSubscriptionStatus(id, s),
             UNCHANGED nextSub
      PROVE  subs' \in [Apps \X Products -> SubRow] /\ nextSub' \in Nat \ {0} /\ RowInv'
  <2>1. ASSUME NEW x \in Apps \X Products
        PROVE  /\ subs'[x] \in SubRow /\ subs'[x].id = subs[x].id /\ subs'[x].plan = subs[x].plan
               /\ subs[x] = NoSub => subs'[x] = NoSub
               /\ subs'[x].status = subs[x].status \/ subs'[x].status = s
    <3>. DEFINE row == [subs[x] EXCEPT !.status = s]
    <3>1. subs[x] \in SubRow
      BY DEF TypeOK
    <3>2. row \in SubRow /\ row.id = subs[x].id /\ row.plan = subs[x].plan /\ row.status = s
      BY <3>1 DEF SubRow, Statuses
    <3>3. subs'[x] = IF IsSubscription(x, id) THEN row ELSE subs[x]
      BY <1>4 DEF SetSubscriptionStatus
    <3>. HIDE DEF row
    <3>. QED  BY <3>1, <3>2, <3>3 DEF IsSubscription
  <2>2. subs' = [x \in Apps \X Products |-> subs'[x]]
    BY <1>4 DEF SetSubscriptionStatus
  <2>3. subs' \in [Apps \X Products -> SubRow]
    BY <2>1, <2>2
  <2>4. RowInv'
    <3>1. s # "none" /\ NoSub.status = "none"
      BY DEF NoSub
    <3>. QED  BY <1>4, <2>1, <3>1 DEF RowInv
  <2>. QED  BY <1>4, <2>3, <2>4 DEF TypeOK
<1>5. ASSUME NEW r \in Requests PROVE req[r].sub \in Nat
  BY DEF TypeOK, Request
<1>6. apps \subseteq Apps
  BY DEF TypeOK
<1>. QED  BY <1>1, <1>2, <1>3, <1>4, <1>5, <1>6 DEF SubsEffect, Erases, Saves, Rejects, Activates

\* Detaching, adding and settling invoices keep their type.
LEMMA InvoicesPreserved ==
    ASSUME TypeOK, ShapeInv, InvoicesEffect
    PROVE  invoices' \in Seq(InvoiceRow)
<1>1. ASSUME NEW ids, DetachInvoices(ids) PROVE invoices' \in Seq(InvoiceRow)
  <2>1. invoices \in [1..Len(invoices) -> InvoiceRow] /\ DOMAIN invoices = 1..Len(invoices)
        /\ Len(invoices) \in Nat
    BY DEF TypeOK
  <2>2. \A i \in InvoiceRow : [i EXCEPT !.sub = 0] \in InvoiceRow
    BY DEF InvoiceRow
  <2>3. invoices' \in [1..Len(invoices) -> InvoiceRow]
    BY <1>1, <2>1, <2>2 DEF DetachInvoices
  <2>. QED  BY <2>1, <2>3
<1>2. ASSUME NEW n \in DOMAIN invoices, NEW s \in {"paid", "void"},
             invoices' = [invoices EXCEPT ![n].status = s]
      PROVE  invoices' \in Seq(InvoiceRow)
  <2>1. invoices \in [1..Len(invoices) -> InvoiceRow] /\ n \in 1..Len(invoices) /\ Len(invoices) \in Nat
    BY DEF TypeOK
  <2>. DEFINE j == [invoices[n] EXCEPT !.status = s]
  <2>2. j \in InvoiceRow
    BY <2>1 DEF InvoiceRow
  <2>3. invoices' = [invoices EXCEPT ![n] = j]
    BY <1>2
  <2>. HIDE DEF j
  <2>4. invoices' \in [1..Len(invoices) -> InvoiceRow]
    BY <2>1, <2>2, <2>3
  <2>. QED  BY <2>1, <2>4
<1>3. ASSUME NEW r \in Requests, req[r].op = "approve",
             invoices' = Append(invoices,
                [sub |-> req[r].sub, plan |-> req[r].plan, status |-> "pending"])
      PROVE  invoices' \in Seq(InvoiceRow)
  <2>. DEFINE i == [sub |-> req[r].sub, plan |-> req[r].plan, status |-> "pending"]
  <2>1. i \in InvoiceRow
    BY <1>3 DEF TypeOK, Request, ShapeInv, RequestShape, InvoiceRow
  <2>2. invoices' = Append(invoices, i)
    BY <1>3
  <2>. HIDE DEF i
  <2>. QED  BY <2>1, <2>2 DEF TypeOK
<1>4. CASE UNCHANGED invoices
  BY <1>4 DEF TypeOK
<1>. QED  BY <1>1, <1>2, <1>3, <1>4 DEF InvoicesEffect, Erases, Bills

\* The Admin API calls keep the gateways' types.
LEMMA PutConsumerType ==
    ASSUME TypeOK, NEW env \in Envs, NEW a \in Apps,
           DropConsumer(env, a) \/ \E k \in Nat, limit \in Nat : EnsureConsumer(env, a, k, limit)
    PROVE  consumers' \in [Envs -> [Apps -> ConsumerObj]]
<1>1. PICK c \in ConsumerObj : consumers' = [consumers EXCEPT ![env] = [@ EXCEPT ![a] = c]]
  BY DEF DropConsumer, EnsureConsumer, ConsumerObj, NoConsumer
<1>. QED  BY <1>1 DEF TypeOK

\* Putting or deleting a route keeps the routes' type.
LEMMA PutRouteType ==
    ASSUME TypeOK, NEW env \in Envs, NEW p \in Products,
           \/ DeleteRoute(env, p)
           \/ \E kind \in AuthTypes \cup {"none"}, allowed \in SUBSET Identities : PutRoute(env, p, kind, allowed)
    PROVE  routes' \in [Envs -> [Products -> RouteObj]]
<1>1. PICK o \in RouteObj : routes' = [routes EXCEPT ![env] = [@ EXCEPT ![p] = o]]
  BY DEF DeleteRoute, PutRoute, RouteObj, NoRoute
<1>. QED  BY <1>1 DEF TypeOK

\* What a step that leaves the tables and gateways alone may do.
LEMMA FrameEffect ==
    ASSUME TypeOK, Unprovisioned, UNCHANGED routes
    PROVE  Effect
BY DEF TypeOK, Unprovisioned, adminVars, appVars, subVars, keyVars, billVars, histVars,
       Effect, DataOK, PlansEffect, RoutesEffect, HistoryEffect, SubsEffect, InvoicesEffect

\* The effect of route provisioning.
LEMMA RouteEffect ==
    ASSUME TypeOK, ShapeInv, NEW r \in Requests, RouteNext(r)
    PROVE  Effect
<1>1. req[r] \in Request /\ RequestShape(req[r])
  BY DEF TypeOK, ShapeInv
<1>2. ASSUME NEW env \in Envs, NEW kind \in AuthTypes \cup {"none"}, Unprovisioned, req[r].prod \in Products,
             DeleteRoute(env, req[r].prod) \/ PutRoute(env, req[r].prod, kind, req[r].allowed)
      PROVE  Effect
  <2>1. req[r].allowed \in SUBSET Identities
    BY <1>1 DEF Request
  <2>2. routes' \in [Envs -> [Products -> RouteObj]]
    BY <1>2, <2>1, PutRouteType
  <2>3. RoutesEffect
    BY <1>2 DEF RoutesEffect
  <2>. QED
    BY <1>2, <2>2, <2>3 DEF TypeOK, Unprovisioned, adminVars, appVars, subVars, keyVars, billVars,
                            histVars, Effect, DataOK, PlansEffect, HistoryEffect, SubsEffect, InvoicesEffect
<1>3. CASE RoutePush(r)
  <2>1. req[r].prod \in Products
    BY <1>1, <1>3 DEF RoutePush, At, RequestShape, MayBeAt, RoutePcs
  <2>2. req[r].auth \in AuthTypes \cup {"none"}
    BY <1>1 DEF Request
  <2>. QED  BY <1>2, <1>3, <2>1, <2>2 DEF RoutePush, Envs
<1>4. CASE SandboxPush(r)
  <2>1. req[r].prod \in Products
    BY <1>1, <1>4 DEF SandboxPush, At, RequestShape, MayBeAt, RoutePcs
  <2>. QED  BY <1>2, <1>4, <2>1 DEF SandboxPush, Envs, AuthTypes
<1>5. CASE RouteProduct(r) \/ RouteMembers(r) \/ SandboxProduct(r) \/ SandboxMembers(r)
  BY <1>5, FrameEffect DEF RouteProduct, RouteMembers, SandboxProduct, SandboxMembers
<1>. QED  BY <1>3, <1>4, <1>5 DEF RouteNext

\* A credential is found or created.
LEMMA CreateCredentialType ==
    ASSUME TypeOK, NEW a \in Apps, GetOrCreateCredential(a)
    PROVE  creds' \in [Apps -> CredRow] /\ nextKey' \in Nat \ {0}
<1>1. CASE creds[a].key = 0
  <2>. DEFINE c == [creds[a] EXCEPT !.key = nextKey]
  <2>1. c \in CredRow
    BY DEF TypeOK, CredRow
  <2>2. creds' = [creds EXCEPT ![a] = c] /\ nextKey' = nextKey + 1
    BY <1>1 DEF GetOrCreateCredential
  <2>. HIDE DEF c
  <2>. QED  BY <2>1, <2>2 DEF TypeOK
<1>2. CASE creds[a].key # 0
  BY <1>2 DEF GetOrCreateCredential, TypeOK
<1>. QED  BY <1>1, <1>2

\* The effect of starting an approval: the approval is recorded.
LEMMA ApproveEffect ==
    ASSUME TypeOK, RowInv, NEW r \in Requests, NEW a \in Apps, NEW p \in Products, Approve(r, a, p)
    PROVE  Effect
<1>1. subs[<<a, p>>] \in SubRow /\ subs[<<a, p>>].plan \in Plans
  BY DEF TypeOK, RowInv, NoSub, Approve
<1>2. [app |-> a, prod |-> p, sub |-> subs[<<a, p>>].id, plan |-> subs[<<a, p>>].plan] \in Approval
  BY <1>1 DEF Approval, SubRow
<1>3. approvals' \subseteq Approval
  BY <1>2 DEF Approve, TypeOK
<1>. DEFINE x == <<a, p>>
<1>4. x \in Apps \X Products /\ x[1] = a /\ x[2] = p /\ subs[x] # NoSub
  BY DEF Approve, NoSub
<1>5. approvals' = approvals \cup
          {[app |-> x[1], prod |-> x[2], sub |-> subs[x].id, plan |-> subs[x].plan]}
  BY DEF Approve
<1>. HIDE DEF x
<1>6. HistoryEffect
  BY <1>4, <1>5 DEF Approve, TypeOK, appVars, subVars, HistoryEffect
<1>. QED
  BY <1>3, <1>6 DEF Approve, TypeOK, adminVars, appVars, subVars, keyVars, billVars, gwVars,
                    Effect, DataOK, PlansEffect, RoutesEffect, SubsEffect, InvoicesEffect

\* The effect of a step of Subscribe, Reject or Approve.
LEMMA SubscriptionStepEffect ==
    ASSUME TypeOK, ShapeInv, NEW r \in Requests,
           \/ SubscribeCredential(r) \/ SubscribeSave(r) \/ RejectSet(r)
           \/ ApproveProduct(r) \/ ApproveClientId(r) \/ ApproveCredential(r) \/ ApproveConsumer(r)
           \/ ApproveActivate(r) \/ ApproveSandbox(r) \/ BillPricing(r) \/ BillCreate(r)
    PROVE  Effect
<1>1. req[r] \in Request /\ RequestShape(req[r])
  BY DEF TypeOK, ShapeInv
<1>2. req[r].prod \in Products /\ req[r].app \in Apps
  BY <1>1 DEF RequestShape, MayBeAt, AdminOps, ApprovePcs, At, SubscribeCredential, SubscribeSave,
              RejectSet, ApproveProduct, ApproveClientId, ApproveCredential, ApproveConsumer,
              ApproveActivate, ApproveSandbox, BillPricing, BillCreate
<1>3. req[r].pc \in ApprovePcs \cup {"subscribe.save"} => req[r].plan \in Plans
  BY <1>1 DEF RequestShape, MayBeAt
<1>4. CASE SubscribeCredential(r) \/ ApproveCredential(r)
  <2>1. creds' \in [Apps -> CredRow] /\ nextKey' \in Nat \ {0}
    BY <1>2, <1>4, CreateCredentialType
    DEF SubscribeCredential, ApproveCredential, TypeOK, keyVars
  <2>. QED
    BY <1>4, <2>1 DEF SubscribeCredential, ApproveCredential, TypeOK, adminVars, appVars, subVars,
                      billVars, gwVars, histVars, Effect, DataOK, PlansEffect, RoutesEffect, HistoryEffect, SubsEffect, InvoicesEffect
<1>5. CASE SubscribeSave(r)
  <2>1. SubsEffect
    BY <1>1, <1>2, <1>3, <1>5 DEF SubscribeSave, RequestShape, MayBeAt, At, subVars, SubsEffect, Saves
  <2>. QED
    BY <1>5, <2>1 DEF SubscribeSave, TypeOK, adminVars, appVars, keyVars,
                      billVars, gwVars, histVars, Effect, DataOK, PlansEffect, RoutesEffect, HistoryEffect, InvoicesEffect
<1>6. CASE RejectSet(r) \/ ApproveActivate(r)
  <2>1. /\ At(r, "approve.activate") => req[r].op = "approve"
        /\ At(r, "reject.set") => req[r].op = "reject"
    BY <1>1 DEF RequestShape, MayBeAt, ApprovePcs, At
  <2>2. SubsEffect
    BY <1>6, <2>1 DEF RejectSet, ApproveActivate, SubsEffect, Rejects, Activates
  <2>. QED
    BY <1>6, <2>2 DEF RejectSet, ApproveActivate, TypeOK, adminVars, appVars, keyVars,
                      billVars, gwVars, histVars, Effect, DataOK, PlansEffect, RoutesEffect, HistoryEffect, InvoicesEffect
<1>7. CASE ApproveProduct(r) \/ BillPricing(r)
  BY <1>7, FrameEffect DEF ApproveProduct, BillPricing
<1>8. CASE ApproveClientId(r) \/ ApproveSandbox(r)
  <2>1. faults' \in Nat
    BY <1>8 DEF ApproveClientId, ApproveSandbox, TypeOK
  <2>. QED
    BY <1>8, <2>1 DEF ApproveClientId, ApproveSandbox, TypeOK, adminVars, appVars, subVars, keyVars,
                      billVars, gwVars, histVars, Effect, DataOK, PlansEffect, RoutesEffect, HistoryEffect, SubsEffect, InvoicesEffect
<1>9. CASE ApproveConsumer(r)
  <2>1. req[r].key \in Nat /\ req[r].limit \in Nat
    BY <1>1 DEF Request
  <2>2. consumers' \in [Envs -> [Apps -> ConsumerObj]]
    BY <1>2, <1>9, <2>1, PutConsumerType DEF ApproveConsumer, Envs
  <2>. QED
    BY <1>9, <2>2 DEF ApproveConsumer, TypeOK, adminVars, appVars, subVars, keyVars,
                      billVars, gwVars, histVars, Effect, DataOK, PlansEffect, RoutesEffect, HistoryEffect, SubsEffect, InvoicesEffect
<1>10. CASE BillCreate(r)
  <2>1. req[r].op = "approve"
    BY <1>1, <1>10 DEF BillCreate, At, RequestShape, MayBeAt, ApprovePcs
  <2>2. InvoicesEffect
    BY <1>10, <2>1 DEF BillCreate, InvoicesEffect, Bills
  <2>. QED
    BY <1>10, <2>2 DEF BillCreate, TypeOK, adminVars, appVars, subVars, keyVars,
                      gwVars, histVars, Effect, DataOK, PlansEffect, RoutesEffect, HistoryEffect, SubsEffect
<1>. QED  BY <1>4, <1>5, <1>6, <1>7, <1>8, <1>9, <1>10

\* Deleting one row is erasing a set of one.
LEMMA EraseOne ==
    ASSUME TypeOK, NEW z \in Apps \X Products, subs' = [subs EXCEPT ![z] = NoSub]
    PROVE  EraseRows({z}) /\ {subs[x].id : x \in {z}} = {subs[z].id}
BY DEF TypeOK, EraseRows

\* The effect of the subscription life cycle.
LEMMA SubscriptionEffect ==
    ASSUME TypeOK, ShapeInv, RowInv, NEW r \in Requests, SubscriptionNext(r)
    PROVE  Effect
<1>1. ASSUME NEW a \in Apps, NEW p \in Products, NEW pl \in Plans, Subscribe(r, a, p, pl)
      PROVE  Effect
  BY <1>1, FrameEffect DEF Subscribe
<1>2. ASSUME NEW a \in Apps, NEW p \in Products, Unsubscribe(r, a, p)
      PROVE  Effect
  <2>1. Erases({<<a, p>>})
    BY <1>2, EraseOne DEF Unsubscribe, DeleteSubscription, Erases
  <2>2. SubsEffect
    BY <1>2, <2>1 DEF Unsubscribe, SubsEffect
  <2>3. InvoicesEffect
    BY <2>1 DEF InvoicesEffect
  <2>. QED
    BY <1>2, <2>2, <2>3 DEF Unsubscribe, TypeOK, adminVars, appVars, keyVars,
                            gwVars, histVars, Effect, DataOK, PlansEffect, RoutesEffect, HistoryEffect
<1>3. ASSUME NEW a \in Apps, NEW p \in Products, Reject(r, a, p)
      PROVE  Effect
  BY <1>3, FrameEffect DEF Reject
<1>. QED  BY <1>1, <1>2, <1>3, ApproveEffect, SubscriptionStepEffect DEF SubscriptionNext

\* Storing a key keeps the credentials' type.
LEMMA SaveKeyType ==
    ASSUME TypeOK, NEW r \in Requests, req[r].app \in Apps, NEW env, SaveKey(r, env)
    PROVE  creds' \in [Apps -> CredRow]
<1>. DEFINE a == req[r].app
            c == IF env = "production" THEN [creds[a] EXCEPT !.key = req[r].key]
                                       ELSE [creds[a] EXCEPT !.sandboxKey = req[r].key]
<1>1. req[r].key \in Nat
  BY DEF TypeOK, Request
<1>2. c \in CredRow
  BY <1>1 DEF TypeOK, CredRow
<1>3. UNCHANGED creds \/ creds' = [creds EXCEPT ![a] = c]
  BY DEF SaveKey
<1>. HIDE DEF c
<1>. QED  BY <1>2, <1>3 DEF TypeOK

\* The effect of deleting the application row, with its cascades.
LEMMA DeleteRowEffect ==
    ASSUME TypeOK, NEW r \in Requests, req[r].app \in Apps, DeleteRow(r)
    PROVE  Effect
<1>. DEFINE a == req[r].app
            D == {x \in Apps \X Products : x[1] = a}
<1>1. subs' = [x \in Apps \X Products |-> IF x \in D THEN NoSub ELSE subs[x]]
  BY DEF DeleteRow
<1>2. SubsEffect /\ InvoicesEffect
  <2>1. {subs[<<a, p>>].id : p \in Products} = {subs[x].id : x \in D}
    <3>1. \A x \in D : \E p \in Products : x = <<a, p>>
      OBVIOUS
    <3>2. \A p \in Products : <<a, p>> \in D
      OBVIOUS
    <3>. HIDE DEF D
    <3>. QED  BY <3>1, <3>2
  <2>. QED  BY <1>1, <2>1 DEF DeleteRow, SubsEffect, InvoicesEffect, Erases, EraseRows
<1>3. apps' \subseteq Apps /\ oidc' \in [Apps -> ClientIds \cup {None}] /\ creds' \in [Apps -> CredRow]
  BY DEF DeleteRow, TypeOK, NoCred, CredRow
<1>. QED
  BY <1>2, <1>3 DEF DeleteRow, TypeOK, adminVars, gwVars, histVars, Effect, DataOK, PlansEffect, RoutesEffect, HistoryEffect

\* The effect of a step of the owner's other operations.
LEMMA OwnerStepEffect ==
    ASSUME TypeOK, ShapeInv, NEW r \in Requests,
           \/ RotateConsumer(r) \/ RotateSave(r) \/ EnableConsumer(r) \/ EnableSave(r)
           \/ OidcProducts(r)
           \/ DeleteNext(r) \/ DeleteCredential(r) \/ DeleteConsumer(r)
           \/ DeleteSandboxKey(r) \/ DeleteSandboxConsumer(r) \/ DeleteRow(r)
    PROVE  Effect
<1>1. req[r] \in Request /\ RequestShape(req[r])
  BY DEF TypeOK, ShapeInv
<1>2. req[r].app \in Apps
  BY <1>1 DEF RequestShape, MayBeAt, AdminOps, OwnerPcs, RotatePcs, EnablePcs, DeletePcs, At, RotateConsumer, RotateSave, EnableConsumer,
              EnableSave, OidcProducts, DeleteNext, DeleteCredential, DeleteConsumer,
              DeleteSandboxKey, DeleteSandboxConsumer, DeleteRow
<1>3. req[r].key \in Nat /\ req[r].limit \in Nat /\ nextKey \in Nat \ {0}
  BY <1>1 DEF Request, TypeOK
<1>4. CASE RotateConsumer(r) \/ EnableConsumer(r)
  <2>1. consumers' \in [Envs -> [Apps -> ConsumerObj]]
    <3>1. PICK env \in Envs, k \in Nat : EnsureConsumer(env, req[r].app, k, req[r].limit)
      BY <1>3, <1>4 DEF RotateConsumer, EnableConsumer, Envs
    <3>. QED  BY <1>2, <1>3, <3>1, PutConsumerType
  <2>2. nextKey' \in Nat \ {0}
    BY <1>3, <1>4 DEF RotateConsumer, EnableConsumer
  <2>. QED
    BY <1>4, <2>1, <2>2 DEF RotateConsumer, EnableConsumer, TypeOK, adminVars, appVars, subVars,
                            billVars, histVars, Effect, DataOK, PlansEffect, RoutesEffect, HistoryEffect, SubsEffect, InvoicesEffect
<1>5. CASE RotateSave(r) \/ EnableSave(r)
  <2>1. creds' \in [Apps -> CredRow]
    BY <1>2, <1>5, SaveKeyType DEF RotateSave, EnableSave
  <2>. QED
    BY <1>5, <2>1 DEF RotateSave, EnableSave, TypeOK, adminVars, appVars, subVars,
                      billVars, gwVars, histVars, Effect, DataOK, PlansEffect, RoutesEffect, HistoryEffect, SubsEffect, InvoicesEffect
<1>6. CASE OidcProducts(r) \/ DeleteCredential(r) \/ DeleteSandboxKey(r)
  BY <1>6, FrameEffect DEF OidcProducts, DeleteCredential, DeleteSandboxKey
<1>7. CASE DeleteNext(r)
  <2>1. PICK p \in req[r].todo : DeleteSubscription(req[r].app, p)
    BY <1>7 DEF DeleteNext
  <2>2. p \in Products
    BY <1>1 DEF Request
  <2>3. SubsEffect /\ InvoicesEffect
    <3>1. Erases({<<req[r].app, p>>})
      BY <1>2, <2>1, <2>2, EraseOne DEF DeleteSubscription, Erases
    <3>2. {<<req[r].app, p>>} \in SUBSET (Apps \X Products)
      BY <1>2, <2>2
    <3>3. UNCHANGED nextSub
      BY <1>7 DEF DeleteNext
    <3>. QED  BY <3>1, <3>2, <3>3 DEF SubsEffect, InvoicesEffect
  <2>. QED
    BY <1>7, <2>3 DEF DeleteNext, TypeOK, adminVars, appVars, keyVars, gwVars, histVars,
                            Effect, DataOK, PlansEffect, RoutesEffect, HistoryEffect
<1>8. CASE DeleteConsumer(r) \/ DeleteSandboxConsumer(r)
  <2>1. consumers' \in [Envs -> [Apps -> ConsumerObj]]
    <3>1. UNCHANGED consumers \/ \E env \in Envs : DropConsumer(env, req[r].app)
      BY <1>8 DEF DeleteConsumer, DeleteSandboxConsumer, Envs
    <3>. QED  BY <1>2, <3>1, PutConsumerType DEF TypeOK
  <2>. QED
    BY <1>8, <2>1 DEF DeleteConsumer, DeleteSandboxConsumer, TypeOK, adminVars, appVars, subVars,
                      keyVars, billVars, histVars, Effect, DataOK, PlansEffect, RoutesEffect, HistoryEffect, SubsEffect, InvoicesEffect
<1>. QED  BY <1>2, <1>4, <1>5, <1>6, <1>7, <1>8, DeleteRowEffect

\* The effect of the owner's other operations.
LEMMA CredentialsEffect ==
    ASSUME TypeOK, ShapeInv, NEW r \in Requests, CredentialsNext(r)
    PROVE  Effect
<1>1. ASSUME NEW a \in Apps,
             Rotate(r, a) \/ RotateSandbox(r, a) \/ EnableSandbox(r, a) \/ DeleteApp(r, a)
      PROVE  Effect
  BY <1>1, FrameEffect DEF Rotate, RotateSandbox, EnableSandbox, DeleteApp
<1>2. ASSUME NEW a \in Apps, NEW c \in ClientIds \cup {None}, SetOidc(r, a, c)
      PROVE  Effect
  <2>1. oidc' \in [Apps -> ClientIds \cup {None}] /\ claims' \in [Apps -> SUBSET ClientIds]
    BY <1>2 DEF SetOidc, TypeOK
  <2>2. HistoryEffect
    BY <1>2 DEF SetOidc, TypeOK, HistoryEffect
  <2>. QED
    BY <1>2, <2>1, <2>2 DEF SetOidc, TypeOK, adminVars, subVars, keyVars, billVars, gwVars,
                      Effect, DataOK, PlansEffect, RoutesEffect, HistoryEffect, SubsEffect, InvoicesEffect
<1>. QED  BY <1>1, <1>2, OwnerStepEffect DEF CredentialsNext

\* The effect of product administration.
LEMMA ProductEffect ==
    ASSUME TypeOK, ShapeInv, NEW r \in Requests, ProductNext(r)
    PROVE  Effect
<1>1. req[r] \in Request /\ RequestShape(req[r])
  BY DEF TypeOK, ShapeInv
<1>2. ASSUME ProductSave(r) \/ ProductDelete(r) \/ ProductDeprovision(r)
      PROVE  req[r].prod \in Products
  BY <1>1, <1>2 DEF RequestShape, MayBeAt, At, ProductSave, ProductDelete, ProductDeprovision
<1>3. \A p \in Products, row \in Edits, moved \in SUBSET {"upstream", "sandbox"} :
          UpdateProduct(r, p, row, moved) => Effect
  BY FrameEffect DEF UpdateProduct
<1>4. \A p \in Products : DeleteProduct(r, p) => Effect
  BY FrameEffect DEF DeleteProduct
<1>5. CASE ProductSave(r)
  <2>1. products' \in [Products -> ProductRow]
    BY <1>1, <1>2, <1>5 DEF ProductSave, TypeOK, Request
  <2>. QED
    BY <1>5, <2>1 DEF ProductSave, TypeOK, appVars, subVars, keyVars, billVars, gwVars, histVars,
                      Effect, DataOK, PlansEffect, RoutesEffect, HistoryEffect, SubsEffect, InvoicesEffect
<1>6. CASE ProductCount(r)
  BY <1>6, FrameEffect DEF ProductCount
<1>7. CASE ProductDelete(r)
  <2>. DEFINE p == req[r].prod
              D == {x \in Apps \X Products : x[2] = p}
  <2>1. products' \in [Products -> ProductRow]
    BY <1>2, <1>7, NoReqType DEF ProductDelete, TypeOK
  <2>2. SubsEffect /\ InvoicesEffect
    <3>1. {subs[<<a, p>>].id : a \in Apps} = {subs[x].id : x \in D}
      <4>1. \A x \in D : \E a \in Apps : x = <<a, p>>
        OBVIOUS
      <4>2. \A a \in Apps : <<a, p>> \in D
        BY <1>2, <1>7
      <4>. HIDE DEF D
      <4>. QED  BY <4>1, <4>2
    <3>2. Erases(D) \/ UNCHANGED <<subs, invoices>>
      BY <1>7, <3>1 DEF ProductDelete, Erases, EraseRows
    <3>3. UNCHANGED nextSub
      BY <1>7 DEF ProductDelete
    <3>. HIDE DEF D
    <3>4. D \in SUBSET (Apps \X Products)
      BY DEF D
    <3>. QED  BY <3>2, <3>3, <3>4 DEF SubsEffect, InvoicesEffect
  <2>. QED
    BY <1>7, <2>1, <2>2 DEF ProductDelete, TypeOK, appVars, keyVars, gwVars, histVars,
                                  Effect, DataOK, PlansEffect, RoutesEffect, HistoryEffect
<1>8. CASE ProductDeprovision(r)
  <2>1. routes' \in [Envs -> [Products -> RouteObj]] /\ RoutesEffect
    BY <1>2, <1>8, PutRouteType DEF ProductDeprovision, Envs, RoutesEffect
  <2>. QED
    BY <1>8, <2>1 DEF ProductDeprovision, TypeOK, Unprovisioned, adminVars, appVars, subVars,
                      keyVars, billVars, histVars, Effect, DataOK, PlansEffect, RoutesEffect, HistoryEffect, SubsEffect, InvoicesEffect
<1>. QED  BY <1>3, <1>4, <1>5, <1>6, <1>7, <1>8 DEF ProductNext

\* What a statement on the plans leaves alone.
LEMMA PlanTableEffect ==
    ASSUME TypeOK, plans' \in [Plans -> PlanRow], PlansEffect,
           UNCHANGED <<products, appVars, subVars, keyVars, billVars, gwVars, faults, histVars>>
    PROVE  Effect
BY DEF TypeOK, appVars, subVars, keyVars, billVars, gwVars, histVars, Effect, DataOK, RoutesEffect,
       HistoryEffect, SubsEffect, InvoicesEffect

\* A plan is created where none was.
LEMMA CreatePlanEffect ==
    ASSUME TypeOK, NEW pl \in Plans, NEW row \in PlanEdits, CreatePlan(pl, row)
    PROVE  Effect
<1>1. row \in PlanRow /\ row.state = "live"
  BY PlanEditsType
<1>2. plans' = [plans EXCEPT ![pl] = row] /\ UNCHANGED subs
  BY DEF CreatePlan, subVars
<1>3. plans' \in [Plans -> PlanRow] /\ PlansEffect
  BY <1>1, <1>2 DEF TypeOK, PlansEffect
<1>. QED  BY <1>3, PlanTableEffect DEF CreatePlan

\* An update leaves a plan live, and a delete spares one that is referred to.
LEMMA PlanStatementEffect ==
    ASSUME TypeOK, ShapeInv, NEW r \in Requests, PlanSave(r) \/ PlanDelete(r)
    PROVE  Effect
<1>1. req[r].plan \in Plans /\ UNCHANGED subs
  BY DEF ShapeInv, RequestShape, MayBeAt, PlanPcs, At, PlanSave, PlanDelete, subVars
<1>2. CASE UNCHANGED plans
  BY <1>2, PlanTableEffect DEF TypeOK, PlansEffect, PlanSave, PlanDelete
<1>3. ASSUME NEW row \in PlanEdits, plans' = [plans EXCEPT ![req[r].plan] = row]
      PROVE  Effect
  <2>1. row \in PlanRow /\ row.state = "live"
    BY PlanEditsType
  <2>2. plans' \in [Plans -> PlanRow] /\ PlansEffect
    BY <1>1, <1>3, <2>1 DEF TypeOK, PlansEffect
  <2>. QED  BY <2>2, PlanTableEffect DEF PlanSave, PlanDelete
<1>4. ASSUME ~PlanReferenced(req[r].plan), plans' = [plans EXCEPT ![req[r].plan].state = "gone"]
      PROVE  Effect
  <2>. DEFINE row == [plans[req[r].plan] EXCEPT !.state = "gone"]
  <2>1. row \in PlanRow /\ plans' = [plans EXCEPT ![req[r].plan] = row]
    BY <1>1, <1>4 DEF TypeOK, PlanRow
  <2>. HIDE DEF row
  <2>2. plans' \in [Plans -> PlanRow]
    BY <1>1, <2>1 DEF TypeOK
  <2>3. \A pl \in Plans : pl # req[r].plan => plans'[pl] = plans[pl]
    BY <1>1, <2>1 DEF TypeOK
  <2>4. PlansEffect
    BY <1>1, <1>4, <2>3 DEF PlansEffect
  <2>. QED  BY <2>2, <2>4, PlanTableEffect DEF PlanSave, PlanDelete
<1>. QED  BY <1>2, <1>3, <1>4 DEF PlanSave, PlanDelete

\* The effect of plan administration.
LEMMA PlanEffect ==
    ASSUME TypeOK, ShapeInv, NEW r \in Requests, PlanNext(r)
    PROVE  Effect
<1>1. \A pl \in Plans : UpdatePlan(r, pl) \/ DeletePlan(r, pl) => Effect
  BY FrameEffect DEF UpdatePlan, DeletePlan
<1>2. CASE PlanRead(r) \/ PlanConsumers(r) \/ PlanSandboxConsumers(r)
  BY <1>2, FrameEffect DEF PlanRead, PlanConsumers, PlanSandboxConsumers
<1>3. CASE PlanPush(r) \/ PlanSandboxPush(r)
  <2>1. PICK env \in Envs, a \in Apps : EnsureConsumer(env, a, req[r].keys[a], req[r].limit)
    BY <1>3 DEF PlanPush, PlanSandboxPush, Envs
  <2>2. req[r].keys[a] \in Nat /\ req[r].limit \in Nat
    BY DEF TypeOK, Request
  <2>3. consumers' \in [Envs -> [Apps -> ConsumerObj]]
    BY <2>1, <2>2, PutConsumerType
  <2>. QED
    BY <1>3, <2>3 DEF PlanPush, PlanSandboxPush, TypeOK, adminVars, appVars, subVars, keyVars, billVars,
                      histVars, Effect, DataOK, PlansEffect, RoutesEffect, HistoryEffect, SubsEffect, InvoicesEffect
<1>. QED  BY <1>1, <1>2, <1>3, PlanStatementEffect DEF PlanNext

\* The effect of any step.
LEMMA NextEffect ==
    ASSUME TypeOK, ShapeInv, RowInv, [Next]_vars
    PROVE  Effect
<1>1. CASE UNCHANGED vars
  BY <1>1 DEF vars, TypeOK, Effect, DataOK, PlansEffect, RoutesEffect, HistoryEffect, SubsEffect, InvoicesEffect
<1>2. CASE BillingNext
  <2>1. PICK n \in DOMAIN invoices, s \in {"paid", "void"} : Settle(n, s)
    BY <1>2 DEF BillingNext, MarkPaid, Void
  <2>2. InvoicesEffect
    BY <2>1 DEF Settle, InvoicesEffect
  <2>. QED
    BY <2>1, <2>2 DEF Settle, TypeOK, adminVars, appVars, subVars, keyVars, gwVars, histVars,
                      Effect, DataOK, PlansEffect, RoutesEffect, HistoryEffect, SubsEffect
<1>3. ASSUME NEW r \in Requests, Fail(r)
      PROVE  Effect
  BY <1>3 DEF Fail, TypeOK, adminVars, appVars, subVars, keyVars, billVars, gwVars, histVars,
              Effect, DataOK, PlansEffect, RoutesEffect, HistoryEffect, SubsEffect, InvoicesEffect
<1>. QED
  BY <1>1, <1>2, <1>3, RouteEffect, SubscriptionEffect, CredentialsEffect, ProductEffect,
     PlanEffect, CreatePlanEffect
  DEF Next, Step

-----------------------------------------------------------------------------
(* Types and rows *)

\* The first half of the invariant holds at the start ...
LEMMA InitBase == Init => BaseInv
<1>. SUFFICES ASSUME Init PROVE BaseInv
  OBVIOUS
<1>1. req \in [Requests -> Request] /\ ShapeInv
  <2>1. RequestShape(NoReq)
    BY DEF NoReq, RequestShape, MayBeAt, RoutePcs, ApprovePcs, OwnerPcs, RotatePcs, EnablePcs, DeletePcs, PlanPcs, AdminOps
  <2>. QED  BY <2>1, NoReqType DEF Init, ShapeInv
<1>2. /\ NoSub \in SubRow /\ NoCred \in CredRow /\ NoConsumer \in ConsumerObj /\ NoRoute \in RouteObj
      /\ NoSub.id = 0
  BY DEF NoSub, SubRow, NoCred, CredRow, NoConsumer, ConsumerObj, NoRoute, RouteObj
<1>3. TypeOK
  BY <1>1, <1>2, CatalogueType, PlanTableType, BoundsType DEF Init, TypeOK
<1>4. RowInv
  BY <1>2 DEF Init, RowInv
<1>. QED  BY <1>1, <1>3, <1>4 DEF BaseInv

\* ... and every step keeps it.
LEMMA NextBase == BaseInv /\ [Next]_vars => BaseInv'
<1>. SUFFICES ASSUME BaseInv, [Next]_vars PROVE BaseInv'
  OBVIOUS
<1>1. Effect
  BY NextEffect DEF BaseInv
<1>2. /\ subs' \in [Apps \X Products -> SubRow] /\ nextSub' \in Nat \ {0} /\ RowInv'
      /\ invoices' \in Seq(InvoiceRow)
  BY <1>1, SubsPreserved, InvoicesPreserved DEF BaseInv, Effect
<1>. QED  BY <1>1, <1>2, RequestsPreserved DEF BaseInv, TypeOK, Effect, DataOK, PlansEffect, RoutesEffect, HistoryEffect

\* Every variable keeps its type, whatever requests run together and fail.
THEOREM TypeCorrect == Spec => []TypeOK
<1>1. Init => BaseInv
  BY InitBase
<1>2. BaseInv /\ [Next]_vars => BaseInv'
  BY NextBase
<1>3. BaseInv => TypeOK
  BY DEF BaseInv
<1>. QED  BY <1>1, <1>2, <1>3, PTL DEF Spec

-----------------------------------------------------------------------------
(* What requests carry: approvals in progress and the lists about to be pushed *)

\* A step of request r after which r's approval is recorded and its lists are
\* vouched for.
FineStep(r) == /\ req' = [req EXCEPT ![r] = req'[r]]
               /\ (Approving(req[r]) /\ Carries(req[r]))'

\* What was vouched for stays so: approvals and claims are never withdrawn.
LEMMA StillVouched ==
    ASSUME TypeOK, HistoryEffect, NEW i, NEW p, Vouched(i, p)
    PROVE  Vouched(i, p)'
BY DEF Vouched, HistoryEffect, TypeOK, Approval

\* So do the approval and the lists of a request that does not move.
LEMMA StillFine ==
    ASSUME TypeOK, HistoryEffect, NEW q, Approving(q), Carries(q)
    PROVE  Approving(q)' /\ Carries(q)'
BY StillVouched DEF Approving, Carries, HistoryEffect

\* A request moves to locals that are fine already.
LEMMA FineMove ==
    ASSUME TypeOK, HistoryEffect, NEW r \in Requests, NEW q, req' = [req EXCEPT ![r] = q],
           Approving(q), Carries(q)
    PROVE  FineStep(r)
<1>1. req'[r] = q
  BY DEF TypeOK
<1>2. Approving(q)' /\ Carries(q)'
  BY StillFine
<1>. QED  BY <1>1, <1>2 DEF FineStep, Approving, Carries

\* A handler that returns carries nothing.
LEMMA FineFinish ==
    ASSUME TypeOK, HistoryEffect, NEW r \in Requests, Finish(r)
    PROVE  FineStep(r)
<1>1. Approving(NoReq) /\ Carries(NoReq)
  BY NoReqType DEF Approving, Carries
<1>. QED  BY <1>1, FineMove DEF Finish

\* A handler other than Approve starts with nothing to admit.
LEMMA FineBegin ==
    ASSUME TypeOK, HistoryEffect, NEW r \in Requests, NEW op \in OpNames \ {"approve"},
           NEW q \in Request, Begin(r, op, q), q.extra = {}, q.allowed = {}
    PROVE  FineStep(r)
<1>. DEFINE s == [q EXCEPT !.op = op]
<1>1. s.op = op /\ s.extra = {} /\ s.allowed = {} /\ req' = [req EXCEPT ![r] = s]
  BY DEF Request, Begin
<1>. HIDE DEF s
<1>2. Approving(s) /\ Carries(s)
  BY <1>1 DEF Approving, Carries
<1>. QED  BY <1>1, <1>2, FineMove

\* A handler goes on with the same approval, towards its product or one it has
\* left to do, and holds no list yet.
LEMMA FineOn ==
    ASSUME TypeOK, HistoryEffect, ApprovingInv, CarriedInv, NEW r \in Requests, NEW q,
           req' = [req EXCEPT ![r] = q], q.op = req[r].op, q.app = req[r].app,
           q.sub = req[r].sub, q.plan = req[r].plan, q.extra = req[r].extra,
           q.todo \subseteq req[r].todo, q.prod \in {req[r].prod} \cup req[r].todo, q.allowed = {}
    PROVE  FineStep(r)
<1>1. Approving(req[r]) /\ Carries(req[r])
  BY DEF ApprovingInv, CarriedInv
<1>2. Approving(q) /\ Carries(q)
  BY <1>1 DEF Approving, Carries
<1>. QED  BY <1>2, FineMove

\* Going to another step changes pc only.
LEMMA FineGoto ==
    ASSUME TypeOK, HistoryEffect, ApprovingInv, CarriedInv, NEW r \in Requests, NEW pc,
           Goto(r, pc), req[r].allowed = {}
    PROVE  FineStep(r)
<1>. DEFINE q == [req[r] EXCEPT !.pc = pc]
<1>1. req[r] \in Request
  BY DEF TypeOK
<1>2. /\ q.op = req[r].op /\ q.app = req[r].app /\ q.sub = req[r].sub /\ q.plan = req[r].plan
      /\ q.extra = req[r].extra /\ q.todo = req[r].todo /\ q.prod = req[r].prod /\ q.allowed = {}
  BY <1>1 DEF Request
<1>3. req' = [req EXCEPT ![r] = q]
  BY DEF Goto
<1>. HIDE DEF q
<1>. QED  BY <1>2, <1>3, FineOn

\* Returning from the route subroutine drops its list.
LEMMA FineReturnTo ==
    ASSUME TypeOK, HistoryEffect, ApprovingInv, CarriedInv, NEW r \in Requests, NEW pc,
           ReturnTo(r, pc)
    PROVE  FineStep(r)
<1>. DEFINE q == [req[r] EXCEPT !.pc = pc, !.auth = "none", !.allowed = {}]
<1>1. req[r] \in Request
  BY DEF TypeOK
<1>2. /\ q.op = req[r].op /\ q.app = req[r].app /\ q.sub = req[r].sub /\ q.plan = req[r].plan
      /\ q.extra = req[r].extra /\ q.todo = req[r].todo /\ q.prod = req[r].prod /\ q.allowed = {}
  BY <1>1 DEF Request
<1>3. req' = [req EXCEPT ![r] = q]
  BY DEF ReturnTo
<1>. HIDE DEF q
<1>. QED  BY <1>2, <1>3, FineOn

\* The next product of a loop was already vouched for.
LEMMA FineNextInTodo ==
    ASSUME TypeOK, HistoryEffect, ApprovingInv, CarriedInv, NEW r \in Requests, NEW pc,
           NextInTodo(r, pc)
    PROVE  FineStep(r)
<1>1. CASE Finish(r)
  BY <1>1, FineFinish
<1>2. ASSUME NEW p \in req[r].todo,
             req' = [req EXCEPT ![r] = [@ EXCEPT !.pc = pc, !.prod = p, !.todo = req[r].todo \ {p},
                                                 !.auth = "none", !.allowed = {}]]
      PROVE  FineStep(r)
  <2>. DEFINE q == [req[r] EXCEPT !.pc = pc, !.prod = p, !.todo = req[r].todo \ {p},
                                  !.auth = "none", !.allowed = {}]
  <2>1. req[r] \in Request
    BY DEF TypeOK
  <2>2. /\ q.op = req[r].op /\ q.app = req[r].app /\ q.sub = req[r].sub /\ q.plan = req[r].plan
        /\ q.extra = req[r].extra /\ q.todo = req[r].todo \ {p} /\ q.prod = p /\ q.allowed = {}
    BY <2>1 DEF Request
  <2>3. req' = [req EXCEPT ![r] = q]
    BY <1>2
  <2>. HIDE DEF q
  <2>. QED  BY <2>2, <2>3, FineOn
<1>. QED  BY <1>1, <1>2 DEF NextInTodo

\* Whoever the subscriptions table makes a member of a route is vouched for.
LEMMA MembersVouched ==
    ASSUME TypeOK, ActiveWasApproved, ClaimInv, NEW p \in Products,
           NEW i \in OAuthClientsForProduct(p) \cup ConsumersForProduct(p)
                         \cup SandboxConsumersForProduct(p)
    PROVE  Vouched(i, p)
<1>1. PICK a \in ActiveApps(p) : i \in {a, oidc[a]} \ {None}
  BY NoneIsNoRow
  DEF OAuthClientsForProduct, ConsumersForProduct, SandboxConsumersForProduct, ActiveApps
<1>2. PICK ap \in approvals : ap.app = a /\ ap.prod = p
  BY DEF ActiveWasApproved, ActiveApps, ActiveRow
<1>3. i \in {a} \cup claims[a]
  BY <1>1 DEF ClaimInv, ActiveApps
<1>. QED  BY <1>2, <1>3 DEF Vouched

\* Route provisioning lists members of the table and whom its caller names.
LEMMA RouteFine ==
    ASSUME TypeOK, ShapeInv, ApprovingInv, CarriedInv, ClaimInv, ActiveWasApproved, HistoryEffect,
           NEW r \in Requests, RouteNext(r)
    PROVE  FineStep(r)
<1>1. req[r] \in Request /\ RequestShape(req[r]) /\ Approving(req[r]) /\ Carries(req[r])
  BY DEF TypeOK, ShapeInv, ApprovingInv, CarriedInv
<1>2. req[r].prod \in Products
  BY <1>1 DEF RequestShape, MayBeAt, RoutePcs, At, RouteNext, RouteProduct, RouteMembers, RoutePush,
              SandboxProduct, SandboxMembers, SandboxPush
<1>3. CASE RouteProduct(r)
  <2>. DEFINE q == [req[r] EXCEPT !.pc = "route.members", !.auth = products[req[r].prod].auth]
  <2>1. /\ q.op = req[r].op /\ q.app = req[r].app /\ q.sub = req[r].sub /\ q.plan = req[r].plan
        /\ q.extra = req[r].extra /\ q.todo = req[r].todo /\ q.prod = req[r].prod
        /\ q.allowed = {}
    BY <1>1, <1>3 DEF Request, RequestShape, RouteProduct, At
  <2>2. Finish(r) \/ req' = [req EXCEPT ![r] = q]
    BY <1>3 DEF RouteProduct
  <2>. HIDE DEF q
  <2>. QED  BY <2>1, <2>2, FineOn, FineFinish
<1>4. ASSUME NEW pc, NEW s,
             req' = [req EXCEPT ![r] = [@ EXCEPT !.pc = pc, !.allowed = s]],
             \A i \in s : Vouched(i, req[r].prod)
      PROVE  FineStep(r)
  <2>. DEFINE q == [req[r] EXCEPT !.pc = pc, !.allowed = s]
  <2>1. /\ q.op = req[r].op /\ q.app = req[r].app /\ q.sub = req[r].sub /\ q.plan = req[r].plan
        /\ q.extra = req[r].extra /\ q.todo = req[r].todo /\ q.prod = req[r].prod
        /\ q.allowed = s
    BY <1>1 DEF Request
  <2>2. req' = [req EXCEPT ![r] = q]
    BY <1>4
  <2>. HIDE DEF q
  <2>3. Approving(q) /\ Carries(q)
    BY <1>1, <1>4, <2>1 DEF Approving, Carries
  <2>. QED  BY <2>2, <2>3, FineMove
<1>5. \A i \in req[r].extra : Vouched(i, req[r].prod)
  BY <1>1, <1>2 DEF Carries
<1>6. CASE RouteMembers(r)
  <2>1. \A i \in RouteAllowed(req[r]) : Vouched(i, req[r].prod)
    BY <1>2, <1>5, MembersVouched DEF RouteAllowed
  <2>. QED  BY <1>4, <1>6, <2>1 DEF RouteMembers
<1>7. CASE SandboxMembers(r)
  <2>1. \A i \in SandboxConsumersForProduct(req[r].prod) \cup req[r].extra :
            Vouched(i, req[r].prod)
    BY <1>2, <1>5, MembersVouched
  <2>. QED  BY <1>4, <1>7, <2>1 DEF SandboxMembers
<1>8. CASE RoutePush(r)
  BY <1>8, FineReturnTo, FineNextInTodo, FineFinish DEF RoutePush, AfterRoute
<1>9. CASE SandboxProduct(r)
  <2>1. req[r].allowed = {}
    BY <1>1, <1>9 DEF SandboxProduct, At, RequestShape
  <2>. QED  BY <1>9, <2>1, FineGoto, FineFinish DEF SandboxProduct
<1>10. CASE SandboxPush(r)
  BY <1>10, FineReturnTo, FineNextInTodo, FineFinish DEF SandboxPush, AfterSandboxRoute
<1>. QED  BY <1>3, <1>6, <1>7, <1>8, <1>9, <1>10 DEF RouteNext

\* Approve records what it read before it does anything else.
LEMMA ApproveFine ==
    ASSUME TypeOK, HistoryEffect, NEW r \in Requests, NEW a \in Apps, NEW p \in Products,
           Approve(r, a, p)
    PROVE  FineStep(r)
<1>1. PICK id, pl, s :
         /\ id = subs[<<a, p>>].id /\ pl = subs[<<a, p>>].plan
         /\ s = [[NoReq EXCEPT !.pc = "approve.product", !.app = a, !.prod = p, !.sub = id,
                               !.plan = pl] EXCEPT !.op = "approve"]
  OBVIOUS
<1>2. req' = [req EXCEPT ![r] = s]
  BY <1>1 DEF Approve, Begin
<1>3. [app |-> a, prod |-> p, sub |-> id, plan |-> pl] \in approvals'
  BY <1>1 DEF Approve
<1>4. /\ s.app = a /\ s.prod = p /\ s.sub = id /\ s.plan = pl
      /\ s.extra = {} /\ s.allowed = {} /\ s.todo = {}
  BY <1>1, NoReqType DEF NoReq
<1>5. Approving(s)' /\ Carries(s)'
  BY <1>3, <1>4 DEF Approving, Carries
<1>6. req'[r] = s
  BY <1>2 DEF TypeOK
<1>. QED  BY <1>2, <1>5, <1>6 DEF FineStep, Approving, Carries

\* Approve names the application, or the client id, that it approves.
LEMMA SubscriptionStepFine ==
    ASSUME TypeOK, ShapeInv, ApprovingInv, CarriedInv, ClaimInv, HistoryEffect, NEW r \in Requests,
           \/ SubscribeCredential(r) \/ SubscribeSave(r) \/ RejectSet(r)
           \/ ApproveProduct(r) \/ ApproveClientId(r) \/ ApproveCredential(r) \/ ApproveConsumer(r)
           \/ ApproveActivate(r) \/ ApproveSandbox(r) \/ BillPricing(r) \/ BillCreate(r)
    PROVE  FineStep(r)
<1>1. req[r] \in Request /\ RequestShape(req[r]) /\ Approving(req[r]) /\ Carries(req[r])
  BY DEF TypeOK, ShapeInv, ApprovingInv, CarriedInv
<1>2. req[r].allowed = {}
  BY <1>1 DEF RequestShape, At, SubscribeCredential, SubscribeSave, RejectSet, ApproveProduct,
              ApproveClientId, ApproveCredential, ApproveConsumer, ApproveActivate,
              ApproveSandbox, BillPricing, BillCreate
<1>3. CASE \/ SubscribeCredential(r) \/ SubscribeSave(r) \/ RejectSet(r)
           \/ ApproveActivate(r) \/ ApproveSandbox(r) \/ BillPricing(r) \/ BillCreate(r)
  <2>1. Finish(r) \/ \E pc \in PcNames : Goto(r, pc)
    BY <1>3 DEF SubscribeCredential, SubscribeSave, RejectSet, ApproveActivate, ApproveSandbox,
                BillPricing, BillCreate, PcNames
  <2>. QED  BY <1>2, <2>1, FineFinish, FineGoto
<1>4. CASE ApproveProduct(r)
  <2>. DEFINE q == [req[r] EXCEPT !.pc = "approve.credential", !.limit = plans[req[r].plan].limit]
  <2>1. /\ q.op = req[r].op /\ q.app = req[r].app /\ q.sub = req[r].sub /\ q.plan = req[r].plan
        /\ q.extra = req[r].extra /\ q.todo = req[r].todo /\ q.prod = req[r].prod /\ q.allowed = {}
    BY <1>1, <1>2 DEF Request
  <2>2. Finish(r) \/ Goto(r, "approve.clientId") \/ req' = [req EXCEPT ![r] = q]
    BY <1>4 DEF ApproveProduct
  <2>. HIDE DEF q
  <2>. QED  BY <1>2, <2>1, <2>2, FineOn, FineFinish, FineGoto
<1>5. CASE ApproveCredential(r)
  <2>. DEFINE k == creds'[req[r].app].key
              q == [req[r] EXCEPT !.pc = "approve.consumer", !.key = k]
  <2>1. Finish(r) \/ req' = [req EXCEPT ![r] = q]
    BY <1>5 DEF ApproveCredential
  <2>. HIDE DEF k
  <2>2. /\ q.op = req[r].op /\ q.app = req[r].app /\ q.sub = req[r].sub /\ q.plan = req[r].plan
        /\ q.extra = req[r].extra /\ q.todo = req[r].todo /\ q.prod = req[r].prod /\ q.allowed = {}
    BY <1>1, <1>2 DEF Request
  <2>. HIDE DEF q
  <2>. QED  BY <2>1, <2>2, FineOn, FineFinish
<1>6. ASSUME NEW x, \A i \in x : i \in {req[r].app} \cup claims[req[r].app],
             req[r].pc \in ApprovePcs,
             req' = [req EXCEPT ![r] = [@ EXCEPT !.pc = "route.product", !.extra = x]]
      PROVE  FineStep(r)
  <2>. DEFINE q == [req[r] EXCEPT !.pc = "route.product", !.extra = x]
  <2>1. req[r].op = "approve"
    BY <1>1, <1>6 DEF RequestShape, MayBeAt
  <2>2. /\ q.op = "approve" /\ q.app = req[r].app /\ q.sub = req[r].sub /\ q.plan = req[r].plan
        /\ q.extra = x /\ q.todo = {} /\ q.prod = req[r].prod /\ q.allowed = {}
    BY <1>1, <1>2, <2>1 DEF Request, Carries
  <2>3. req' = [req EXCEPT ![r] = q]
    BY <1>6
  <2>. HIDE DEF q
  <2>4. \A i \in x : Vouched(i, req[r].prod)
    BY <1>1, <1>6, <2>1 DEF Approving, Vouched
  <2>5. Approving(q) /\ Carries(q)
    BY <1>1, <2>1, <2>2, <2>4 DEF Approving, Carries
  <2>. QED  BY <2>3, <2>5, FineMove
<1>7. CASE ApproveClientId(r)
  <2>. DEFINE x == {oidc[req[r].app]} \ {None}
  <2>0. req[r].pc \in ApprovePcs
    BY <1>7 DEF ApproveClientId, At, ApprovePcs
  <2>1. req[r].app \in Apps
    BY <1>1, <2>0 DEF RequestShape, MayBeAt, AdminOps
  <2>2. \A i \in x : i \in {req[r].app} \cup claims[req[r].app]
    BY <2>1 DEF ClaimInv
  <2>3. \/ req' = [req EXCEPT ![r] = [@ EXCEPT !.pc = "route.product", !.extra = x]]
        \/ Goto(r, "route.product")
    BY <1>7 DEF ApproveClientId
  <2>. HIDE DEF x
  <2>. QED  BY <1>2, <1>6, <2>0, <2>2, <2>3, FineGoto
<1>8. CASE ApproveConsumer(r)
  <2>. DEFINE x == {req[r].app}
  <2>1. req[r].pc \in ApprovePcs
    BY <1>8 DEF ApproveConsumer, At, ApprovePcs
  <2>2. req' = [req EXCEPT ![r] = [@ EXCEPT !.pc = "route.product", !.extra = x]]
    BY <1>8 DEF ApproveConsumer
  <2>. QED  BY <1>6, <2>1, <2>2
<1>. QED  BY <1>3, <1>4, <1>5, <1>7, <1>8

\* The subscription life cycle carries what is vouched for.
LEMMA SubscriptionFine ==
    ASSUME TypeOK, ShapeInv, ApprovingInv, CarriedInv, ClaimInv, HistoryEffect, NEW r \in Requests,
           SubscriptionNext(r)
    PROVE  FineStep(r)
<1>1. ASSUME NEW a \in Apps, NEW p \in Products, NEW pl \in Plans, Subscribe(r, a, p, pl)
      PROVE  FineStep(r)
  <2>. DEFINE pc == IF products[p].auth = "oauth2" THEN "subscribe.save" ELSE "subscribe.credential"
              q == [NoReq EXCEPT !.app = a, !.prod = p, !.plan = pl, !.pc = pc]
  <2>1. Begin(r, "subscribe", q)
    BY <1>1 DEF Subscribe
  <2>2. pc \in PcNames
    BY DEF PcNames
  <2>. HIDE DEF pc
  <2>3. q \in Request /\ q.extra = {} /\ q.allowed = {}
    BY <2>2, NoReqType DEF Request, NoReq
  <2>. HIDE DEF q
  <2>. QED  BY <2>1, <2>3, FineBegin DEF OpNames
<1>2. ASSUME NEW a \in Apps, NEW p \in Products, Unsubscribe(r, a, p)
      PROVE  FineStep(r)
  <2>. DEFINE q == [NoReq EXCEPT !.pc = "route.product", !.app = a, !.prod = p]
  <2>1. Begin(r, "unsubscribe", q)
    BY <1>2 DEF Unsubscribe
  <2>2. q \in Request /\ q.extra = {} /\ q.allowed = {}
    BY NoReqType, Named DEF Request, NoReq
  <2>. HIDE DEF q
  <2>. QED  BY <2>1, <2>2, FineBegin DEF OpNames
<1>3. ASSUME NEW a \in Apps, NEW p \in Products, Reject(r, a, p)
      PROVE  FineStep(r)
  <2>. DEFINE id == subs[<<a, p>>].id
              q == [NoReq EXCEPT !.pc = "reject.set", !.app = a, !.prod = p, !.sub = id]
  <2>1. Begin(r, "reject", q)
    BY <1>3 DEF Reject
  <2>2. id \in Nat
    BY DEF TypeOK, SubRow
  <2>. HIDE DEF id
  <2>3. q \in Request /\ q.extra = {} /\ q.allowed = {}
    BY <2>2, NoReqType, Named DEF Request, NoReq
  <2>. HIDE DEF q
  <2>. QED  BY <2>1, <2>3, FineBegin DEF OpNames
<1>. QED  BY <1>1, <1>2, <1>3, ApproveFine, SubscriptionStepFine DEF SubscriptionNext

\* The products EnableSandbox lists are the application's active ones.
LEMMA EnableFine ==
    ASSUME TypeOK, RowInv, ActiveWasApproved, HistoryEffect, NEW r \in Requests, NEW a \in Apps,
           EnableSandbox(r, a)
    PROVE  FineStep(r)
<1>. DEFINE k == creds[a].sandboxKey
            ps == SandboxProductsForApp(a)
<1>1. PICK limit \in ActivePlanLimits(a) :
          Begin(r, "enableSandbox",
                [NoReq EXCEPT !.pc = "enable.consumer", !.app = a, !.limit = limit,
                              !.key = k, !.extra = {a}, !.todo = ps])
  BY DEF EnableSandbox
<1>2. \A p \in ps : Vouched(a, p)
  BY DEF SandboxProductsForApp, ActiveProducts, ActiveWasApproved, ActiveRow, Vouched
<1>. HIDE DEF k, ps
<1>. DEFINE q == [NoReq EXCEPT !.pc = "enable.consumer", !.app = a, !.limit = limit,
                               !.key = k, !.extra = {a}, !.todo = ps]
            s == [q EXCEPT !.op = "enableSandbox"]
<1>3. s.op = "enableSandbox" /\ s.extra = {a} /\ s.todo = ps /\ s.prod = None /\ s.allowed = {}
  BY NoReqType DEF NoReq
<1>4. req' = [req EXCEPT ![r] = s]
  BY <1>1 DEF Begin
<1>. HIDE DEF s
<1>5. Approving(s) /\ Carries(s)
  BY <1>2, <1>3, NoneIsNoRow DEF Approving, Carries
<1>. QED  BY <1>4, <1>5, FineMove

\* A step of the owner's other operations carries what is vouched for.
LEMMA OwnerStepFine ==
    ASSUME TypeOK, ShapeInv, ApprovingInv, CarriedInv, HistoryEffect, NEW r \in Requests,
           \/ RotateConsumer(r) \/ RotateSave(r) \/ EnableConsumer(r) \/ EnableSave(r)
           \/ OidcProducts(r)
           \/ DeleteNext(r) \/ DeleteCredential(r) \/ DeleteConsumer(r)
           \/ DeleteSandboxKey(r) \/ DeleteSandboxConsumer(r) \/ DeleteRow(r)
    PROVE  FineStep(r)
<1>1. req[r] \in Request /\ RequestShape(req[r]) /\ Carries(req[r])
  BY DEF TypeOK, ShapeInv, CarriedInv
<1>2. req[r].allowed = {}
  BY <1>1 DEF RequestShape, At, RotateConsumer, RotateSave, EnableConsumer, EnableSave,
              OidcProducts, DeleteNext, DeleteCredential, DeleteConsumer, DeleteSandboxKey,
              DeleteSandboxConsumer, DeleteRow
<1>3. CASE RotateConsumer(r) \/ EnableConsumer(r)
  <2>1. PICK pc \in {"rotate.save", "enable.save"}, k \in {nextKey, req[r].key} :
            req' = [req EXCEPT ![r] = [@ EXCEPT !.pc = pc, !.key = k]]
    BY <1>3 DEF RotateConsumer, EnableConsumer
  <2>. DEFINE q == [req[r] EXCEPT !.pc = pc, !.key = k]
  <2>2. /\ q.op = req[r].op /\ q.app = req[r].app /\ q.sub = req[r].sub /\ q.plan = req[r].plan
        /\ q.extra = req[r].extra /\ q.todo = req[r].todo /\ q.prod = req[r].prod /\ q.allowed = {}
    BY <1>1, <1>2 DEF Request
  <2>3. req' = [req EXCEPT ![r] = q]
    BY <2>1
  <2>. HIDE DEF q
  <2>. QED  BY <2>2, <2>3, FineOn
<1>4. CASE \/ RotateSave(r) \/ EnableSave(r) \/ DeleteCredential(r) \/ DeleteConsumer(r)
           \/ DeleteSandboxKey(r) \/ DeleteSandboxConsumer(r) \/ DeleteRow(r)
  <2>1. \/ Finish(r) \/ NextInTodo(r, "sandbox.product")
        \/ \E pc \in PcNames : Goto(r, pc)
    BY <1>4 DEF RotateSave, EnableSave, DeleteCredential, DeleteConsumer, DeleteSandboxKey,
                DeleteSandboxConsumer, DeleteRow, PcNames
  <2>. QED  BY <1>2, <2>1, FineFinish, FineGoto, FineNextInTodo
<1>5. CASE OidcProducts(r)
  <2>1. req[r].op = "setOidc" /\ req[r].extra = {}
    BY <1>1, <1>5 DEF OidcProducts, At, RequestShape, MayBeAt, Carries
  <2>2. ASSUME NEW p \in OAuthProductsForApp(req[r].app),
               req' = [req EXCEPT ![r] = [@ EXCEPT !.pc = "route.product", !.prod = p,
                          !.todo = OAuthProductsForApp(req[r].app) \ {p}]]
        PROVE  FineStep(r)
    <3>. DEFINE ps == OAuthProductsForApp(req[r].app) \ {p}
                q == [req[r] EXCEPT !.pc = "route.product", !.prod = p, !.todo = ps]
    <3>1. req' = [req EXCEPT ![r] = q]
      BY <2>2
    <3>. HIDE DEF ps
    <3>2. q.op = "setOidc" /\ q.extra = {} /\ q.allowed = {}
      BY <1>1, <1>2, <2>1 DEF Request
    <3>. HIDE DEF q
    <3>3. Approving(q) /\ Carries(q)
      BY <3>2 DEF Approving, Carries
    <3>. QED  BY <3>1, <3>3, FineMove
  <2>. QED  BY <1>5, <2>2, FineFinish DEF OidcProducts
<1>6. CASE DeleteNext(r)
  <2>1. PICK p \in req[r].todo :
            req' = [req EXCEPT ![r] = [@ EXCEPT !.pc = "route.product", !.prod = p,
                                                !.todo = req[r].todo \ {p}]]
    BY <1>6 DEF DeleteNext
  <2>. DEFINE q == [req[r] EXCEPT !.pc = "route.product", !.prod = p, !.todo = req[r].todo \ {p}]
  <2>2. /\ q.op = req[r].op /\ q.app = req[r].app /\ q.sub = req[r].sub /\ q.plan = req[r].plan
        /\ q.extra = req[r].extra /\ q.todo = req[r].todo \ {p} /\ q.prod = p /\ q.allowed = {}
    BY <1>1, <1>2 DEF Request
  <2>3. req' = [req EXCEPT ![r] = q]
    BY <2>1
  <2>. HIDE DEF q
  <2>. QED  BY <2>2, <2>3, FineOn
<1>. QED  BY <1>3, <1>4, <1>5, <1>6

\* The owner's other operations carry what is vouched for.
LEMMA CredentialsFine ==
    ASSUME TypeOK, ShapeInv, RowInv, ApprovingInv, CarriedInv, ActiveWasApproved, HistoryEffect,
           NEW r \in Requests, CredentialsNext(r)
    PROVE  FineStep(r)
<1>1. ASSUME NEW a \in Apps, Rotate(r, a) \/ RotateSandbox(r, a)
      PROVE  FineStep(r)
  <2>1. PICK limit \in ActivePlanLimits(a), op \in {"rotate", "rotateSandbox"} :
            Begin(r, op, [NoReq EXCEPT !.pc = "rotate.consumer", !.app = a, !.limit = limit])
    BY <1>1 DEF Rotate, RotateSandbox
  <2>. DEFINE q == [NoReq EXCEPT !.pc = "rotate.consumer", !.app = a, !.limit = limit]
  <2>2. q \in Request /\ q.extra = {} /\ q.allowed = {}
    BY NoReqType, ActivePlanLimitsType, Named DEF Request, NoReq
  <2>3. Begin(r, op, q)
    BY <2>1
  <2>. HIDE DEF q
  <2>. QED  BY <2>2, <2>3, FineBegin DEF OpNames
<1>2. ASSUME NEW a \in Apps, NEW c \in ClientIds \cup {None}, SetOidc(r, a, c)
      PROVE  FineStep(r)
  <2>. DEFINE q == [NoReq EXCEPT !.pc = "oidc.products", !.app = a]
  <2>1. Begin(r, "setOidc", q)
    BY <1>2 DEF SetOidc
  <2>2. q \in Request /\ q.extra = {} /\ q.allowed = {}
    BY NoReqType, Named DEF Request, NoReq
  <2>. HIDE DEF q
  <2>. QED  BY <2>1, <2>2, FineBegin DEF OpNames
<1>3. ASSUME NEW a \in Apps, DeleteApp(r, a)
      PROVE  FineStep(r)
  <2>. DEFINE ps == SubscriptionsForApp(a)
              q == [NoReq EXCEPT !.pc = "delete.next", !.app = a, !.todo = ps]
  <2>1. Begin(r, "deleteApp", q) /\ ps \subseteq Products
    BY <1>3 DEF DeleteApp, SubscriptionsForApp
  <2>. HIDE DEF ps
  <2>2. q \in Request /\ q.extra = {} /\ q.allowed = {}
    BY <2>1, NoReqType, Named DEF Request, NoReq
  <2>. HIDE DEF q
  <2>. QED  BY <2>1, <2>2, FineBegin DEF OpNames
<1>. QED  BY <1>1, <1>2, <1>3, EnableFine, OwnerStepFine DEF CredentialsNext

\* Product administration names nobody of its own.
LEMMA ProductFine ==
    ASSUME TypeOK, ShapeInv, ApprovingInv, CarriedInv, HistoryEffect, NEW r \in Requests,
           ProductNext(r)
    PROVE  FineStep(r)
<1>1. ASSUME NEW p \in Products, NEW row \in Edits, NEW moved \in SUBSET {"upstream", "sandbox"},
             UpdateProduct(r, p, row, moved)
      PROVE  FineStep(r)
  <2>1. PICK w : /\ w \subseteq {"count", "route", "sandbox"}
                 /\ Begin(r, "updateProduct", [NoReq EXCEPT !.pc = "product.save", !.prod = p,
                                                            !.row = row, !.work = w])
    <3>. DEFINE old == products[p]
                migrates == row.auth = "oauth2" /\ old.auth # "oauth2"
                rebuilds == "upstream" \in moved \/ row.auth # old.auth
                counted == migrates /\ ActiveApps(p) # {}
                w == (moved \cap {"sandbox"})
                         \cup (IF rebuilds /\ ~migrates THEN {"count"} ELSE {})
                         \cup (IF rebuilds /\ counted THEN {"route"} ELSE {})
    <3>1. w \subseteq {"count", "route", "sandbox"}
      OBVIOUS
    <3>2. Begin(r, "updateProduct",
                [NoReq EXCEPT !.pc = "product.save", !.prod = p, !.row = row, !.work = w])
      BY <1>1 DEF UpdateProduct
    <3>. HIDE DEF w
    <3>. QED  BY <3>1, <3>2
  <2>. DEFINE q == [NoReq EXCEPT !.pc = "product.save", !.prod = p, !.row = row, !.work = w]
  <2>2. q \in Request /\ q.extra = {} /\ q.allowed = {}
    BY <2>1, NoReqType, EditsType, Named DEF Request, NoReq
  <2>3. Begin(r, "updateProduct", q)
    BY <2>1
  <2>. HIDE DEF q
  <2>. QED  BY <2>2, <2>3, FineBegin DEF OpNames
<1>2. ASSUME NEW p \in Products, DeleteProduct(r, p)
      PROVE  FineStep(r)
  <2>. DEFINE q == [NoReq EXCEPT !.pc = "product.delete", !.prod = p]
  <2>1. Begin(r, "deleteProduct", q)
    BY <1>2 DEF DeleteProduct
  <2>2. q \in Request /\ q.extra = {} /\ q.allowed = {}
    BY NoReqType, Named DEF Request, NoReq
  <2>. HIDE DEF q
  <2>. QED  BY <2>1, <2>2, FineBegin DEF OpNames
<1>3. CASE ProductSave(r) \/ ProductCount(r) \/ ProductDelete(r) \/ ProductDeprovision(r)
  <2>1. req[r].allowed = {}
    BY <1>3 DEF ShapeInv, RequestShape, At, ProductSave, ProductCount, ProductDelete,
                ProductDeprovision
  <2>2. Finish(r) \/ \E pc \in PcNames : Goto(r, pc)
    BY <1>3 DEF ProductSave, ProductCount, ProductDelete, ProductDeprovision, Remaining, PcNames
  <2>. QED  BY <2>1, <2>2, FineFinish, FineGoto
<1>. QED  BY <1>1, <1>2, <1>3 DEF ProductNext

\* Plan administration admits nobody.
LEMMA PlanFine ==
    ASSUME TypeOK, ShapeInv, ApprovingInv, CarriedInv, HistoryEffect, NEW r \in Requests, PlanNext(r)
    PROVE  FineStep(r)
<1>1. req[r] \in Request
  BY DEF TypeOK
<1>2. ASSUME NEW pl \in Plans, UpdatePlan(r, pl)
      PROVE  FineStep(r)
  <2>. DEFINE limit == plans[pl].limit
              q == [NoReq EXCEPT !.pc = "plan.save", !.plan = pl, !.limit = limit]
  <2>1. limit \in Nat /\ Begin(r, "updatePlan", q)
    BY <1>2 DEF UpdatePlan, TypeOK, PlanRow
  <2>. HIDE DEF limit
  <2>2. q \in Request /\ q.extra = {} /\ q.allowed = {}
    BY <2>1, NoReqType, Named DEF Request, NoReq
  <2>. HIDE DEF q
  <2>. QED  BY <2>1, <2>2, FineBegin DEF OpNames
<1>3. ASSUME NEW pl \in Plans, DeletePlan(r, pl)
      PROVE  FineStep(r)
  <2>. DEFINE q == [NoReq EXCEPT !.pc = "plan.delete", !.plan = pl]
  <2>1. Begin(r, "deletePlan", q)
    BY <1>3 DEF DeletePlan
  <2>2. q \in Request /\ q.extra = {} /\ q.allowed = {}
    BY NoReqType, Named DEF Request, NoReq
  <2>. HIDE DEF q
  <2>. QED  BY <2>1, <2>2, FineBegin DEF OpNames
<1>4. ASSUME \/ PlanSave(r) \/ PlanRead(r) \/ PlanConsumers(r) \/ PlanPush(r)
             \/ PlanSandboxConsumers(r) \/ PlanSandboxPush(r) \/ PlanDelete(r)
      PROVE  req[r].allowed = {}
  BY <1>4 DEF ShapeInv, RequestShape, At, PlanSave, PlanRead, PlanConsumers, PlanPush,
              PlanSandboxConsumers, PlanSandboxPush, PlanDelete
<1>5. CASE PlanSave(r) \/ PlanDelete(r)
  <2>1. Finish(r) \/ Goto(r, "plan.read")
    BY <1>5 DEF PlanSave, PlanDelete
  <2>. QED  BY <1>4, <1>5, <2>1, FineFinish, FineGoto
<1>6. CASE PlanRead(r)
  <2>. DEFINE limit == plans[req[r].plan].limit
              q == [req[r] EXCEPT !.pc = "plan.consumers", !.limit = limit]
  <2>1. Finish(r) \/ req' = [req EXCEPT ![r] = q]
    BY <1>6 DEF PlanRead
  <2>. HIDE DEF limit
  <2>2. /\ q.op = req[r].op /\ q.app = req[r].app /\ q.sub = req[r].sub /\ q.plan = req[r].plan
        /\ q.extra = req[r].extra /\ q.todo = req[r].todo /\ q.prod = req[r].prod /\ q.allowed = {}
    BY <1>1, <1>4, <1>6 DEF Request
  <2>. HIDE DEF q
  <2>. QED  BY <2>1, <2>2, FineOn, FineFinish
<1>7. CASE PlanConsumers(r) \/ PlanPush(r) \/ PlanSandboxConsumers(r) \/ PlanSandboxPush(r)
  <2>1. PICK keys : PushRest(r, keys) \/ SandboxPushRest(r, keys)
    BY <1>7 DEF PlanConsumers, PlanPush, PlanSandboxConsumers, PlanSandboxPush
  <2>2. ASSUME NEW pc, req' = [req EXCEPT ![r] = [@ EXCEPT !.pc = pc, !.keys = keys]]
        PROVE  FineStep(r)
    <3>. DEFINE q == [req[r] EXCEPT !.pc = pc, !.keys = keys]
    <3>1. /\ q.op = req[r].op /\ q.app = req[r].app /\ q.sub = req[r].sub /\ q.plan = req[r].plan
          /\ q.extra = req[r].extra /\ q.todo = req[r].todo /\ q.prod = req[r].prod /\ q.allowed = {}
      BY <1>1, <1>4, <1>7 DEF Request
    <3>2. req' = [req EXCEPT ![r] = q]
      BY <2>2
    <3>. HIDE DEF q
    <3>. QED  BY <3>1, <3>2, FineOn
  <2>. QED  BY <2>1, <2>2, FineFinish DEF PushRest, SandboxPushRest
<1>. QED  BY <1>2, <1>3, <1>5, <1>6, <1>7 DEF PlanNext

\* Every step leaves all requests with recorded approvals and vouched lists.
LEMMA RequestsFine ==
    ASSUME BaseInv, ApprovingInv, CarriedInv, ClaimInv, ActiveWasApproved, HistoryEffect,
           [Next]_vars
    PROVE  ApprovingInv' /\ CarriedInv'
<1>1. ASSUME NEW r \in Requests, req'[r] = req[r]
      PROVE  (Approving(req[r]) /\ Carries(req[r]))'
  <2>1. PICK q : q = req[r]
    OBVIOUS
  <2>2. Approving(q) /\ Carries(q)
    BY <2>1 DEF ApprovingInv, CarriedInv
  <2>3. Approving(q)' /\ Carries(q)'
    BY <2>2, StillFine DEF BaseInv
  <2>. QED  BY <1>1, <2>1, <2>3 DEF Approving, Carries
<1>2. CASE UNCHANGED req
  BY <1>1, <1>2 DEF ApprovingInv, CarriedInv
<1>3. ASSUME NEW r \in Requests, FineStep(r)
      PROVE  ApprovingInv' /\ CarriedInv'
  <2>1. ASSUME NEW o \in Requests, o # r PROVE req'[o] = req[o]
    BY <1>3, <2>1 DEF FineStep, BaseInv, TypeOK
  <2>2. ASSUME NEW o \in Requests
        PROVE  (Approving(req[o]) /\ Carries(req[o]))'
    BY <1>1, <1>3, <2>1 DEF FineStep
  <2>. QED  BY <2>2 DEF ApprovingInv, CarriedInv
<1>4. UNCHANGED req \/ \E r \in Requests : Step(r) \/ Fail(r)
  BY DEF Next, BillingNext, MarkPaid, Void, Settle, CreatePlan, vars
<1>5. ASSUME NEW r \in Requests, Step(r) \/ Fail(r)
      PROVE  FineStep(r)
  BY <1>5, RouteFine, SubscriptionFine, CredentialsFine, ProductFine, PlanFine, FineFinish
  DEF BaseInv, Step, Fail
<1>. QED  BY <1>2, <1>3, <1>4, <1>5

-----------------------------------------------------------------------------
(* Approvals *)

\* A row's id is its old one or, in a new row, the next of the sequence.
LEMMA RowIds ==
    ASSUME TypeOK, SubsEffect, NEW x \in Apps \X Products
    PROVE  subs'[x].id \in {0, subs[x].id, nextSub} /\ nextSub' \in Nat /\ nextSub <= nextSub'
<1>1. CASE UNCHANGED <<subs, nextSub>>
  BY <1>1 DEF TypeOK
<1>2. ASSUME NEW a \in Apps, NEW p \in Products, NEW pl \in Plans, SaveSubscription(a, p, pl)
      PROVE  subs'[x].id \in {0, subs[x].id, nextSub} /\ nextSub' \in Nat /\ nextSub <= nextSub'
  <2>. DEFINE z == <<a, p>>
              new == [id |-> nextSub, plan |-> pl, status |-> "pending"]
              row == [subs[z] EXCEPT !.plan = pl, !.status = "pending"]
  <2>1. z \in Apps \X Products /\ new.id = nextSub /\ row.id = subs[z].id
    BY DEF TypeOK, SubRow
  <2>2. \/ subs' = [subs EXCEPT ![z] = new] /\ nextSub' = nextSub + 1
        \/ subs' = [subs EXCEPT ![z] = row] /\ nextSub' = nextSub
    BY <1>2 DEF SaveSubscription
  <2>. HIDE DEF z, new, row
  <2>. QED  BY <2>1, <2>2 DEF TypeOK
<1>3. ASSUME NEW D \in SUBSET (Apps \X Products), EraseRows(D), UNCHANGED nextSub
      PROVE  subs'[x].id \in {0, subs[x].id, nextSub} /\ nextSub' \in Nat /\ nextSub <= nextSub'
  BY <1>3 DEF EraseRows, NoSub, TypeOK
<1>4. ASSUME NEW id, NEW s, SetSubscriptionStatus(id, s), UNCHANGED nextSub
      PROVE  subs'[x].id \in {0, subs[x].id, nextSub} /\ nextSub' \in Nat /\ nextSub <= nextSub'
  <2>1. [subs[x] EXCEPT !.status = s].id = subs[x].id
    BY DEF TypeOK, SubRow
  <2>2. subs'[x].id = subs[x].id
    BY <1>4, <2>1 DEF SetSubscriptionStatus
  <2>. QED  BY <1>4, <2>2 DEF TypeOK
<1>5. apps \subseteq Apps
  BY DEF TypeOK
<1>. QED  BY <1>1, <1>2, <1>3, <1>4, <1>5 DEF SubsEffect, Erases, Saves, Rejects, Activates

\* An approved id stays with its pair: ids are never reused.
LEMMA ApprovalsPreserved ==
    ASSUME TypeOK, RowInv, ApprovalInv, SubsEffect, HistoryEffect
    PROVE  ApprovalInv'
<1>1. ASSUME NEW ap \in approvals
      PROVE  /\ ap.sub # 0 /\ ap.sub < nextSub'
             /\ \A x \in Apps \X Products : subs'[x].id = ap.sub => x = <<ap.app, ap.prod>>
  <2>1. /\ ap.sub \in Nat /\ ap.sub # 0 /\ ap.sub < nextSub /\ nextSub \in Nat
        /\ \A x \in Apps \X Products : subs[x].id = ap.sub => x = <<ap.app, ap.prod>>
    BY DEF ApprovalInv, TypeOK, Approval
  <2>2. ap.sub < nextSub'
    <3>1. <<ap.app, ap.prod>> \in Apps \X Products
      BY DEF TypeOK, Approval
    <3>. QED  BY <2>1, <3>1, RowIds
  <2>. QED  BY <2>1, <2>2, RowIds
<1>2. ASSUME NEW ap \in approvals' \ approvals
      PROVE  /\ ap.sub # 0 /\ ap.sub < nextSub'
             /\ \A x \in Apps \X Products : subs'[x].id = ap.sub => x = <<ap.app, ap.prod>>
  <2>1. PICK y \in Apps \X Products :
            /\ subs[y] # NoSub
            /\ ap = [app |-> y[1], prod |-> y[2], sub |-> subs[y].id, plan |-> subs[y].plan]
    BY DEF HistoryEffect
  <2>2. UNCHANGED <<subs, nextSub>>
    BY DEF HistoryEffect
  <2>3. y = <<ap.app, ap.prod>> /\ ap.sub = subs[y].id
    BY <2>1
  <2>4. ap.sub # 0 /\ ap.sub < nextSub
    BY <2>1, <2>3 DEF RowInv
  <2>5. \A x \in Apps \X Products : subs[x].id = ap.sub => x = y
    BY <2>3, <2>4 DEF RowInv
  <2>. QED  BY <2>2, <2>3, <2>4, <2>5
<1>. QED  BY <1>1, <1>2 DEF ApprovalInv

\* The client id an application has is one it registered.
LEMMA ClaimsPreserved ==
    ASSUME TypeOK, ClaimInv, HistoryEffect
    PROVE  ClaimInv'
BY DEF ClaimInv, HistoryEffect, TypeOK

\* Only an approval in progress activates a row, and it activates the row of the
\* id it read.
LEMMA ActivePreserved ==
    ASSUME TypeOK, ApprovalInv, ApprovingInv, ActiveWasApproved, SubsEffect, HistoryEffect
    PROVE  ActiveWasApproved'
<1>. DEFINE Approved(x, id) == \E ap \in approvals : ap.app = x[1] /\ ap.prod = x[2] /\ ap.sub = id
<1>1. ASSUME NEW x \in Apps \X Products, subs'[x].status = "active"
      PROVE  Approved(x, subs'[x].id)
  <2>0. subs[x].status = "active" => Approved(x, subs[x].id)
    BY DEF ActiveWasApproved, ActiveRow
  <2>1. CASE UNCHANGED subs
    BY <1>1, <2>0, <2>1
  <2>2. ASSUME NEW a \in Apps, NEW p \in Products, NEW pl \in Plans, SaveSubscription(a, p, pl)
        PROVE  Approved(x, subs'[x].id)
    <3>. DEFINE z == <<a, p>>
                new == [id |-> nextSub, plan |-> pl, status |-> "pending"]
                row == [subs[z] EXCEPT !.plan = pl, !.status = "pending"]
    <3>1. z \in Apps \X Products /\ new.status = "pending" /\ row.status = "pending"
      BY DEF TypeOK, SubRow
    <3>2. subs' = [subs EXCEPT ![z] = new] \/ subs' = [subs EXCEPT ![z] = row]
      BY <2>2 DEF SaveSubscription
    <3>. HIDE DEF z, new, row
    <3>3. subs'[x] = subs[x]
      BY <1>1, <3>1, <3>2 DEF TypeOK
    <3>. QED  BY <1>1, <2>0, <3>3
  <2>3. ASSUME NEW D \in SUBSET (Apps \X Products), EraseRows(D)
        PROVE  Approved(x, subs'[x].id)
    <3>1. subs'[x] = subs[x]
      BY <1>1, <2>3 DEF EraseRows, NoSub
    <3>. QED  BY <1>1, <2>0, <3>1
  <2>4. ASSUME NEW id, SetSubscriptionStatus(id, "rejected")
        PROVE  Approved(x, subs'[x].id)
    <3>1. [subs[x] EXCEPT !.status = "rejected"].status = "rejected"
      BY DEF TypeOK, SubRow
    <3>2. subs'[x] = subs[x]
      BY <1>1, <2>4, <3>1 DEF SetSubscriptionStatus
    <3>. QED  BY <1>1, <2>0, <3>2
  <2>5. ASSUME NEW r \in Requests, req[r].op = "approve", SetSubscriptionStatus(req[r].sub, "active")
        PROVE  Approved(x, subs'[x].id)
    <3>1. CASE ~IsSubscription(x, req[r].sub)
      <4>1. subs'[x] = subs[x]
        BY <2>5, <3>1 DEF SetSubscriptionStatus
      <4>. QED  BY <1>1, <2>0, <4>1
    <3>2. CASE IsSubscription(x, req[r].sub)
      <4>1. [subs[x] EXCEPT !.status = "active"].id = subs[x].id
        BY DEF TypeOK, SubRow
      <4>2. subs'[x].id = subs[x].id /\ subs[x].id = req[r].sub
        BY <2>5, <3>2, <4>1 DEF SetSubscriptionStatus, IsSubscription
      <4>3. PICK ap \in approvals : ap.sub = req[r].sub
        BY <2>5 DEF ApprovingInv, Approving
      <4>4. x = <<ap.app, ap.prod>>
        BY <4>2, <4>3 DEF ApprovalInv
      <4>. QED  BY <4>2, <4>3, <4>4
    <3>. QED  BY <3>1, <3>2
  <2>6. apps \subseteq Apps
    BY DEF TypeOK
  <2>. QED  BY <2>1, <2>2, <2>3, <2>4, <2>5, <2>6 DEF SubsEffect, Erases, Saves, Rejects, Activates
<1>2. ASSUME NEW a \in Apps, NEW p \in Products, subs'[<<a, p>>].status = "active"
      PROVE  \E ap \in approvals' : ap.app = a /\ ap.prod = p /\ ap.sub = subs'[<<a, p>>].id
  <2>1. Approved(<<a, p>>, subs'[<<a, p>>].id)
    BY <1>1, <1>2
  <2>. QED  BY <2>1 DEF HistoryEffect
<1>. QED  BY <1>2 DEF ActiveWasApproved, ActiveRow

-----------------------------------------------------------------------------
(* Plans *)

\* A row is saved on a live plan and keeps its plan; a plan somebody is on is kept.
LEMMA PlansPreserved ==
    ASSUME TypeOK, RowInv, PlanOutlivesSubscriptions, PlansEffect, SubsEffect
    PROVE  PlanOutlivesSubscriptions'
<1>. DEFINE OnLive(row) == row # NoSub => plans[row.plan].state = "live"
<1>0. \A x \in Apps \X Products : OnLive(subs[x])
  BY DEF PlanOutlivesSubscriptions
<1>1. ASSUME NEW x \in Apps \X Products PROVE OnLive(subs'[x])
  <2>1. CASE UNCHANGED subs
    BY <1>0, <2>1
  <2>2. ASSUME NEW a \in Apps, NEW p \in Products, NEW pl \in Plans, plans[pl].state = "live",
               SaveSubscription(a, p, pl)
        PROVE  OnLive(subs'[x])
    <3>. DEFINE z == <<a, p>>
                new == [id |-> nextSub, plan |-> pl, status |-> "pending"]
                row == [subs[z] EXCEPT !.plan = pl, !.status = "pending"]
    <3>1. z \in Apps \X Products /\ new.plan = pl /\ row.plan = pl
      BY DEF TypeOK, SubRow
    <3>2. subs' = [subs EXCEPT ![z] = new] \/ subs' = [subs EXCEPT ![z] = row]
      BY <2>2 DEF SaveSubscription
    <3>. HIDE DEF z, new, row
    <3>3. subs'[x] = subs[x] \/ subs'[x].plan = pl
      BY <3>1, <3>2 DEF TypeOK
    <3>. QED  BY <1>0, <2>2, <3>3
  <2>3. ASSUME NEW D \in SUBSET (Apps \X Products), EraseRows(D)
        PROVE  OnLive(subs'[x])
    BY <1>0, <2>3 DEF EraseRows
  <2>4. ASSUME NEW id, NEW s, SetSubscriptionStatus(id, s)
        PROVE  OnLive(subs'[x])
    <3>1. [subs[x] EXCEPT !.status = s].plan = subs[x].plan
      BY DEF TypeOK, SubRow
    <3>. QED  BY <1>0, <2>4, <3>1 DEF SetSubscriptionStatus, IsSubscription
  <2>5. apps \subseteq Apps
    BY DEF TypeOK
  <2>. QED  BY <2>1, <2>2, <2>3, <2>4, <2>5 DEF SubsEffect, Erases, Saves, Rejects, Activates
<1>2. CASE UNCHANGED plans
  BY <1>1, <1>2 DEF PlanOutlivesSubscriptions
<1>3. CASE /\ UNCHANGED subs
           /\ \A pl \in Plans : plans[pl].state = "live" =>
                  plans'[pl].state = "live" \/ ~PlanReferenced(pl)
  <2>1. ASSUME NEW x \in Apps \X Products, subs[x] # NoSub
        PROVE  plans'[subs[x].plan].state = "live"
    <3>1. plans[subs[x].plan].state = "live" /\ PlanReferenced(subs[x].plan)
      BY <1>0, <2>1 DEF PlanReferenced
    <3>2. subs[x].plan \in Plans
      BY <2>1 DEF RowInv
    <3>. QED  BY <1>3, <3>1, <3>2
  <2>. QED  BY <1>3, <2>1 DEF PlanOutlivesSubscriptions
<1>. QED  BY <1>2, <1>3 DEF PlansEffect

-----------------------------------------------------------------------------
(* Routes and invoices *)

\* A route gets the list its request carries, which is vouched for.
LEMMA RoutesPreserved ==
    ASSUME TypeOK, CarriedInv, NoGrantWithoutApproval, RoutesEffect, HistoryEffect
    PROVE  NoGrantWithoutApproval'
<1>1. ASSUME NEW e \in Envs, NEW p \in Products, NEW i \in routes'[e][p].allowed
      PROVE  Vouched(i, p)
  <2>0. i \in routes[e][p].allowed => Vouched(i, p)
    BY DEF NoGrantWithoutApproval
  <2>1. CASE UNCHANGED routes
    BY <1>1, <2>0, <2>1
  <2>2. ASSUME NEW env \in Envs, NEW z \in Products, DeleteRoute(env, z)
        PROVE  Vouched(i, p)
    <3>1. i \in routes[e][p].allowed
      BY <1>1, <2>2 DEF DeleteRoute, NoRoute, TypeOK
    <3>. QED  BY <2>0, <3>1
  <2>3. ASSUME NEW env \in Envs, NEW r \in Requests, NEW kind, req[r].prod \in Products,
               PutRoute(env, req[r].prod, kind, req[r].allowed)
        PROVE  Vouched(i, p)
    <3>. DEFINE o == [kind |-> kind, allowed |-> req[r].allowed]
    <3>1. routes' = [routes EXCEPT ![env] = [@ EXCEPT ![req[r].prod] = o]] /\ o.allowed = req[r].allowed
      BY <2>3 DEF PutRoute
    <3>. HIDE DEF o
    <3>2. i \in routes[e][p].allowed \/ (p = req[r].prod /\ i \in req[r].allowed)
      BY <1>1, <2>3, <3>1 DEF TypeOK
    <3>. QED  BY <2>0, <3>2 DEF CarriedInv, Carries
  <2>. QED  BY <2>1, <2>2, <2>3 DEF RoutesEffect
<1>2. ASSUME NEW e \in Envs, NEW p \in Products, NEW i \in routes'[e][p].allowed
      PROVE  Vouched(i, p)'
  BY <1>1, StillVouched
<1>. QED  BY <1>2 DEF NoGrantWithoutApproval

\* An invoice gets the subscription and the plan its approval recorded.
LEMMA BillsPreserved ==
    ASSUME TypeOK, ShapeInv, ApprovingInv, InvoiceForApprovedPlan, InvoicesEffect, HistoryEffect
    PROVE  InvoiceForApprovedPlan'
<1>. DEFINE Billed(i) == i.sub # 0 => \E ap \in approvals : ap.sub = i.sub /\ ap.plan = i.plan
<1>0. \A n \in DOMAIN invoices : Billed(invoices[n])
  BY DEF InvoiceForApprovedPlan
<1>1. /\ DOMAIN invoices = 1..Len(invoices) /\ Len(invoices) \in Nat
      /\ \A n \in DOMAIN invoices : invoices[n] \in InvoiceRow
  BY DEF TypeOK
<1>2. \A n \in DOMAIN invoices' : Billed(invoices'[n])
  <2>1. CASE UNCHANGED invoices
    BY <1>0, <2>1
  <2>2. ASSUME NEW ids, DetachInvoices(ids), NEW n \in DOMAIN invoices'
        PROVE  Billed(invoices'[n])
    <3>1. n \in DOMAIN invoices /\ invoices[n] \in InvoiceRow
      BY <1>1, <2>2 DEF DetachInvoices
    <3>2. [invoices[n] EXCEPT !.sub = 0].sub = 0
      BY <3>1 DEF InvoiceRow
    <3>3. invoices'[n] = invoices[n] \/ invoices'[n].sub = 0
      BY <2>2, <3>1, <3>2 DEF DetachInvoices
    <3>. QED  BY <1>0, <3>1, <3>3
  <2>3. ASSUME NEW r \in Requests, req[r].op = "approve",
               invoices' = Append(invoices,
                  [sub |-> req[r].sub, plan |-> req[r].plan, status |-> "pending"]),
               NEW n \in DOMAIN invoices'
        PROVE  Billed(invoices'[n])
    <3>. DEFINE i == [sub |-> req[r].sub, plan |-> req[r].plan, status |-> "pending"]
    <3>1. Billed(i)
      BY <2>3 DEF ApprovingInv, Approving
    <3>2. i \in InvoiceRow
      BY <2>3 DEF TypeOK, Request, ShapeInv, RequestShape, InvoiceRow
    <3>3. invoices' = Append(invoices, i)
      BY <2>3
    <3>. HIDE DEF i
    <3>4. (n \in DOMAIN invoices /\ invoices'[n] = invoices[n]) \/ invoices'[n] = i
      BY <1>1, <2>3, <3>2, <3>3 DEF TypeOK
    <3>. QED  BY <1>0, <3>1, <3>4
  <2>4. ASSUME NEW m \in DOMAIN invoices, NEW s,
               invoices' = [invoices EXCEPT ![m].status = s], NEW n \in DOMAIN invoices'
        PROVE  Billed(invoices'[n])
    <3>. DEFINE j == [invoices[m] EXCEPT !.status = s]
    <3>1. j.sub = invoices[m].sub /\ j.plan = invoices[m].plan
      BY <1>1 DEF InvoiceRow
    <3>2. invoices' = [invoices EXCEPT ![m] = j]
      BY <2>4
    <3>. HIDE DEF j
    <3>3. /\ n \in DOMAIN invoices
          /\ invoices'[n].sub = invoices[n].sub /\ invoices'[n].plan = invoices[n].plan
      BY <2>4, <3>1, <3>2
    <3>. QED  BY <1>0, <3>3
  <2>. QED  BY <2>1, <2>2, <2>3, <2>4 DEF InvoicesEffect, Erases, Bills
<1>. QED  BY <1>2 DEF InvoiceForApprovedPlan, HistoryEffect

-----------------------------------------------------------------------------
(* The inductive invariant *)

\* The invariant holds at the start ...
LEMMA InitIInv == Init => IInv
<1>. SUFFICES ASSUME Init PROVE IInv
  OBVIOUS
<1>1. BaseInv
  BY InitBase
<1>2. Approving(NoReq) /\ Carries(NoReq)
  BY NoReqType DEF Approving, Carries
<1>3. ApprovingInv /\ CarriedInv
  BY <1>2 DEF Init, ApprovingInv, CarriedInv
<1>4. ApprovalInv /\ ClaimInv /\ ActiveWasApproved /\ NoGrantWithoutApproval
  BY DEF Init, ApprovalInv, ClaimInv, ActiveWasApproved, ActiveRow, NoSub, NoGrantWithoutApproval,
         NoRoute
<1>5. InvoiceForApprovedPlan /\ PlanOutlivesSubscriptions
  BY DEF Init, InvoiceForApprovedPlan, PlanOutlivesSubscriptions
<1>. QED  BY <1>1, <1>3, <1>4, <1>5 DEF BaseInv, IInv

\* ... and every step keeps it.
LEMMA NextIInv == IInv /\ [Next]_vars => IInv'
<1>. SUFFICES ASSUME IInv, [Next]_vars PROVE IInv'
  OBVIOUS
<1>1. BaseInv /\ BaseInv'
  BY NextBase DEF IInv, BaseInv
<1>2. /\ PlansEffect /\ SubsEffect /\ InvoicesEffect /\ RoutesEffect /\ HistoryEffect
  BY NextEffect DEF IInv, Effect
<1>3. ApprovingInv' /\ CarriedInv'
  BY <1>1, <1>2, RequestsFine DEF IInv
<1>4. ApprovalInv' /\ ClaimInv' /\ ActiveWasApproved' /\ PlanOutlivesSubscriptions'
  BY <1>2, ApprovalsPreserved, ClaimsPreserved, ActivePreserved, PlansPreserved DEF IInv
<1>5. NoGrantWithoutApproval' /\ InvoiceForApprovedPlan'
  BY <1>2, RoutesPreserved, BillsPreserved DEF IInv
<1>. QED  BY <1>1, <1>3, <1>4, <1>5 DEF BaseInv, IInv

\* The inductive invariant: types, locals and rows; approvals bound to ids; what
\* requests carry; and the three properties it is there to prove.
THEOREM Invariance == Spec => []IInv
BY InitIInv, NextIInv, PTL DEF Spec

\* A subscription is active only if an admin approved that very row, for any
\* number of requests in progress, applications, products and plans.
THEOREM ActivationIsApproved == Spec => []ActiveWasApproved
<1>1. IInv => ActiveWasApproved
  BY DEF IInv
<1>. QED  BY <1>1, Invariance, PTL

\* No route of either gateway admits a consumer or a client id that no admin ever
\* approved for the product, however stale the list a handler pushes is and
\* wherever the handlers before it failed.  One approved once, and rejected since,
\* a stale list may still admit.
THEOREM GrantIsApproved == Spec => []NoGrantWithoutApproval
<1>1. IInv => NoGrantWithoutApproval
  BY DEF IInv
<1>. QED  BY <1>1, Invariance, PTL

\* No plan is deleted from under a subscription, pending ones included, however a
\* deletion overlaps Subscribe and the other deletions.
THEOREM ReferencedPlanStays == Spec => []PlanOutlivesSubscriptions
<1>1. IInv => PlanOutlivesSubscriptions
  BY DEF IInv
<1>. QED  BY <1>1, Invariance, PTL

\* An invoice bills the plan an admin approved for its subscription, even when
\* the subscription is resubmitted on another plan while it is billed.
THEOREM InvoiceIsApproved == Spec => []InvoiceForApprovedPlan
<1>1. IInv => InvoiceForApprovedPlan
  BY DEF IInv
<1>. QED  BY <1>1, Invariance, PTL

=============================================================================
