---------------------------- MODULE LifeCycleProofs ----------------------------
(***************************************************************************)
(* Proofs about the life cycle of subscriptions, plans and invoices: what  *)
(* holds as long as certain requests about one row do not overlap.  Each   *)
(* theorem names the overlap it excludes; everything else interleaves.     *)
(***************************************************************************)
EXTENDS PortalProofs

-----------------------------------------------------------------------------
(* How a step changes the locals of its request *)

\* The locals that the subroutines and the loops leave alone.
Same(q, s) ==
    /\ s.op = q.op /\ s.app = q.app /\ s.sub = q.sub /\ s.plan = q.plan /\ s.key = q.key
    /\ s.limit = q.limit /\ s.extra = q.extra /\ s.row = q.row /\ s.work = q.work
    /\ s.keys = q.keys

\* Going to another step changes pc only.
LEMMA GotoFields ==
    ASSUME TypeOK, NEW r \in Requests, NEW pc, Goto(r, pc)
    PROVE  /\ Same(req[r], req'[r]) /\ req'[r].pc = pc
           /\ req'[r].prod = req[r].prod /\ req'[r].todo = req[r].todo
           /\ req'[r].auth = req[r].auth /\ req'[r].allowed = req[r].allowed
<1>1. req[r] \in Request /\ req'[r] = [req[r] EXCEPT !.pc = pc]
  BY DEF TypeOK, Goto
<1>. QED  BY <1>1 DEF Request, Same

\* Returning from a subroutine changes pc and clears the subroutine's locals.
LEMMA ReturnToFields ==
    ASSUME TypeOK, NEW r \in Requests, NEW pc, ReturnTo(r, pc)
    PROVE  /\ Same(req[r], req'[r]) /\ req'[r].pc = pc
           /\ req'[r].prod = req[r].prod /\ req'[r].todo = req[r].todo
           /\ req'[r].auth = "none" /\ req'[r].allowed = {}
<1>1. req[r] \in Request /\ req'[r] = [req[r] EXCEPT !.pc = pc, !.auth = "none", !.allowed = {}]
  BY DEF TypeOK, ReturnTo
<1>. QED  BY <1>1 DEF Request, Same

\* The loop goes on to a product of its list, or the handler returns.
TakesNext(r, pc) ==
    /\ Same(req[r], req'[r]) /\ req'[r].pc = pc
    /\ req'[r].prod \in req[r].todo /\ req'[r].todo = req[r].todo \ {req'[r].prod}
    /\ req'[r].auth = "none" /\ req'[r].allowed = {}
LEMMA NextInTodoFields ==
    ASSUME TypeOK, NEW r \in Requests, NEW pc, NextInTodo(r, pc)
    PROVE  (req[r].todo = {} /\ Finish(r)) \/ TakesNext(r, pc)
<1>1. CASE req[r].todo = {} /\ Finish(r)
  BY <1>1
<1>2. ASSUME NEW p \in req[r].todo,
             req' = [req EXCEPT ![r] = [@ EXCEPT !.pc = pc, !.prod = p, !.todo = req[r].todo \ {p},
                                                 !.auth = "none", !.allowed = {}]]
      PROVE  TakesNext(r, pc)
  <2>1. /\ req[r] \in Request
        /\ req'[r] = [req[r] EXCEPT !.pc = pc, !.prod = p, !.todo = req[r].todo \ {p},
                                    !.auth = "none", !.allowed = {}]
    BY <1>2 DEF TypeOK
  <2>. QED  BY <2>1 DEF Request, Same, TakesNext
<1>. QED  BY <1>1, <1>2 DEF NextInTodo

\* A handler that returns leaves an empty slot.
LEMMA FinishFields ==
    ASSUME TypeOK, NEW r \in Requests, Finish(r)
    PROVE  req'[r] = NoReq
BY DEF Finish, TypeOK

\* A handler starts with the locals its first statement set.
LEMMA BeginFields ==
    ASSUME TypeOK, NEW r \in Requests, NEW op, NEW q \in Request, Begin(r, op, q)
    PROVE  /\ Idle(r) /\ req'[r].op = op /\ req'[r].pc = q.pc /\ req'[r].app = q.app
           /\ req'[r].prod = q.prod /\ req'[r].sub = q.sub /\ req'[r].plan = q.plan
           /\ req'[r].key = q.key /\ req'[r].limit = q.limit /\ req'[r].extra = q.extra
           /\ req'[r].todo = q.todo /\ req'[r].row = q.row /\ req'[r].work = q.work
           /\ req'[r].allowed = q.allowed /\ op \in Ops
<1>1. req'[r] = [q EXCEPT !.op = op] /\ Idle(r) /\ op \in Ops
  BY DEF Begin, TypeOK
<1>. QED  BY <1>1 DEF Request

\* The request goes on, about the same row ...
Continues(r) ==
    /\ ~Idle(r)
    /\ req'[r].op = req[r].op /\ req'[r].app = req[r].app
    /\ req'[r].sub = req[r].sub /\ req'[r].plan = req[r].plan /\ req'[r].row = req[r].row
    /\ req[r].op \notin {"setOidc", "enableSandbox", "deleteApp"} => req'[r].prod = req[r].prod

\* ... or one starts.
Starts(r) ==
    /\ Idle(r) /\ req'[r].op \in Ops
    /\ \/ \E a \in Apps, p \in Products, pl \in Plans : Subscribe(r, a, p, pl)
       \/ \E a \in Apps, p \in Products : Approve(r, a, p)
       \/ \E p \in Products, row \in Edits, moved \in SUBSET {"upstream", "sandbox"} :
             UpdateProduct(r, p, row, moved)
       \/ req'[r].op \notin {"none", "subscribe", "approve", "updateProduct"}

Moves(r) == (~Idle(r) /\ Finish(r)) \/ Continues(r) \/ Starts(r)

\* Goto and ReturnTo go on.
LEMMA OnwardContinues ==
    ASSUME TypeOK, NEW r \in Requests, ~Idle(r), NEW pc, Goto(r, pc) \/ ReturnTo(r, pc)
    PROVE  Continues(r)
BY GotoFields, ReturnToFields DEF Same, Continues

\* The loops of SetOIDCClientID and EnableSandbox go on, or end.
LEMMA LoopContinues ==
    ASSUME TypeOK, NEW r \in Requests, NEW pc, NextInTodo(r, pc),
           req[r].op \in {"setOidc", "enableSandbox"}
    PROVE  Finish(r) \/ Continues(r)
BY NextInTodoFields DEF TakesNext, Same, Continues, Idle

\* The moves of route provisioning.
LEMMA RouteMoves ==
    ASSUME TypeOK, ShapeInv, NEW r \in Requests, RouteNext(r)
    PROVE  ~Idle(r) /\ (Finish(r) \/ Continues(r))
<1>1. req[r] \in Request /\ RequestShape(req[r])
  BY DEF TypeOK, ShapeInv
<1>2. ~Idle(r)
  BY <1>1 DEF RequestShape, MayBeAt, RouteNext, RouteProduct, RouteMembers, RoutePush,
              SandboxProduct, SandboxMembers, SandboxPush, At, Idle, RoutePcs
<1>3. CASE RouteProduct(r)
  <2>1. \/ Finish(r)
        \/ req'[r] = [req[r] EXCEPT !.pc = "route.members", !.auth = products[req[r].prod].auth]
    BY <1>3 DEF RouteProduct, TypeOK
  <2>. QED  BY <1>1, <1>2, <2>1 DEF Request, Continues
<1>4. CASE RouteMembers(r)
  <2>1. req'[r] = [req[r] EXCEPT !.pc = "route.push", !.allowed = RouteAllowed(req[r])]
    BY <1>4 DEF RouteMembers, TypeOK
  <2>. QED  BY <1>1, <1>2, <2>1 DEF Request, Continues
<1>5. CASE RoutePush(r)
  BY <1>2, <1>5, OnwardContinues, LoopContinues DEF RoutePush, AfterRoute
<1>6. CASE SandboxProduct(r)
  BY <1>2, <1>6, OnwardContinues DEF SandboxProduct
<1>7. CASE SandboxMembers(r)
  <2>1. req'[r] = [req[r] EXCEPT !.pc = "sandbox.push",
                      !.allowed = SandboxConsumersForProduct(req[r].prod) \cup req[r].extra]
    BY <1>7 DEF SandboxMembers, TypeOK
  <2>. QED  BY <1>1, <1>2, <2>1 DEF Request, Continues
<1>8. CASE SandboxPush(r)
  BY <1>2, <1>8, OnwardContinues, LoopContinues DEF SandboxPush, AfterSandboxRoute
<1>. QED  BY <1>3, <1>4, <1>5, <1>6, <1>7, <1>8 DEF RouteNext

\* The moves of the subscription life cycle.
LEMMA SubscriptionMoves ==
    ASSUME TypeOK, ShapeInv, NEW r \in Requests, SubscriptionNext(r)
    PROVE  Moves(r)
<1>1. req[r] \in Request /\ RequestShape(req[r])
  BY DEF TypeOK, ShapeInv
<1>2. CASE \E a \in Apps, p \in Products, pl \in Plans : Subscribe(r, a, p, pl)
  <2>1. Idle(r) /\ req'[r].op = "subscribe" /\ req'[r].op \in Ops
    BY <1>2 DEF Subscribe, Begin, TypeOK, NoReq
  <2>. QED  BY <1>2, <2>1 DEF Moves, Starts
<1>3. CASE \E a \in Apps, p \in Products : Approve(r, a, p)
  <2>1. Idle(r) /\ req'[r].op = "approve" /\ req'[r].op \in Ops
    BY <1>3 DEF Approve, Begin, TypeOK, NoReq
  <2>. QED  BY <1>3, <2>1 DEF Moves, Starts
<1>4. ASSUME NEW a \in Apps, NEW p \in Products, Unsubscribe(r, a, p) \/ Reject(r, a, p)
      PROVE  Moves(r)
  <2>1. Unsubscribe(r, a, p) => Idle(r) /\ req'[r].op \in {"unsubscribe"} \cap Ops
    BY DEF Unsubscribe, Begin, TypeOK, NoReq
  <2>2. Reject(r, a, p) => Idle(r) /\ req'[r].op \in {"reject"} \cap Ops
    BY DEF Reject, Begin, TypeOK, NoReq
  <2>. QED  BY <1>4, <2>1, <2>2 DEF Moves, Starts
<1>5. ASSUME \/ SubscribeCredential(r) \/ SubscribeSave(r) \/ RejectSet(r)
             \/ ApproveProduct(r) \/ ApproveClientId(r) \/ ApproveCredential(r) \/ ApproveConsumer(r)
             \/ ApproveActivate(r) \/ ApproveSandbox(r) \/ BillPricing(r) \/ BillCreate(r)
      PROVE  Moves(r)
  <2>0. ~Idle(r)
    BY <1>1, <1>5 DEF RequestShape, MayBeAt, Idle, At, ApprovePcs, SubscribeCredential, SubscribeSave,
           RejectSet, ApproveProduct, ApproveClientId, ApproveCredential, ApproveConsumer,
           ApproveActivate, ApproveSandbox, BillPricing, BillCreate
  <2>1. CASE \/ SubscribeCredential(r) \/ SubscribeSave(r) \/ RejectSet(r) \/ ApproveActivate(r)
             \/ ApproveSandbox(r) \/ BillPricing(r) \/ BillCreate(r)
    <3>1. Finish(r) \/ \E pc : Goto(r, pc)
      BY <2>1 DEF SubscribeCredential, SubscribeSave, RejectSet, ApproveActivate, ApproveSandbox,
                  BillPricing, BillCreate
    <3>. QED  BY <2>0, <3>1, OnwardContinues DEF Moves
  <2>2. CASE ApproveProduct(r)
    <3>1. \/ Finish(r) \/ Goto(r, "approve.clientId")
          \/ req'[r] = [req[r] EXCEPT !.pc = "approve.credential",
                                      !.limit = plans[req[r].plan].limit]
      BY <2>2 DEF ApproveProduct, TypeOK
    <3>2. CASE req'[r] = [req[r] EXCEPT !.pc = "approve.credential",
                                        !.limit = plans[req[r].plan].limit]
      BY <1>1, <2>0, <3>2 DEF Request, Moves, Continues
    <3>. QED  BY <2>0, <3>1, <3>2, OnwardContinues DEF Moves
  <2>3. CASE ApproveClientId(r)
    <3>1. \/ Goto(r, "route.product")
          \/ req'[r] = [req[r] EXCEPT !.pc = "route.product", !.extra = {oidc[req[r].app]} \ {None}]
      BY <2>3 DEF ApproveClientId, TypeOK
    <3>2. CASE req'[r] = [req[r] EXCEPT !.pc = "route.product",
                                        !.extra = {oidc[req[r].app]} \ {None}]
      BY <1>1, <2>0, <3>2 DEF Request, Moves, Continues
    <3>. QED  BY <2>0, <3>1, <3>2, OnwardContinues DEF Moves
  <2>4. CASE ApproveCredential(r)
    <3>1. \/ Finish(r)
          \/ req'[r] = [req[r] EXCEPT !.pc = "approve.consumer", !.key = creds'[req[r].app].key]
      BY <2>4 DEF ApproveCredential, TypeOK
    <3>. QED  BY <1>1, <2>0, <3>1 DEF Request, Moves, Continues
  <2>5. CASE ApproveConsumer(r)
    <3>1. req'[r] = [req[r] EXCEPT !.pc = "route.product", !.extra = {req[r].app}]
      BY <2>5 DEF ApproveConsumer, TypeOK
    <3>. QED  BY <1>1, <2>0, <3>1 DEF Request, Moves, Continues
  <2>. QED  BY <1>5, <2>1, <2>2, <2>3, <2>4, <2>5
<1>. QED  BY <1>2, <1>3, <1>4, <1>5 DEF SubscriptionNext

\* The moves of the owner's other operations.
LEMMA CredentialsMoves ==
    ASSUME TypeOK, ShapeInv, NEW r \in Requests, CredentialsNext(r)
    PROVE  Moves(r)
<1>1. req[r] \in Request /\ RequestShape(req[r])
  BY DEF TypeOK, ShapeInv
<1>2. ASSUME NEW a \in Apps, Rotate(r, a)
      PROVE  Idle(r) /\ req'[r].op \in {"rotate"} \cap Ops
  BY <1>2 DEF Rotate, Begin, TypeOK, NoReq
<1>3. ASSUME NEW a \in Apps, RotateSandbox(r, a)
      PROVE  Idle(r) /\ req'[r].op \in {"rotateSandbox"} \cap Ops
  BY <1>3 DEF RotateSandbox, Begin, TypeOK, NoReq
<1>4. ASSUME NEW a \in Apps, EnableSandbox(r, a)
      PROVE  Idle(r) /\ req'[r].op \in {"enableSandbox"} \cap Ops
  BY <1>4 DEF EnableSandbox, Begin, TypeOK, NoReq
<1>5. ASSUME NEW a \in Apps, DeleteApp(r, a)
      PROVE  Idle(r) /\ req'[r].op \in {"deleteApp"} \cap Ops
  BY <1>5 DEF DeleteApp, Begin, TypeOK, NoReq
<1>6. ASSUME NEW a \in Apps, NEW c, SetOidc(r, a, c)
      PROVE  Idle(r) /\ req'[r].op \in {"setOidc"} \cap Ops
  BY <1>6 DEF SetOidc, Begin, TypeOK, NoReq
<1>7. ASSUME \/ RotateConsumer(r) \/ RotateSave(r) \/ EnableConsumer(r) \/ EnableSave(r)
             \/ OidcProducts(r)
             \/ DeleteNext(r) \/ DeleteCredential(r) \/ DeleteConsumer(r)
             \/ DeleteSandboxKey(r) \/ DeleteSandboxConsumer(r) \/ DeleteRow(r)
      PROVE  ~Idle(r) /\ (Finish(r) \/ Continues(r))
  <2>0. ~Idle(r)
    BY <1>1, <1>7 DEF RequestShape, MayBeAt, Idle, At, RotatePcs, EnablePcs, DeletePcs, RotateConsumer,
           RotateSave, EnableConsumer, EnableSave, OidcProducts, DeleteNext, DeleteCredential,
           DeleteConsumer, DeleteSandboxKey, DeleteSandboxConsumer, DeleteRow
  <2>1. CASE \/ RotateSave(r) \/ DeleteCredential(r) \/ DeleteConsumer(r) \/ DeleteSandboxKey(r)
             \/ DeleteSandboxConsumer(r) \/ DeleteRow(r)
    <3>1. Finish(r) \/ \E pc : Goto(r, pc)
      BY <2>1 DEF RotateSave, DeleteCredential, DeleteConsumer, DeleteSandboxKey,
                  DeleteSandboxConsumer, DeleteRow
    <3>. QED  BY <2>0, <3>1, OnwardContinues
  <2>2. CASE RotateConsumer(r)
    <3>1. req'[r] = [req[r] EXCEPT !.pc = "rotate.save", !.key = nextKey]
      BY <2>2 DEF RotateConsumer, TypeOK
    <3>. QED  BY <1>1, <2>0, <3>1 DEF Request, Continues
  <2>3. CASE EnableConsumer(r)
    <3>1. PICK k : req'[r] = [req[r] EXCEPT !.pc = "enable.save", !.key = k]
      BY <2>3 DEF EnableConsumer, TypeOK
    <3>. QED  BY <1>1, <2>0, <3>1 DEF Request, Continues
  <2>4. CASE EnableSave(r)
    <3>1. req[r].op = "enableSandbox"
      BY <1>1, <2>4 DEF RequestShape, MayBeAt, EnablePcs, EnableSave, At
    <3>. QED  BY <2>0, <2>4, <3>1, LoopContinues DEF EnableSave
  <2>5. CASE OidcProducts(r)
    <3>1. req[r].op = "setOidc"
      BY <1>1, <2>5 DEF RequestShape, MayBeAt, OidcProducts, At
    <3>2. \/ Finish(r)
          \/ \E p, ps : req'[r] = [req[r] EXCEPT !.pc = "route.product", !.prod = p, !.todo = ps]
      BY <2>5 DEF OidcProducts, TypeOK
    <3>. QED  BY <1>1, <2>0, <3>1, <3>2 DEF Request, Continues
  <2>6. CASE DeleteNext(r)
    <3>1. req[r].op = "deleteApp"
      BY <1>1, <2>6 DEF RequestShape, MayBeAt, DeletePcs, DeleteNext, At
    <3>2. PICK p, ps : req'[r] = [req[r] EXCEPT !.pc = "route.product", !.prod = p, !.todo = ps]
      BY <2>6 DEF DeleteNext, TypeOK
    <3>. QED  BY <1>1, <2>0, <3>1, <3>2 DEF Request, Continues
  <2>. QED  BY <1>7, <2>1, <2>2, <2>3, <2>4, <2>5, <2>6
<1>. QED
  BY <1>2, <1>3, <1>4, <1>5, <1>6, <1>7 DEF CredentialsNext, Moves, Starts

\* The moves of product administration.
LEMMA ProductMoves ==
    ASSUME TypeOK, ShapeInv, NEW r \in Requests, ProductNext(r)
    PROVE  Moves(r)
<1>1. req[r] \in Request /\ RequestShape(req[r])
  BY DEF TypeOK, ShapeInv
<1>2. ASSUME NEW p \in Products, NEW row \in Edits, NEW moved \in SUBSET {"upstream", "sandbox"},
             UpdateProduct(r, p, row, moved)
      PROVE  Moves(r)
  <2>1. Idle(r) /\ req'[r].op = "updateProduct" /\ req'[r].op \in Ops
    BY <1>2 DEF UpdateProduct, Begin, TypeOK, NoReq
  <2>. QED  BY <1>2, <2>1 DEF Moves, Starts
<1>3. ASSUME NEW p \in Products, DeleteProduct(r, p)
      PROVE  Idle(r) /\ req'[r].op \in {"deleteProduct"} \cap Ops
  BY <1>3 DEF DeleteProduct, Begin, TypeOK, NoReq
<1>4. ASSUME ProductSave(r) \/ ProductCount(r) \/ ProductDelete(r) \/ ProductDeprovision(r)
      PROVE  ~Idle(r) /\ (Finish(r) \/ Continues(r))
  <2>1. ~Idle(r)
    BY <1>1, <1>4 DEF RequestShape, MayBeAt, Idle, At, ProductSave, ProductCount, ProductDelete,
           ProductDeprovision
  <2>2. Finish(r) \/ \E pc : Goto(r, pc)
    BY <1>4 DEF ProductSave, ProductCount, ProductDelete, ProductDeprovision, Remaining
  <2>. QED  BY <2>1, <2>2, OnwardContinues
<1>. QED  BY <1>2, <1>3, <1>4 DEF ProductNext, Moves, Starts

\* The moves of plan administration.
LEMMA PlanMoves ==
    ASSUME TypeOK, ShapeInv, NEW r \in Requests, PlanNext(r)
    PROVE  Moves(r)
<1>1. req[r] \in Request /\ RequestShape(req[r])
  BY DEF TypeOK, ShapeInv
<1>2. ASSUME NEW pl \in Plans, UpdatePlan(r, pl)
      PROVE  Idle(r) /\ req'[r].op \in {"updatePlan"} \cap Ops
  BY <1>2 DEF UpdatePlan, Begin, TypeOK, NoReq
<1>3. ASSUME NEW pl \in Plans, DeletePlan(r, pl)
      PROVE  Idle(r) /\ req'[r].op \in {"deletePlan"} \cap Ops
  BY <1>3 DEF DeletePlan, Begin, TypeOK, NoReq
<1>4. ASSUME \/ PlanSave(r) \/ PlanRead(r) \/ PlanConsumers(r) \/ PlanPush(r)
             \/ PlanSandboxConsumers(r) \/ PlanSandboxPush(r) \/ PlanDelete(r)
      PROVE  ~Idle(r) /\ (Finish(r) \/ Continues(r))
  <2>1. ~Idle(r)
    BY <1>1, <1>4 DEF RequestShape, MayBeAt, Idle, At, PlanPcs, PlanSave, PlanRead, PlanConsumers,
           PlanPush, PlanSandboxConsumers, PlanSandboxPush, PlanDelete
  <2>2. \/ Finish(r)
        \/ \E pc : Goto(r, pc)
        \/ \E pc, limit : req' = [req EXCEPT ![r] = [@ EXCEPT !.pc = pc, !.limit = limit]]
        \/ \E pc, keys : req' = [req EXCEPT ![r] = [@ EXCEPT !.pc = pc, !.keys = keys]]
    BY <1>4 DEF PlanSave, PlanRead, PlanConsumers, PlanPush, PlanSandboxConsumers, PlanSandboxPush,
           PlanDelete, PushRest, SandboxPushRest
  <2>3. ASSUME NEW pc, NEW limit, req' = [req EXCEPT ![r] = [@ EXCEPT !.pc = pc, !.limit = limit]]
        PROVE  Continues(r)
    <3>1. req'[r] = [req[r] EXCEPT !.pc = pc, !.limit = limit]
      BY <2>3 DEF TypeOK
    <3>. QED  BY <1>1, <2>1, <3>1 DEF Request, Continues
  <2>4. ASSUME NEW pc, NEW keys, req' = [req EXCEPT ![r] = [@ EXCEPT !.pc = pc, !.keys = keys]]
        PROVE  Continues(r)
    <3>1. req'[r] = [req[r] EXCEPT !.pc = pc, !.keys = keys]
      BY <2>4 DEF TypeOK
    <3>. QED  BY <1>1, <2>1, <3>1 DEF Request, Continues
  <2>. QED  BY <2>1, <2>2, <2>3, <2>4, OnwardContinues
<1>. QED  BY <1>2, <1>3, <1>4 DEF PlanNext, Moves, Starts

\* A step is a move of one request, or of none.
LEMMA NextMoves ==
    ASSUME BaseInv, [Next]_vars
    PROVE  \/ UNCHANGED req
           \/ \E r \in Requests : /\ req' = [req EXCEPT ![r] = req'[r]]
                                  /\ Step(r) \/ Fail(r)
                                  /\ Moves(r)
<1>1. ASSUME NEW r \in Requests, Step(r) \/ Fail(r)
      PROVE  Moves(r)
  BY <1>1, RouteMoves, SubscriptionMoves, CredentialsMoves, ProductMoves, PlanMoves
  DEF BaseInv, Step, Fail, Moves
<1>2. ASSUME NEW r \in Requests, Step(r) \/ Fail(r)
      PROVE  req' = [req EXCEPT ![r] = req'[r]]
  BY <1>2, RouteLocal, SubscriptionLocal, CredentialsLocal, ProductLocal, PlanLocal, FinishStep
  DEF BaseInv, Step, Fail, LocalStep
<1>. QED  BY <1>1, <1>2 DEF Next, BillingNext, MarkPaid, Void, Settle, CreatePlan, vars

\* A request stays as it is, or it is the one that moves.
LEMMA EachMoves ==
    ASSUME BaseInv, [Next]_vars, NEW s \in Requests
    PROVE  req'[s] = req[s] \/ ((Step(s) \/ Fail(s)) /\ Moves(s))
<1>1. ASSUME NEW r \in Requests, req' = [req EXCEPT ![r] = req'[r]], r # s
      PROVE  req'[s] = req[s]
  BY <1>1 DEF BaseInv, TypeOK
<1>. QED  BY <1>1, NextMoves

\* The request is still at work on the same row.
SameRow(q, s) == s.op = q.op /\ s.app = q.app /\ s.prod = q.prod /\ s.sub = q.sub /\ s.plan = q.plan

\* An approval goes on about the row it read, or starts.
LEMMA ApprovalMoves ==
    ASSUME BaseInv, [Next]_vars, NEW s \in Requests, req'[s].op = "approve"
    PROVE  \/ SameRow(req[s], req'[s])
           \/ \E a \in Apps, p \in Products :
                 /\ Approve(s, a, p)
                 /\ req'[s].app = a /\ req'[s].prod = p
                 /\ req'[s].sub = subs[<<a, p>>].id /\ req'[s].plan = subs[<<a, p>>].plan
<1>1. \/ req'[s] = req[s] \/ Continues(s)
      \/ \E a \in Apps, p \in Products : Approve(s, a, p)
  <2>1. ASSUME NEW a \in Apps, NEW p \in Products, NEW pl \in Plans, Subscribe(s, a, p, pl)
        PROVE  req'[s].op = "subscribe"
    BY <2>1 DEF Subscribe, Begin, BaseInv, TypeOK, NoReq
  <2>2. ASSUME NEW p \in Products, NEW row \in Edits, NEW moved \in SUBSET {"upstream", "sandbox"},
               UpdateProduct(s, p, row, moved)
        PROVE  req'[s].op = "updateProduct"
    BY <2>2 DEF UpdateProduct, Begin, BaseInv, TypeOK, NoReq
  <2>3. ~Finish(s)
    BY FinishFields, NoReqType DEF BaseInv
  <2>. QED  BY <2>1, <2>2, <2>3, EachMoves DEF Moves, Starts
<1>2. ASSUME NEW a \in Apps, NEW p \in Products, Approve(s, a, p)
      PROVE  /\ req'[s].app = a /\ req'[s].prod = p
             /\ req'[s].sub = subs[<<a, p>>].id /\ req'[s].plan = subs[<<a, p>>].plan
  BY <1>2 DEF Approve, Begin, BaseInv, TypeOK, NoReq
<1>. QED  BY <1>1, <1>2 DEF Continues, SameRow

\* So does a resubmission.
LEMMA SubscribeMoves ==
    ASSUME BaseInv, [Next]_vars, NEW s \in Requests, req'[s].op = "subscribe"
    PROVE  \/ SameRow(req[s], req'[s])
           \/ \E a \in Apps, p \in Products, pl \in Plans :
                 Subscribe(s, a, p, pl) /\ req'[s].app = a /\ req'[s].prod = p
<1>1. \/ req'[s] = req[s] \/ Continues(s)
      \/ \E a \in Apps, p \in Products, pl \in Plans : Subscribe(s, a, p, pl)
  <2>1. ASSUME NEW a \in Apps, NEW p \in Products, Approve(s, a, p)
        PROVE  req'[s].op = "approve"
    BY <2>1 DEF Approve, Begin, BaseInv, TypeOK, NoReq
  <2>2. ASSUME NEW p \in Products, NEW row \in Edits, NEW moved \in SUBSET {"upstream", "sandbox"},
               UpdateProduct(s, p, row, moved)
        PROVE  req'[s].op = "updateProduct"
    BY <2>2 DEF UpdateProduct, Begin, BaseInv, TypeOK, NoReq
  <2>3. ~Finish(s)
    BY FinishFields, NoReqType DEF BaseInv
  <2>. QED  BY <2>1, <2>2, <2>3, EachMoves DEF Moves, Starts
<1>2. ASSUME NEW a \in Apps, NEW p \in Products, NEW pl \in Plans, Subscribe(s, a, p, pl)
      PROVE  req'[s].app = a /\ req'[s].prod = p
  BY <1>2 DEF Subscribe, Begin, BaseInv, TypeOK, NoReq
<1>. QED  BY <1>1, <1>2 DEF Continues, SameRow

\* What a step makes of a row: nothing, no row, or what the one statement of a
\* request in progress makes of it.
SavedBy(r, x) ==
    /\ Saves(r) /\ x = <<req[r].app, req[r].prod>>
    /\ subs'[x] # NoSub /\ subs'[x].plan = req[r].plan /\ subs'[x].status = "pending"
    /\ subs'[x].id = IF subs[x] = NoSub THEN nextSub ELSE subs[x].id
SetTo(x, id, status) ==
    /\ IsSubscription(x, id)
    /\ subs'[x].id = id /\ subs'[x].plan = subs[x].plan /\ subs'[x].status = status
LEMMA RowAfter ==
    ASSUME TypeOK, SubsEffect, NEW x \in Apps \X Products
    PROVE  \/ subs'[x] = subs[x]
           \/ subs'[x] = NoSub
           \/ \E r \in Requests : \/ SavedBy(r, x)
                                  \/ Rejects(r) /\ SetTo(x, req[r].sub, "rejected")
                                  \/ Activates(r) /\ SetTo(x, req[r].sub, "active")
<1>1. ASSUME NEW r \in Requests, Saves(r)
      PROVE  subs'[x] = subs[x] \/ SavedBy(r, x)
  <2>. DEFINE z == <<req[r].app, req[r].prod>>
              new == [id |-> nextSub, plan |-> req[r].plan, status |-> "pending"]
              row == [subs[z] EXCEPT !.plan = req[r].plan, !.status = "pending"]
  <2>1. z \in Apps \X Products /\ subs[z] \in SubRow
    BY <1>1 DEF Saves, TypeOK
  <2>2. /\ new.id = nextSub /\ new.plan = req[r].plan /\ new.status = "pending"
        /\ row.id = subs[z].id /\ row.plan = req[r].plan /\ row.status = "pending"
        /\ NoSub.status = "none"
    BY <2>1 DEF SubRow, NoSub
  <2>3. subs' = [subs EXCEPT ![z] = IF subs[z] = NoSub THEN new ELSE row]
    BY <1>1 DEF Saves, SaveSubscription
  <2>. HIDE DEF new, row
  <2>4. x # z => subs'[x] = subs[x]
    BY <2>1, <2>3 DEF TypeOK
  <2>5. subs'[z] = IF subs[z] = NoSub THEN new ELSE row
    BY <2>1, <2>3 DEF TypeOK
  <2>. QED  BY <1>1, <2>2, <2>4, <2>5 DEF SavedBy
<1>2. ASSUME NEW id, NEW st, SetSubscriptionStatus(id, st)
      PROVE  subs'[x] = subs[x] \/ SetTo(x, id, st)
  <2>. DEFINE row == [subs[x] EXCEPT !.status = st]
  <2>1. row.id = subs[x].id /\ row.plan = subs[x].plan /\ row.status = st
    BY DEF TypeOK, SubRow
  <2>2. subs'[x] = IF IsSubscription(x, id) THEN row ELSE subs[x]
    BY <1>2 DEF SetSubscriptionStatus
  <2>. HIDE DEF row
  <2>. QED  BY <2>1, <2>2 DEF SetTo, IsSubscription
<1>3. ASSUME NEW D \in SUBSET (Apps \X Products), EraseRows(D)
      PROVE  subs'[x] = subs[x] \/ subs'[x] = NoSub
  BY <1>3 DEF EraseRows
<1>. QED  BY <1>1, <1>2, <1>3 DEF SubsEffect, Erases, Rejects, Activates

\* Only the pricing of an activation leads to the creation of its invoice, and
\* only the checks of an update to the statement that saves the product.
Watched(pc) == pc = "bill.create" \/ pc = "product.save"
LEMMA WatchedEntered ==
    ASSUME TypeOK, ShapeInv, NEW r \in Requests, Step(r) \/ Fail(r), Watched(req'[r].pc)
    PROVE  \/ req'[r].pc = "bill.create" /\ BillPricing(r)
           \/ /\ req'[r].pc = "product.save"
              /\ \E p \in Products, row \in Edits, moved \in SUBSET {"upstream", "sandbox"} :
                    UpdateProduct(r, p, row, moved)
<1>1. req[r] \in Request /\ RequestShape(req[r]) /\ Watched(req'[r].pc)
  BY DEF TypeOK, ShapeInv, At
<1>2. ASSUME NEW pc, Goto(r, pc) \/ ReturnTo(r, pc) PROVE Watched(pc) /\ req'[r].pc = pc
  BY <1>1, <1>2, GotoFields, ReturnToFields
<1>3. ~Finish(r)
  BY <1>1, FinishFields, NoReqType DEF Watched
<1>4. ASSUME NEW pc, NextInTodo(r, pc) PROVE Watched(pc)
  BY <1>1, <1>3, <1>4, NextInTodoFields DEF TakesNext
<1>5. ASSUME NEW pc, NEW a, \/ req'[r] = [req[r] EXCEPT !.pc = pc, !.limit = a]
                            \/ req'[r] = [req[r] EXCEPT !.pc = pc, !.keys = a]
                            \/ req'[r] = [req[r] EXCEPT !.pc = pc, !.key = a]
                            \/ req'[r] = [req[r] EXCEPT !.pc = pc, !.extra = a]
                            \/ req'[r] = [req[r] EXCEPT !.pc = pc, !.auth = a]
                            \/ req'[r] = [req[r] EXCEPT !.pc = pc, !.allowed = a]
      PROVE  Watched(pc)
  BY <1>1, <1>5 DEF Request
<1>6. ~RouteNext(r)
  <2>1. ~RouteProduct(r)
    <3>1. ASSUME RouteProduct(r)
          PROVE  \E a : req'[r] = [req[r] EXCEPT !.pc = "route.members", !.auth = a]
      BY <1>3, <3>1 DEF RouteProduct, TypeOK
    <3>. QED  BY <1>5, <3>1 DEF Watched
  <2>2. ~RouteMembers(r)
    BY <1>5 DEF RouteMembers, TypeOK, Watched
  <2>3. ~RoutePush(r)
    BY <1>2, <1>3, <1>4 DEF RoutePush, AfterRoute, Watched
  <2>4. ~SandboxProduct(r)
    BY <1>2, <1>3 DEF SandboxProduct, Watched
  <2>5. ~SandboxMembers(r)
    BY <1>5 DEF SandboxMembers, TypeOK, Watched
  <2>6. ~SandboxPush(r)
    BY <1>2, <1>3, <1>4 DEF SandboxPush, AfterSandboxRoute, Watched
  <2>. QED  BY <2>1, <2>2, <2>3, <2>4, <2>5, <2>6 DEF RouteNext
<1>7. ASSUME SubscriptionNext(r) PROVE req'[r].pc = "bill.create" /\ BillPricing(r)
  <2>1. ASSUME NEW a \in Apps, NEW p \in Products PROVE Unsubscribe(r, a, p) => req'[r].pc = "route.product"
    BY DEF Unsubscribe, Begin, TypeOK, NoReq
  <2>2. ASSUME NEW a \in Apps, NEW p \in Products PROVE Reject(r, a, p) => req'[r].pc = "reject.set"
    BY DEF Reject, Begin, TypeOK, NoReq
  <2>3. ASSUME NEW a \in Apps, NEW p \in Products PROVE Approve(r, a, p) => req'[r].pc = "approve.product"
    BY DEF Approve, Begin, TypeOK, NoReq
  <2>4. ASSUME NEW a \in Apps, NEW p \in Products, NEW pl \in Plans PROVE Subscribe(r, a, p, pl) =>
             req'[r].pc \in {"subscribe.save", "subscribe.credential"}
    BY DEF Subscribe, Begin, TypeOK, NoReq
  <2>5. ~SubscribeCredential(r) /\ ~SubscribeSave(r) /\ ~RejectSet(r) /\ ~ApproveActivate(r)
    BY <1>2, <1>3 DEF SubscribeCredential, SubscribeSave, RejectSet, ApproveActivate, Watched
  <2>6. ~ApproveSandbox(r) /\ ~BillCreate(r)
    BY <1>2, <1>3 DEF ApproveSandbox, BillCreate, Watched
  <2>7. ~ApproveProduct(r)
    <3>1. ASSUME ApproveProduct(r)
          PROVE  \/ Finish(r) \/ Goto(r, "approve.clientId")
                 \/ \E l : req'[r] = [req[r] EXCEPT !.pc = "approve.credential", !.limit = l]
      BY <3>1 DEF ApproveProduct, TypeOK
    <3>. QED  BY <1>2, <1>3, <1>5, <3>1 DEF Watched
  <2>8. ~ApproveClientId(r)
    BY <1>2, <1>5 DEF ApproveClientId, TypeOK, Watched
  <2>9. ~ApproveCredential(r) /\ ~ApproveConsumer(r)
    <3>1. ASSUME ApproveCredential(r) \/ ApproveConsumer(r)
          PROVE  \/ Finish(r)
                 \/ \E k : req'[r] = [req[r] EXCEPT !.pc = "approve.consumer", !.key = k]
                 \/ \E x : req'[r] = [req[r] EXCEPT !.pc = "route.product", !.extra = x]
      BY <3>1 DEF ApproveCredential, ApproveConsumer, TypeOK
    <3>. QED  BY <1>3, <1>5, <3>1 DEF Watched
  <2>10. BillPricing(r)
    BY <1>7, <2>1, <2>2, <2>3, <2>4, <2>5, <2>6, <2>7, <2>8, <2>9, <1>1 DEF SubscriptionNext, Watched
  <2>. QED  BY <1>2, <1>3, <2>10 DEF BillPricing
<1>8. ~CredentialsNext(r)
  <2>1. ASSUME NEW a \in Apps PROVE Rotate(r, a) => req'[r].pc = "rotate.consumer"
    BY DEF Rotate, Begin, TypeOK, NoReq
  <2>2. ASSUME NEW a \in Apps PROVE RotateSandbox(r, a) => req'[r].pc = "rotate.consumer"
    BY DEF RotateSandbox, Begin, TypeOK, NoReq
  <2>3. ASSUME NEW a \in Apps PROVE EnableSandbox(r, a) => req'[r].pc = "enable.consumer"
    BY DEF EnableSandbox, Begin, TypeOK, NoReq
  <2>4. ASSUME NEW a \in Apps PROVE DeleteApp(r, a) => req'[r].pc = "delete.next"
    BY DEF DeleteApp, Begin, TypeOK, NoReq
  <2>5. ASSUME NEW a \in Apps, NEW c PROVE SetOidc(r, a, c) => req'[r].pc = "oidc.products"
    BY DEF SetOidc, Begin, TypeOK, NoReq
  <2>6. ~RotateConsumer(r) /\ ~OidcProducts(r) /\ ~DeleteNext(r)
    <3>1. RotateConsumer(r) => req'[r] = [req[r] EXCEPT !.pc = "rotate.save", !.key = nextKey]
      BY DEF RotateConsumer, TypeOK
    <3>2. OidcProducts(r) =>
             \/ Finish(r)
             \/ \E p, ps : req'[r] = [req[r] EXCEPT !.pc = "route.product", !.prod = p, !.todo = ps]
      BY DEF OidcProducts, TypeOK
    <3>3. DeleteNext(r) =>
             \E p, ps : req'[r] = [req[r] EXCEPT !.pc = "route.product", !.prod = p, !.todo = ps]
      BY ZenonT(60) DEF DeleteNext, TypeOK
    <3>4. ASSUME NEW p, NEW ps, req'[r] = [req[r] EXCEPT !.pc = "route.product", !.prod = p, !.todo = ps]
          PROVE  FALSE
      BY <1>1, <3>4 DEF Request, Watched
    <3>5. ASSUME NEW k PROVE req'[r] # [req[r] EXCEPT !.pc = "rotate.save", !.key = k]
      BY <1>5 DEF Watched
    <3>. QED  BY <1>3, <3>1, <3>2, <3>3, <3>4, <3>5
  <2>7. ~EnableConsumer(r)
    <3>1. ASSUME EnableConsumer(r)
          PROVE  \E k : req'[r] = [req[r] EXCEPT !.pc = "enable.save", !.key = k]
      BY <3>1 DEF EnableConsumer, TypeOK
    <3>. QED  BY <1>5, <3>1 DEF Watched
  <2>8. ~EnableSave(r) /\ ~RotateSave(r)
    BY <1>3, <1>4 DEF EnableSave, RotateSave, Watched
  <2>9. ~DeleteCredential(r) /\ ~DeleteConsumer(r) /\ ~DeleteSandboxKey(r)
        /\ ~DeleteSandboxConsumer(r) /\ ~DeleteRow(r)
    BY <1>2, <1>3 DEF DeleteCredential, DeleteConsumer, DeleteSandboxKey, DeleteSandboxConsumer,
                      DeleteRow, Watched
  <2>. QED  BY <2>1, <2>2, <2>3, <2>4, <2>5, <2>6, <2>7, <2>8, <2>9, <1>1 DEF CredentialsNext, Watched
<1>9. ASSUME ProductNext(r)
       PROVE  /\ req'[r].pc = "product.save"
              /\ \E p \in Products, row \in Edits, moved \in SUBSET {"upstream", "sandbox"} :
                    UpdateProduct(r, p, row, moved)
  <2>1. ASSUME NEW p \in Products PROVE DeleteProduct(r, p) => req'[r].pc = "product.delete"
    BY DEF DeleteProduct, Begin, TypeOK, NoReq
  <2>2. ~ProductSave(r) /\ ~ProductCount(r) /\ ~ProductDelete(r) /\ ~ProductDeprovision(r)
    BY <1>2, <1>3 DEF ProductSave, ProductCount, ProductDelete, ProductDeprovision, Remaining, Watched
  <2>3. PICK p \in Products, row \in Edits, moved \in SUBSET {"upstream", "sandbox"} :
           UpdateProduct(r, p, row, moved)
    BY <1>9, <2>1, <2>2, <1>1 DEF ProductNext, Watched
  <2>4. req'[r].pc = "product.save"
    BY <2>3 DEF UpdateProduct, Begin, TypeOK, NoReq
  <2>. QED  BY <2>3, <2>4
<1>10. ~PlanNext(r)
  <2>1. ASSUME NEW pl \in Plans PROVE UpdatePlan(r, pl) => req'[r].pc = "plan.save"
    BY DEF UpdatePlan, Begin, TypeOK, NoReq
  <2>2. ASSUME NEW pl \in Plans PROVE DeletePlan(r, pl) => req'[r].pc = "plan.delete"
    BY DEF DeletePlan, Begin, TypeOK, NoReq
  <2>3. ~PlanSave(r) /\ ~PlanDelete(r)
    BY <1>2, <1>3 DEF PlanSave, PlanDelete, Watched
  <2>4. ~PlanRead(r)
    <3>1. ASSUME PlanRead(r)
          PROVE  \E l : req'[r] = [req[r] EXCEPT !.pc = "plan.consumers", !.limit = l]
      BY <1>3, <3>1 DEF PlanRead, TypeOK
    <3>. QED  BY <1>5, <3>1 DEF Watched
  <2>5. ASSUME NEW keys, PushRest(r, keys) \/ SandboxPushRest(r, keys) PROVE FALSE
    BY <1>3, <1>5, <2>5 DEF PushRest, SandboxPushRest, TypeOK, Watched
  <2>6. ~PlanConsumers(r) /\ ~PlanPush(r) /\ ~PlanSandboxConsumers(r) /\ ~PlanSandboxPush(r)
    BY <2>5 DEF PlanConsumers, PlanPush, PlanSandboxConsumers, PlanSandboxPush
  <2>. QED  BY <2>1, <2>2, <2>3, <2>4, <2>6, <1>1 DEF PlanNext, Watched
<1>. QED  BY <1>3, <1>6, <1>7, <1>8, <1>9, <1>10 DEF Step, Fail

-----------------------------------------------------------------------------
(* Invoices *)

\* No two approvals of one subscription are in progress together.
ApprovalsApart ==
    \A r, s \in Requests : r # s /\ req[r].op = "approve" /\ req[s].op = "approve" =>
        req[r].sub # req[s].sub

\* While an invoice is being created, the subscription still has none.
BillingInv ==
    /\ OneLiveInvoice
    /\ \A r \in Requests : At(r, "bill.create") => ~PendingInvoiceExists(req[r].sub)

\* No statement but the creation of an invoice makes one that is not void.
LEMMA OldInvoices ==
    ASSUME TypeOK, InvoicesEffect, \A r \in Requests : ~Bills(r)
    PROVE  /\ DOMAIN invoices' = DOMAIN invoices
           /\ \A n \in DOMAIN invoices :
                 /\ invoices'[n].sub \in {invoices[n].sub, 0}
                 /\ invoices[n].status = "void" => invoices'[n].status = "void"
<1>1. \A n \in DOMAIN invoices : invoices[n] \in InvoiceRow
  BY DEF TypeOK
<1>2. ASSUME NEW D, Erases(D), NEW n \in DOMAIN invoices
      PROVE  invoices'[n].sub \in {invoices[n].sub, 0} /\ invoices'[n].status = invoices[n].status
  <2>. DEFINE j == [invoices[n] EXCEPT !.sub = 0]
  <2>1. j.sub = 0 /\ j.status = invoices[n].status
    BY <1>1, <1>2 DEF InvoiceRow
  <2>2. invoices'[n] \in {j, invoices[n]}
    BY <1>2 DEF Erases, DetachInvoices
  <2>. QED  BY <2>1, <2>2
<1>3. ASSUME NEW m \in DOMAIN invoices, NEW st, invoices[m].status = "pending",
             invoices' = [invoices EXCEPT ![m].status = st], NEW n \in DOMAIN invoices
      PROVE  /\ invoices'[n].sub = invoices[n].sub
             /\ invoices[n].status = "void" => invoices'[n].status = "void"
  <2>. DEFINE j == [invoices[m] EXCEPT !.status = st]
  <2>1. j.sub = invoices[m].sub
    BY <1>1 DEF InvoiceRow
  <2>2. invoices' = [invoices EXCEPT ![m] = j]
    BY <1>3
  <2>. HIDE DEF j
  <2>. QED  BY <1>3, <2>1, <2>2
<1>4. DOMAIN invoices' = DOMAIN invoices
  BY DEF InvoicesEffect, Erases, DetachInvoices
<1>. QED  BY <1>2, <1>3, <1>4 DEF InvoicesEffect

\* The invoice created is the one of the approval's subscription.
LEMMA NewInvoice ==
    ASSUME TypeOK, ShapeInv, NEW r \in Requests, Bills(r), NEW n \in DOMAIN invoices'
    PROVE  \/ n \in DOMAIN invoices /\ invoices'[n] = invoices[n]
           \/ n = Len(invoices) + 1 /\ invoices'[n].sub = req[r].sub
<1>. DEFINE i == [sub |-> req[r].sub, plan |-> req[r].plan, status |-> "pending"]
<1>1. i \in InvoiceRow
  BY DEF Bills, TypeOK, Request, ShapeInv, RequestShape, InvoiceRow
<1>2. invoices' = Append(invoices, i) /\ i.sub = req[r].sub
  BY DEF Bills
<1>. HIDE DEF i
<1>. QED  BY <1>1, <1>2 DEF TypeOK

\* A subscription has an invoice after the step only if it had one or got one now.
LEMMA PendingAfter ==
    ASSUME TypeOK, ShapeInv, InvoicesEffect, NEW id, id # 0, PendingInvoiceExists(id)'
    PROVE  PendingInvoiceExists(id) \/ \E r \in Requests : Bills(r) /\ req[r].sub = id
BY OldInvoices, NewInvoice DEF PendingInvoiceExists

\* Approvals of one subscription apart, an invoice is created only where there is
\* none that is not void.
LEMMA NextBilling ==
    ASSUME IInv, ApprovalsApart, BillingInv, [Next]_vars
    PROVE  BillingInv'
<1>1. BaseInv /\ TypeOK /\ ShapeInv /\ InvoicesEffect
  BY NextEffect DEF IInv, BaseInv, Effect
<1>2. OneLiveInvoice'
  <2>1. CASE \A r \in Requests : ~Bills(r)
    BY <1>1, <2>1, OldInvoices DEF BillingInv, OneLiveInvoice
  <2>2. ASSUME NEW r \in Requests, Bills(r) PROVE OneLiveInvoice'
    <3>1. ~PendingInvoiceExists(req[r].sub)
      BY <2>2 DEF BillingInv, Bills
    <3>2. ASSUME NEW m \in DOMAIN invoices', NEW n \in DOMAIN invoices',
                 invoices'[m].sub = invoices'[n].sub, invoices'[m].sub # 0,
                 invoices'[m].status # "void", invoices'[n].status # "void"
          PROVE  m = n
      BY <1>1, <2>2, <3>1, <3>2, NewInvoice DEF PendingInvoiceExists, BillingInv, OneLiveInvoice
    <3>. QED  BY <3>2 DEF OneLiveInvoice
  <2>. QED  BY <2>1, <2>2
<1>3. ASSUME NEW s \in Requests, At(s, "bill.create")', PendingInvoiceExists(req[s].sub)'
      PROVE  FALSE
  <2>1. \/ req'[s] = req[s]
        \/ Step(s) \/ Fail(s)
    BY <1>1, EachMoves
  <2>2. CASE Step(s) \/ Fail(s)
    <3>1. req'[s].pc = "bill.create" /\ Watched(req'[s].pc)
      BY <1>3 DEF At, Watched
    <3>2. BillPricing(s)
      BY <1>1, <2>2, <3>1, WatchedEntered
    <3>3. Goto(s, "bill.create")
      BY <1>1, <3>1, <3>2, FinishFields, NoReqType DEF BillPricing
    <3>4. ~PendingInvoiceExists(req[s].sub) /\ UNCHANGED invoices
      BY <1>1, <3>1, <3>2, FinishFields, NoReqType
      DEF BillPricing, Unprovisioned, billVars
    <3>5. req'[s].sub = req[s].sub
      BY <1>1, <3>3, GotoFields DEF Same
    <3>. QED  BY <1>3, <3>4, <3>5 DEF PendingInvoiceExists
  <2>3. CASE req'[s] = req[s]
    <3>1. At(s, "bill.create") /\ req[s].op = "approve"
      BY <1>1, <1>3, <2>3 DEF At, ShapeInv, RequestShape, MayBeAt, ApprovePcs
    <3>2. req[s].sub # 0
      BY <3>1 DEF IInv, ApprovingInv, Approving, ApprovalInv
    <3>3. PendingInvoiceExists(req[s].sub)'
      BY <1>3
    <3>4. ~PendingInvoiceExists(req[s].sub)
      BY <3>1 DEF BillingInv
    <3>5. PICK id : id = req[s].sub
      OBVIOUS
    <3>6. PendingInvoiceExists(id)'
      BY <2>3, <3>3, <3>5 DEF PendingInvoiceExists
    <3>7. PICK r \in Requests : Bills(r) /\ req[r].sub = id
      BY <1>1, <3>2, <3>4, <3>5, <3>6, PendingAfter
    <3>8. r # s
      BY <1>1, <1>3, <3>7, FinishFields, NoReqType DEF Bills, At
    <3>. QED  BY <3>1, <3>5, <3>7, <3>8 DEF ApprovalsApart, Bills
  <2>. QED  BY <2>1, <2>2, <2>3
<1>. QED  BY <1>2, <1>3 DEF BillingInv

\* Billing is idempotent per subscription: as long as no two approvals of one
\* subscription overlap, it never has two invoices that are not void, however the
\* approvals, resubmissions, deletions and settlements of all the others interleave
\* and wherever they fail.
THEOREM OneInvoiceAtATime == Spec /\ []ApprovalsApart => []OneLiveInvoice
<1>1. Init => BillingInv
  BY NoReqType DEF Init, BillingInv, OneLiveInvoice, At
<1>2. IInv /\ ApprovalsApart /\ BillingInv /\ [Next]_vars => BillingInv'
  BY NextBilling
<1>3. BillingInv => OneLiveInvoice
  BY DEF BillingInv
<1>. QED  BY <1>1, <1>2, <1>3, Invariance, PTL DEF Spec

-----------------------------------------------------------------------------
(* The plan of a live subscription *)

\* No approval overlaps a resubmission of the row it is about.
SamePair(r, s) == req[r].app = req[s].app /\ req[r].prod = req[s].prod
ResubmissionsApart ==
    \A r, s \in Requests : req[r].op = "approve" /\ req[s].op = "subscribe" => ~SamePair(r, s)

\* Until the approval is done its row has the plan it read.
PlanHeld ==
    \A r \in Requests, x \in Apps \X Products :
        req[r].op = "approve" /\ IsSubscription(x, req[r].sub) => subs[x].plan = req[r].plan

\* The row of an approval is that of its application and product.
LEMMA ApprovedPair ==
    ASSUME ApprovalInv, ApprovingInv, NEW r \in Requests, req[r].op = "approve",
           NEW x \in Apps \X Products, subs[x].id = req[r].sub
    PROVE  x = <<req[r].app, req[r].prod>>
<1>1. PICK ap \in approvals : ap = [app |-> req[r].app, prod |-> req[r].prod,
                                    sub |-> req[r].sub, plan |-> req[r].plan]
  BY DEF ApprovingInv, Approving
<1>2. ap.app = req[r].app /\ ap.prod = req[r].prod /\ ap.sub = req[r].sub
  BY <1>1
<1>. QED  BY <1>2 DEF ApprovalInv

\* The id an approval read is in use or was, so no new row gets it.
LEMMA ApprovedId ==
    ASSUME ApprovalInv, ApprovingInv, NEW r \in Requests, req[r].op = "approve"
    PROVE  req[r].sub # 0 /\ req[r].sub < nextSub
<1>1. PICK ap \in approvals : ap.sub = req[r].sub
  BY DEF ApprovingInv, Approving
<1>. QED  BY <1>1 DEF ApprovalInv

\* Starting an approval does not change the rows.
LEMMA ApproveKeepsRows ==
    ASSUME NEW r, NEW a, NEW p, Approve(r, a, p)
    PROVE  UNCHANGED subs /\ subs[<<a, p>>].status \in {"pending", "active"}
BY DEF Approve, subVars

\* The plan is held while resubmissions stay apart from approvals.
LEMMA NextPlanHeld ==
    ASSUME IInv, ResubmissionsApart, PlanHeld, [Next]_vars
    PROVE  PlanHeld'
<1>1. BaseInv /\ TypeOK /\ RowInv /\ SubsEffect /\ ApprovalInv /\ ApprovingInv
  BY NextEffect DEF IInv, BaseInv, Effect
<1>. SUFFICES ASSUME NEW s \in Requests, NEW x \in Apps \X Products, req'[s].op = "approve",
                     IsSubscription(x, req[s].sub)'
              PROVE  subs'[x].plan = req'[s].plan
  BY DEF PlanHeld
<1>2. subs'[x] # NoSub /\ subs'[x].id = req'[s].sub
  BY DEF IsSubscription
<1>3. CASE SameRow(req[s], req'[s])
  <2>1. req[s].op = "approve" /\ req'[s].sub = req[s].sub /\ req'[s].plan = req[s].plan
    BY <1>3 DEF SameRow
  <2>2. req[s].sub # 0 /\ req[s].sub < nextSub
    BY <1>1, <2>1, ApprovedId
  <2>3. req[s].sub \in Nat /\ nextSub \in Nat /\ NoSub.id = 0
    BY <1>1 DEF TypeOK, Request, NoSub
  <2>4. CASE subs'[x] = subs[x]
    BY <1>2, <2>1, <2>4 DEF PlanHeld, IsSubscription
  <2>5. ASSUME NEW r \in Requests, SavedBy(r, x) PROVE FALSE
    <3>1. subs[x].id = req[s].sub
      BY <1>2, <2>1, <2>2, <2>3, <2>5 DEF SavedBy
    <3>2. x = <<req[s].app, req[s].prod>>
      BY <1>1, <2>1, <3>1, ApprovedPair
    <3>3. x = <<req[r].app, req[r].prod>> /\ req[r].op = "subscribe"
      BY <2>5 DEF SavedBy, Saves
    <3>. QED  BY <2>1, <3>2, <3>3 DEF ResubmissionsApart, SamePair
  <2>6. ASSUME NEW r \in Requests, NEW st, SetTo(x, req[r].sub, st)
        PROVE  subs'[x].plan = req'[s].plan
    BY <1>2, <2>1, <2>6 DEF SetTo, PlanHeld, IsSubscription
  <2>. QED  BY <1>1, <1>2, <2>4, <2>5, <2>6, RowAfter
<1>4. ASSUME NEW a \in Apps, NEW p \in Products, Approve(s, a, p),
             req'[s].sub = subs[<<a, p>>].id, req'[s].plan = subs[<<a, p>>].plan
      PROVE  subs'[x].plan = req'[s].plan
  <2>1. subs' = subs /\ subs[x] # NoSub /\ subs[x].id = subs[<<a, p>>].id
    BY <1>2, <1>4, ApproveKeepsRows
  <2>2. x = <<a, p>>
    BY <1>1, <2>1 DEF RowInv
  <2>. QED  BY <1>4, <2>1, <2>2
<1>. QED  BY <1>1, <1>3, <1>4, ApprovalMoves

\* A row that becomes active has the plan of the approval that activates it.
LEMMA NextActivePlan ==
    ASSUME IInv, PlanHeld, ActivePlanApproved, [Next]_vars
    PROVE  ActivePlanApproved'
<1>1. TypeOK /\ RowInv /\ SubsEffect /\ HistoryEffect /\ ApprovalInv /\ ApprovingInv
  BY NextEffect DEF IInv, Effect
<1>. DEFINE Granted(x, row) == [app |-> x[1], prod |-> x[2], sub |-> row.id, plan |-> row.plan]
                                  \in approvals
<1>2. ASSUME NEW x \in Apps \X Products, subs'[x].status = "active"
      PROVE  Granted(x, subs'[x])
  <2>0. subs[x].status = "active" => Granted(x, subs[x])
    BY DEF ActivePlanApproved, ActiveRow
  <2>1. CASE subs'[x] = subs[x]
    BY <1>2, <2>0, <2>1
  <2>2. subs'[x] # NoSub
    BY <1>2 DEF NoSub
  <2>3. ASSUME NEW r \in Requests, Activates(r), SetTo(x, req[r].sub, "active")
        PROVE  Granted(x, subs'[x])
    <3>1. req[r].op = "approve" /\ subs[x].id = req[r].sub /\ subs'[x].id = req[r].sub
      BY <2>3 DEF Activates, SetTo, IsSubscription
    <3>2. x = <<req[r].app, req[r].prod>>
      BY <1>1, <3>1, ApprovedPair
    <3>3. subs'[x].plan = req[r].plan
      BY <2>3, <3>1 DEF SetTo, PlanHeld
    <3>. QED  BY <3>1, <3>2, <3>3 DEF IInv, ApprovingInv, Approving
  <2>. QED  BY <1>1, <1>2, <2>1, <2>2, <2>3, RowAfter DEF SavedBy, SetTo
<1>3. ASSUME NEW a \in Apps, NEW p \in Products, subs'[<<a, p>>].status = "active"
      PROVE  Granted(<<a, p>>, subs'[<<a, p>>])
  BY <1>2, <1>3
<1>. QED  BY <1>1, <1>3 DEF ActivePlanApproved, ActiveRow, HistoryEffect

\* A live subscription is on a plan an admin approved for that very row, as long
\* as no approval overlaps a resubmission of its row; all other requests may
\* overlap and fail anywhere.
THEOREM LivePlanIsApproved == Spec /\ []ResubmissionsApart => []ActivePlanApproved
<1>1. Init => PlanHeld /\ ActivePlanApproved
  BY NoReqType DEF Init, PlanHeld, ActivePlanApproved, ActiveRow, NoSub
<1>2. IInv /\ ResubmissionsApart /\ PlanHeld /\ [Next]_vars => PlanHeld'
  BY NextPlanHeld
<1>3. IInv /\ PlanHeld /\ ActivePlanApproved /\ [Next]_vars => ActivePlanApproved'
  BY NextActivePlan
<1>. QED  BY <1>1, <1>2, <1>3, Invariance, PTL DEF Spec

-----------------------------------------------------------------------------
(* The status of a subscription *)

\* No approval overlaps a rejection of the subscription it is about.
RejectionsApart ==
    \A r, s \in Requests : req[r].op = "approve" /\ req[s].op = "reject" =>
        req[r].sub # req[s].sub

\* An approval's row is not rejected, and a resubmission's not yet live.
StatusHeld ==
    /\ \A r \in Requests, x \in Apps \X Products :
          req[r].op = "approve" /\ IsSubscription(x, req[r].sub) =>
              subs[x].status \in {"pending", "active"}
    /\ \A r \in Requests :
          req[r].op = "subscribe" => subs[<<req[r].app, req[r].prod>>].status # "active"

\* The status is held while decisions on one row stay apart.
LEMMA NextStatusHeld ==
    ASSUME IInv, ResubmissionsApart, RejectionsApart, StatusHeld, [Next]_vars
    PROVE  StatusHeld'
<1>1. BaseInv /\ BaseInv' /\ TypeOK /\ RowInv /\ SubsEffect /\ ApprovalInv /\ ApprovingInv
  BY NextEffect, NextBase DEF IInv, BaseInv, Effect
<1>2. ASSUME NEW s \in Requests, NEW x \in Apps \X Products, req'[s].op = "approve",
             IsSubscription(x, req[s].sub)'
      PROVE  subs'[x].status \in {"pending", "active"}
  <2>1. subs'[x] # NoSub /\ subs'[x].id = req'[s].sub
    BY <1>2 DEF IsSubscription
  <2>2. CASE SameRow(req[s], req'[s])
    <3>1. req[s].op = "approve" /\ req'[s].sub = req[s].sub
      BY <1>2, <2>2 DEF SameRow
    <3>2. CASE subs'[x] = subs[x]
      BY <2>1, <3>1, <3>2 DEF StatusHeld, IsSubscription
    <3>3. ASSUME NEW r \in Requests, Rejects(r), SetTo(x, req[r].sub, "rejected") PROVE FALSE
      BY <2>1, <3>1, <3>3 DEF SetTo, Rejects, RejectionsApart
    <3>. QED  BY <1>1, <2>1, <3>2, <3>3, RowAfter DEF SavedBy, SetTo
  <2>3. ASSUME NEW a \in Apps, NEW p \in Products, Approve(s, a, p),
               req'[s].sub = subs[<<a, p>>].id
        PROVE  subs'[x].status \in {"pending", "active"}
    <3>1. /\ subs' = subs /\ subs[x] # NoSub /\ subs[x].id = subs[<<a, p>>].id
          /\ subs[<<a, p>>].status \in {"pending", "active"}
      BY <2>1, <2>3, ApproveKeepsRows
    <3>2. x = <<a, p>>
      BY <1>1, <3>1 DEF RowInv
    <3>. QED  BY <3>1, <3>2
  <2>. QED  BY <1>1, <1>2, <2>2, <2>3, ApprovalMoves
<1>3. ASSUME NEW s \in Requests, req'[s].op = "subscribe"
      PROVE  subs'[<<req'[s].app, req'[s].prod>>].status # "active"
  <2>. DEFINE x == <<req'[s].app, req'[s].prod>>
  <2>1. x \in Apps \X Products
    BY <1>1, <1>3 DEF BaseInv, ShapeInv, RequestShape, AdminOps
  <2>2. CASE SameRow(req[s], req'[s])
    <3>1. req[s].op = "subscribe" /\ x = <<req[s].app, req[s].prod>>
      BY <1>3, <2>2 DEF SameRow
    <3>. HIDE DEF x
    <3>2. subs[x].status # "active"
      BY <3>1 DEF StatusHeld
    <3>3. ASSUME NEW r \in Requests, Activates(r), SetTo(x, req[r].sub, "active") PROVE FALSE
      <4>1. req[r].op = "approve" /\ subs[x].id = req[r].sub
        BY <3>3 DEF Activates, SetTo, IsSubscription
      <4>2. x = <<req[r].app, req[r].prod>>
        BY <1>1, <2>1, <4>1, ApprovedPair
      <4>. QED  BY <3>1, <4>1, <4>2 DEF ResubmissionsApart, SamePair
    <3>4. subs'[x].status # "active"
      BY <1>1, <2>1, <3>2, <3>3, RowAfter DEF SavedBy, SetTo, NoSub
    <3>. QED  BY <3>4 DEF x
  <2>3. ASSUME NEW a \in Apps, NEW p \in Products, NEW pl \in Plans, Subscribe(s, a, p, pl),
               req'[s].app = a, req'[s].prod = p
        PROVE  subs'[x].status # "active"
    BY <2>3 DEF Subscribe, Unprovisioned, subVars
  <2>. QED  BY <1>1, <1>3, <2>2, <2>3, SubscribeMoves
<1>. QED  BY <1>2, <1>3 DEF StatusHeld

\* A rejected subscription is not approved without being requested again, and a
\* live one is not put back to pending, as long as an approval overlaps no
\* resubmission and no rejection of its own row.
THEOREM StatusNeverSkips == Spec /\ [](ResubmissionsApart /\ RejectionsApart) => StatusTransitions
<1>1. Init => StatusHeld
  BY NoReqType DEF Init, StatusHeld
<1>2. IInv /\ ResubmissionsApart /\ RejectionsApart /\ StatusHeld /\ [Next]_vars => StatusHeld'
  BY NextStatusHeld
<1>. DEFINE Kept == \A x \in Apps \X Products : subs[x].id = subs'[x].id =>
                        /\ subs[x].status = "rejected" => subs'[x].status # "active"
                        /\ subs[x].status = "active" => subs'[x].status # "pending"
<1>3. ASSUME IInv, StatusHeld, [Next]_vars PROVE Kept
  <2>1. TypeOK /\ SubsEffect
    BY <1>3, NextEffect DEF IInv, Effect
  <2>. SUFFICES ASSUME NEW x \in Apps \X Products
                PROVE  /\ subs[x].status = "rejected" => subs'[x].status # "active"
                       /\ subs[x].status = "active" => subs'[x].status # "pending"
    OBVIOUS
  <2>2. ASSUME NEW r \in Requests, SavedBy(r, x) PROVE subs[x].status # "active"
    BY <1>3, <2>2 DEF SavedBy, Saves, StatusHeld
  <2>3. ASSUME NEW r \in Requests, Activates(r), SetTo(x, req[r].sub, "active")
        PROVE  subs[x].status # "rejected"
    BY <1>3, <2>3 DEF Activates, SetTo, StatusHeld
  <2>. QED  BY <2>1, <2>2, <2>3, RowAfter DEF SavedBy, SetTo, NoSub
<1>4. IInv /\ StatusHeld /\ [Next]_vars => [Kept]_vars
  BY <1>3
<1>. QED  BY <1>1, <1>2, <1>4, Invariance, PTL DEF Spec, StatusTransitions

-----------------------------------------------------------------------------
(* Products and applications *)

\* What a step makes of a product: what it was, nothing, with its rows gone, or
\* what an update in progress saves.
EditedBy(r, p) ==
    /\ At(r, "product.save") /\ req[r].op = "updateProduct" /\ req[r].prod = p
    /\ products[p].live /\ products'[p] = req[r].row /\ req'[r].pc # "product.save"
ProductsEffect ==
    \A p \in Products :
        \/ products'[p] = products[p]
        \/ products'[p] = NoProduct /\ \A a \in Apps : subs'[<<a, p>>] = NoSub
        \/ \E r \in Requests : EditedBy(r, p)

\* An application keeps its row and its client id, registers another client id,
\* or goes with its subscriptions.
AppsEffect ==
    \A a \in Apps :
        \/ oidc'[a] = oidc[a] /\ (a \in apps => a \in apps')
        \/ apps' = apps /\ \E r \in Requests : req'[r].op = "setOidc"
        \/ \A p \in Products : subs'[<<a, p>>] = NoSub

\* A fault uses one of those left.
FaultsEffect == faults' = faults \/ (faults > 0 /\ faults' = faults - 1)
Frame == UNCHANGED <<products, apps, oidc>> /\ FaultsEffect
Administers == ProductsEffect /\ AppsEffect /\ FaultsEffect

\* Neither table is written by a step that leaves both alone.
LEMMA AdminFrame == Frame => Administers
BY DEF Frame, Administers, ProductsEffect, AppsEffect

\* The statements of product administration.
LEMMA ProductAdminEffect ==
    ASSUME BaseInv, NEW r \in Requests, ProductNext(r)
    PROVE  Administers
<1>1. TypeOK /\ req[r] \in Request /\ RequestShape(req[r])
  BY DEF BaseInv, TypeOK, ShapeInv
<1>2. CASE \/ \E p \in Products, row \in Edits, moved \in SUBSET {"upstream", "sandbox"} :
                 UpdateProduct(r, p, row, moved)
           \/ \E p \in Products : DeleteProduct(r, p)
           \/ ProductCount(r) \/ ProductDeprovision(r)
  BY <1>2, AdminFrame DEF UpdateProduct, DeleteProduct, ProductCount, ProductDeprovision,
                          Unprovisioned, adminVars, appVars, Frame, FaultsEffect
<1>3. CASE ProductSave(r)
  <2>1. req[r].op = "updateProduct" /\ req[r].prod \in Products
    BY <1>1, <1>3 DEF ProductSave, At, RequestShape, MayBeAt
  <2>2. CASE UNCHANGED products
    BY <1>3, <2>2, AdminFrame DEF ProductSave, appVars, Frame, FaultsEffect
  <2>3. CASE /\ products[req[r].prod].live
             /\ products' = [products EXCEPT ![req[r].prod] = req[r].row]
             /\ Remaining(r, req[r].work)
    <3>1. req'[r].pc # "product.save"
      BY <1>1, <2>3, GotoFields, FinishFields, NoReqType DEF Remaining
    <3>2. EditedBy(r, req[r].prod)
      BY <1>1, <1>3, <2>1, <2>3, <3>1 DEF EditedBy, ProductSave, TypeOK
    <3>3. \A p \in Products : p # req[r].prod => products'[p] = products[p]
      BY <1>1, <2>3 DEF TypeOK
    <3>. QED  BY <1>3, <2>1, <3>2, <3>3 DEF Administers, ProductsEffect, AppsEffect, FaultsEffect, ProductSave, appVars
  <2>. QED  BY <1>3, <2>2, <2>3 DEF ProductSave
<1>4. CASE ProductDelete(r)
  <2>1. req[r].prod \in Products
    BY <1>1, <1>4 DEF ProductDelete, At, RequestShape, MayBeAt
  <2>2. CASE UNCHANGED products
    BY <1>4, <2>2, AdminFrame DEF ProductDelete, appVars, Frame, FaultsEffect
  <2>3. ASSUME NEW p \in Products, p = req[r].prod, products' = [products EXCEPT ![p] = NoProduct],
               subs' = [x \in Apps \X Products |-> IF x[2] = p THEN NoSub ELSE subs[x]]
        PROVE  ProductsEffect
    <3>1. products'[p] = NoProduct /\ \A a \in Apps : subs'[<<a, p>>] = NoSub
      BY <1>1, <2>3 DEF TypeOK
    <3>2. \A q \in Products : q # p => products'[q] = products[q]
      BY <1>1, <2>3 DEF TypeOK
    <3>. QED  BY <3>1, <3>2 DEF ProductsEffect
  <2>. QED  BY <1>4, <2>1, <2>2, <2>3 DEF ProductDelete, Administers, AppsEffect, FaultsEffect, appVars
<1>. QED  BY <1>2, <1>3, <1>4 DEF ProductNext

\* The statements of the owner's operations.
LEMMA OwnerAppsEffect ==
    ASSUME BaseInv, NEW r \in Requests, CredentialsNext(r)
    PROVE  Administers
<1>1. TypeOK /\ req[r] \in Request /\ RequestShape(req[r])
  BY DEF BaseInv, TypeOK, ShapeInv
<1>2. ASSUME NEW a \in Apps, Rotate(r, a) \/ RotateSandbox(r, a) \/ EnableSandbox(r, a) \/ DeleteApp(r, a)
      PROVE  Frame
  BY <1>2 DEF Rotate, RotateSandbox, EnableSandbox, DeleteApp, Unprovisioned, adminVars, appVars, Frame, FaultsEffect
<1>3. ASSUME NEW a \in Apps, NEW c, SetOidc(r, a, c)
      PROVE  Administers
  <2>1. req'[r].op = "setOidc"
    BY <1>1, <1>3 DEF SetOidc, Begin, TypeOK, NoReq
  <2>. QED  BY <1>3, <2>1 DEF SetOidc, adminVars, Administers, ProductsEffect, AppsEffect, FaultsEffect
<1>4. ASSUME \/ RotateConsumer(r) \/ RotateSave(r) \/ EnableConsumer(r) \/ EnableSave(r)
             \/ OidcProducts(r) \/ DeleteNext(r) \/ DeleteCredential(r) \/ DeleteConsumer(r)
             \/ DeleteSandboxKey(r) \/ DeleteSandboxConsumer(r)
      PROVE  Frame
  BY <1>4 DEF RotateConsumer, RotateSave, EnableConsumer, EnableSave, OidcProducts, DeleteNext,
              DeleteCredential, DeleteConsumer, DeleteSandboxKey, DeleteSandboxConsumer,
              Unprovisioned, adminVars, appVars, Frame, FaultsEffect
<1>5. CASE DeleteRow(r)
  <2>1. req[r].app \in Apps
    BY <1>1, <1>5 DEF DeleteRow, At, RequestShape, MayBeAt, DeletePcs, AdminOps
  <2>2. \A p \in Products : subs'[<<req[r].app, p>>] = NoSub
    BY <1>5, <2>1 DEF DeleteRow
  <2>3. \A a \in Apps : a # req[r].app => oidc'[a] = oidc[a] /\ (a \in apps => a \in apps')
    BY <1>1, <1>5, <2>1 DEF DeleteRow, TypeOK
  <2>4. AppsEffect
    BY <2>2, <2>3 DEF AppsEffect
  <2>. QED  BY <1>5, <2>4 DEF DeleteRow, adminVars, Administers, ProductsEffect, FaultsEffect
<1>. QED  BY <1>2, <1>3, <1>4, <1>5, AdminFrame DEF CredentialsNext

\* The effect of any step on the products and the applications.
LEMMA AdminEffect ==
    ASSUME BaseInv, [Next]_vars
    PROVE  Administers
<1>1. CASE UNCHANGED vars
  BY <1>1, AdminFrame DEF vars, Frame, FaultsEffect
<1>2. CASE BillingNext \/ \E pl \in Plans, row \in PlanEdits : CreatePlan(pl, row)
  BY <1>2, AdminFrame DEF BillingNext, MarkPaid, Void, Settle, CreatePlan, adminVars, appVars, Frame, FaultsEffect
<1>3. ASSUME NEW r \in Requests, RouteNext(r) \/ Fail(r)
      PROVE  Administers
  BY <1>3, AdminFrame DEF RouteNext, RouteProduct, RouteMembers, RoutePush, SandboxProduct,
     SandboxMembers, SandboxPush, Fail, Unprovisioned, adminVars, appVars, Frame, FaultsEffect
<1>4. ASSUME NEW r \in Requests, SubscriptionNext(r)
      PROVE  Administers
  <2>1. ASSUME NEW a \in Apps, NEW p \in Products, NEW pl \in Plans, Subscribe(r, a, p, pl)
        PROVE  Frame
    BY <2>1 DEF Subscribe, Unprovisioned, adminVars, appVars, Frame, FaultsEffect
  <2>2. ASSUME \/ SubscribeCredential(r) \/ SubscribeSave(r) \/ RejectSet(r)
               \/ ApproveProduct(r) \/ ApproveClientId(r) \/ ApproveCredential(r) \/ ApproveConsumer(r)
               \/ ApproveActivate(r) \/ ApproveSandbox(r) \/ BillPricing(r) \/ BillCreate(r)
        PROVE  Frame
    BY <2>2 DEF SubscribeCredential, SubscribeSave, RejectSet, ApproveProduct, ApproveClientId,
       ApproveCredential, ApproveConsumer, ApproveActivate, ApproveSandbox, BillPricing, BillCreate,
       Unprovisioned, adminVars, appVars, Frame, FaultsEffect
  <2>3. ASSUME NEW a \in Apps, NEW p \in Products, Unsubscribe(r, a, p) \/ Reject(r, a, p) \/ Approve(r, a, p)
        PROVE  Frame
    BY <2>3 DEF Unsubscribe, Reject, Approve, Unprovisioned, adminVars, appVars, Frame, FaultsEffect
  <2>. QED  BY <1>4, <2>1, <2>2, <2>3, AdminFrame DEF SubscriptionNext
<1>5. ASSUME NEW r \in Requests, PlanNext(r)
      PROVE  Administers
  BY <1>5, AdminFrame DEF PlanNext, UpdatePlan, DeletePlan, PlanSave, PlanRead, PlanConsumers, PlanPush,
     PlanSandboxConsumers, PlanSandboxPush, PlanDelete, Unprovisioned, adminVars, appVars, Frame, FaultsEffect
<1>. QED
  BY <1>1, <1>2, <1>3, <1>4, <1>5, ProductAdminEffect, OwnerAppsEffect DEF Next, Step

-----------------------------------------------------------------------------
(* Migrations to oauth2 *)

\* No update of a product overlaps an approval of it, another update of it, or a
\* change of an application's client id.
MigrationsApart ==
    \A r, s \in Requests : req[r].op = "updateProduct" =>
        /\ r # s /\ req[s].op \in {"approve", "updateProduct"} => req[s].prod # req[r].prod
        /\ req[s].op # "setOidc"

\* A migration checked is still one that strands nobody when it is saved.
Migrates(q) == /\ q.pc = "product.save" /\ q.row.auth = "oauth2"
               /\ products[q.prod].live /\ products[q.prod].auth = "key-auth"
ReadyInv ==
    \A r \in Requests, a \in Apps : Migrates(req[r]) /\ ActiveRow(a, req[r].prod) => oidc[a] # None

\* What the migration was checked against holds until it is saved.
LEMMA NextReady ==
    ASSUME IInv, MigrationsApart, MigrationsApart', ReadyInv, [Next]_vars
    PROVE  ReadyInv'
<1>1. /\ BaseInv /\ BaseInv' /\ TypeOK /\ TypeOK' /\ ShapeInv' /\ SubsEffect
      /\ ApprovalInv /\ ApprovingInv /\ ProductsEffect /\ AppsEffect
  BY NextEffect, NextBase, AdminEffect DEF IInv, BaseInv, Effect, Administers
<1>. SUFFICES ASSUME NEW s \in Requests, NEW a \in Apps, Migrates(req[s])',
                     ActiveRow(a, req[s].prod)'
              PROVE  oidc'[a] # None
  BY DEF ReadyInv
<1>. DEFINE p == req'[s].prod
<1>2. /\ req'[s].pc = "product.save" /\ req'[s].row.auth = "oauth2"
      /\ products'[p].live /\ products'[p].auth = "key-auth"
      /\ subs'[<<a, p>>].status = "active"
  BY DEF Migrates, ActiveRow
<1>3. req'[s].op = "updateProduct" /\ p \in Products
  BY <1>1, <1>2 DEF ShapeInv, RequestShape, MayBeAt
<1>4. CASE req'[s] = req[s]
  <2>1. req[s].op = "updateProduct" /\ req[s].prod = p
    BY <1>3, <1>4
  <2>2. products'[p] = products[p]
    <3>1. products'[p] # NoProduct
      BY <1>2 DEF NoProduct
    <3>2. ASSUME NEW r \in Requests, EditedBy(r, p) PROVE FALSE
      <4>1. r # s
        BY <1>2, <3>2 DEF EditedBy
      <4>. QED  BY <2>1, <3>2, <4>1 DEF EditedBy, MigrationsApart
    <3>. QED  BY <1>1, <1>3, <3>1, <3>2 DEF ProductsEffect
  <2>3. subs[<<a, p>>].status = "active"
    <3>. DEFINE x == <<a, p>>
    <3>1. x \in Apps \X Products /\ subs'[x].status = "active"
      BY <1>2, <1>3
    <3>2. ASSUME NEW r \in Requests, Activates(r), SetTo(x, req[r].sub, "active") PROVE FALSE
      <4>1. req[r].op = "approve" /\ subs[x].id = req[r].sub
        BY <3>2 DEF Activates, SetTo, IsSubscription
      <4>2. x = <<req[r].app, req[r].prod>>
        BY <1>1, <3>1, <4>1, ApprovedPair
      <4>3. req[r].prod = p /\ r # s
        BY <2>1, <4>1, <4>2
      <4>. QED  BY <2>1, <4>1, <4>3 DEF MigrationsApart
    <3>. HIDE DEF x
    <3>3. subs[x].status = "active"
      BY <1>1, <3>1, <3>2, RowAfter DEF SavedBy, SetTo, NoSub
    <3>. QED  BY <3>3 DEF x
  <2>4. oidc[a] # None
    BY <1>2, <1>4, <2>2, <2>3 DEF ReadyInv, Migrates, ActiveRow
  <2>5. oidc'[a] = oidc[a]
    <3>1. subs'[<<a, p>>] # NoSub
      BY <1>2 DEF NoSub
    <3>2. \A r \in Requests : req'[r].op # "setOidc"
      BY <1>3 DEF MigrationsApart
    <3>. QED  BY <1>1, <1>3, <3>1, <3>2 DEF AppsEffect
  <2>. QED  BY <2>4, <2>5
<1>5. CASE Step(s) \/ Fail(s)
  <2>1. PICK z \in Products, row \in Edits, moved \in SUBSET {"upstream", "sandbox"} :
            UpdateProduct(s, z, row, moved)
    BY <1>1, <1>2, <1>5, WatchedEntered DEF BaseInv, Watched
  <2>2. req'[s].prod = z /\ req'[s].row = row
    BY <1>1, <2>1 DEF UpdateProduct, Begin, TypeOK, NoReq
  <2>3. products' = products /\ subs' = subs /\ oidc' = oidc
    BY <2>1 DEF UpdateProduct, Unprovisioned, adminVars, subVars, appVars
  <2>. QED  BY <1>2, <2>1, <2>2, <2>3 DEF UpdateProduct, ActiveApps
<1>. QED  BY <1>1, <1>4, <1>5, EachMoves

\* Migrating a product to oauth2 strands no active subscriber without a client id,
\* as long as nobody is approved for the product, no other update of it runs and
\* no client id changes between the check and the save.
THEOREM MigrationIsSafe == Spec /\ []MigrationsApart => MigrationStrandsNobody
<1>1. Init => ReadyInv
  BY NoReqType DEF Init, ReadyInv, Migrates
<1>2. IInv /\ MigrationsApart /\ MigrationsApart' /\ ReadyInv /\ [Next]_vars => ReadyInv'
  BY NextReady
<1>. DEFINE Safe == \A p \in Products : products[p].auth = "key-auth" /\ products'[p].auth = "oauth2" =>
                        \A a \in ActiveApps(p) : oidc[a] # None
<1>3. ASSUME IInv, ReadyInv, [Next]_vars PROVE Safe
  <2>1. ProductsEffect
    BY <1>3, AdminEffect DEF IInv, BaseInv, Administers
  <2>2. NoProduct.auth = "key-auth"
    BY DEF NoProduct
  <2>. SUFFICES ASSUME NEW p \in Products, products[p].auth = "key-auth", products'[p].auth = "oauth2",
                       NEW a \in ActiveApps(p)
                PROVE  oidc[a] # None
    OBVIOUS
  <2>3. PICK r \in Requests : EditedBy(r, p)
    BY <2>1, <2>2 DEF ProductsEffect
  <2>4. Migrates(req[r]) /\ req[r].prod = p
    BY <2>3 DEF EditedBy, Migrates, At
  <2>. QED  BY <1>3, <2>4 DEF ReadyInv, ActiveRow, ActiveApps
<1>4. IInv /\ ReadyInv /\ [Next]_vars => [Safe]_vars
  BY <1>3
<1>. QED  BY <1>1, <1>2, <1>4, Invariance, PTL DEF Spec, MigrationStrandsNobody

-----------------------------------------------------------------------------
(* Paid subscriptions *)

\* Of the requests, only Update and Delete write the plan table.
LEMMA PlanWrites ==
    ASSUME NEW r, Step(r)
    PROVE  UNCHANGED plans \/ PlanSave(r) \/ PlanDelete(r)
<1>1. ASSUME RouteNext(r)
      PROVE  UNCHANGED plans
  BY <1>1 DEF RouteNext, RouteProduct, RouteMembers, RoutePush, SandboxProduct,
     SandboxMembers, SandboxPush, Unprovisioned, adminVars
<1>2. ASSUME SubscriptionNext(r)
      PROVE  UNCHANGED plans
  BY <1>2 DEF SubscriptionNext, Subscribe, SubscribeCredential, SubscribeSave, Unsubscribe, Reject,
     RejectSet, Approve, ApproveProduct, ApproveClientId, ApproveCredential, ApproveConsumer,
     ApproveActivate, ApproveSandbox, BillPricing, BillCreate, Unprovisioned, adminVars
<1>3. ASSUME CredentialsNext(r)
      PROVE  UNCHANGED plans
  BY <1>3 DEF CredentialsNext, Rotate, RotateSandbox, EnableSandbox, DeleteApp, SetOidc,
     RotateConsumer, RotateSave, EnableConsumer, EnableSave, OidcProducts, DeleteNext,
     DeleteCredential, DeleteConsumer, DeleteSandboxKey, DeleteSandboxConsumer, DeleteRow,
     Unprovisioned, adminVars
<1>4. ASSUME ProductNext(r)
      PROVE  UNCHANGED plans
  BY <1>4 DEF ProductNext, UpdateProduct, DeleteProduct, ProductSave, ProductCount, ProductDelete,
     ProductDeprovision, Unprovisioned, adminVars
<1>5. ASSUME PlanNext(r)
      PROVE  UNCHANGED plans \/ PlanSave(r) \/ PlanDelete(r)
  BY <1>5 DEF PlanNext, UpdatePlan, DeletePlan, PlanRead, PlanConsumers, PlanPush,
     PlanSandboxConsumers, PlanSandboxPush, Unprovisioned, adminVars
<1>. QED  BY <1>1, <1>2, <1>3, <1>4, <1>5 DEF Step

\* Only CreatePlan, Update and Delete write the plan table.
LEMMA PlanTableWritten ==
    ASSUME BaseInv, [Next]_vars
    PROVE  \/ UNCHANGED plans
           \/ \E pl \in Plans, row \in PlanEdits : CreatePlan(pl, row)
           \/ \E r \in Requests : PlanSave(r) \/ PlanDelete(r)
<1>1. CASE UNCHANGED vars
  BY <1>1 DEF vars
<1>2. CASE BillingNext
  BY <1>2 DEF BillingNext, MarkPaid, Void, Settle, adminVars
<1>3. ASSUME NEW r \in Requests, Fail(r)
      PROVE  UNCHANGED plans
  BY <1>3 DEF Fail, adminVars
<1>. QED  BY <1>1, <1>2, <1>3, PlanWrites DEF Next

\* Only operations this instance allows are in progress.
OpsInv == \A r \in Requests : req[r].op \in Ops \cup {"none"}
LEMMA NextOps ==
    ASSUME BaseInv, OpsInv, [Next]_vars
    PROVE  OpsInv'
<1>1. ASSUME NEW s \in Requests PROVE req'[s].op \in Ops \cup {"none"}
  BY EachMoves, FinishFields, NoReqType DEF OpsInv, Moves, Starts, Continues, BaseInv
<1>. QED  BY <1>1 DEF OpsInv

\* Where plans are not edited, a plan in use keeps its price.
LEMMA PriceKept ==
    ASSUME BaseInv, OpsInv, "updatePlan" \notin Ops, [Next]_vars,
           NEW pl \in Plans, plans[pl].state = "live"
    PROVE  plans'[pl].paid = plans[pl].paid
<1>1. TypeOK /\ ShapeInv /\ plans[pl] \in PlanRow
  BY DEF BaseInv, TypeOK
<1>2. ASSUME NEW q \in Plans, NEW row, CreatePlan(q, row) PROVE plans'[pl] = plans[pl]
  BY <1>1, <1>2 DEF CreatePlan, TypeOK
<1>3. ASSUME NEW r \in Requests, PlanSave(r) PROVE FALSE
  BY <1>1, <1>3 DEF OpsInv, PlanSave, At, ShapeInv, RequestShape, MayBeAt, PlanPcs
<1>4. ASSUME NEW r \in Requests, PlanDelete(r) PROVE plans'[pl].paid = plans[pl].paid
  <2>. DEFINE q == req[r].plan
              gone == [plans[q] EXCEPT !.state = "gone"]
  <2>1. q \in Plans /\ plans[q] \in PlanRow
    BY <1>1, <1>4 DEF PlanDelete, At, ShapeInv, RequestShape, MayBeAt, TypeOK
  <2>2. gone.paid = plans[q].paid
    BY <2>1 DEF PlanRow
  <2>3. plans' = plans \/ plans' = [plans EXCEPT ![q] = gone]
    BY <1>4 DEF PlanDelete
  <2>. HIDE DEF gone
  <2>. QED  BY <1>1, <2>1, <2>2, <2>3 DEF TypeOK
<1>. QED  BY <1>2, <1>3, <1>4, PlanTableWritten

\* What an update saves is a product.
EditHeld == \A r \in Requests : req[r].op = "updateProduct" => req[r].row.live
LEMMA NextEditHeld ==
    ASSUME BaseInv, EditHeld, [Next]_vars
    PROVE  EditHeld'
<1>1. TypeOK
  BY DEF BaseInv
<1>2. ASSUME NEW s \in Requests, req'[s].op = "updateProduct" PROVE req'[s].row.live
  <2>1. ASSUME NEW a \in Apps, NEW p \in Products, NEW pl \in Plans, Subscribe(s, a, p, pl)
        PROVE  req'[s].op = "subscribe"
    BY <1>1, <2>1 DEF Subscribe, Begin, TypeOK, NoReq
  <2>2. ASSUME NEW a \in Apps, NEW p \in Products, Approve(s, a, p)
        PROVE  req'[s].op = "approve"
    BY <1>1, <2>2 DEF Approve, Begin, TypeOK, NoReq
  <2>3. ASSUME NEW p \in Products, NEW row \in Edits, NEW moved \in SUBSET {"upstream", "sandbox"},
               UpdateProduct(s, p, row, moved)
        PROVE  req'[s].row.live
    <3>1. req'[s].row = row
      BY <1>1, <2>3 DEF UpdateProduct, Begin, TypeOK, NoReq
    <3>. QED  BY <3>1, EditsType
  <2>4. ~Finish(s)
    BY <1>1, <1>2, FinishFields, NoReqType
  <2>. QED  BY <1>2, <2>1, <2>2, <2>3, <2>4, EachMoves DEF Moves, Starts, Continues, EditHeld
<1>. QED  BY <1>2 DEF EditHeld

\* The foreign keys of a subscription: its application and its product exist.
Referenced ==
    \A x \in Apps \X Products : subs[x] # NoSub => x[1] \in apps /\ products[x[2]].live
LEMMA NextReferenced ==
    ASSUME BaseInv, EditHeld, Referenced, [Next]_vars
    PROVE  Referenced'
<1>1. TypeOK /\ SubsEffect /\ ProductsEffect /\ AppsEffect
  BY NextEffect, AdminEffect DEF BaseInv, Effect, Administers
<1>2. ASSUME NEW x \in Apps \X Products, subs'[x] # NoSub
      PROVE  x[1] \in apps' /\ products'[x[2]].live
  <2>1. x[1] \in Apps /\ x[2] \in Products /\ x = <<x[1], x[2]>>
    OBVIOUS
  <2>2. x[1] \in apps /\ products[x[2]].live
    BY <1>1, <1>2, RowAfter DEF Referenced, SavedBy, Saves, SetTo, IsSubscription
  <2>3. x[1] \in apps'
    BY <1>1, <1>2, <2>1, <2>2 DEF AppsEffect
  <2>4. products'[x[2]].live
    BY <1>1, <1>2, <2>1, <2>2 DEF ProductsEffect, EditedBy, EditHeld
  <2>. QED  BY <2>3, <2>4
<1>. QED  BY <1>2 DEF Referenced

\* An approval between its activation and its invoice.
Windows == {"approve.sandbox", "sandbox.product", "sandbox.members", "sandbox.push",
            "bill.pricing", "bill.create"}
BeingBilled(r, id) == req[r].op = "approve" /\ req[r].sub = id /\ req[r].pc \in Windows
Invoiced(id) == \E n \in DOMAIN invoices : invoices[n].sub = id
BilledInv ==
    \A x \in Apps \X Products :
        subs[x].status = "active" /\ plans[subs[x].plan].paid =>
            Invoiced(subs[x].id) \/ \E r \in Requests : BeingBilled(r, subs[x].id)

\* The statements between the two.
LEMMA WindowStep ==
    ASSUME NEW r \in Requests, Step(r), req[r].op = "approve", req[r].pc \in Windows
    PROVE  \/ ApproveSandbox(r) \/ SandboxProduct(r) \/ SandboxMembers(r) \/ SandboxPush(r)
           \/ BillPricing(r) \/ BillCreate(r)
<1>1. ~Idle(r)
  BY DEF Idle
<1>2. ~CredentialsNext(r)
  BY <1>1 DEF Windows, At, CredentialsNext, Rotate, RotateSandbox, EnableSandbox, DeleteApp, SetOidc, Begin,
     RotateConsumer, RotateSave, EnableConsumer, EnableSave, OidcProducts, DeleteNext, DeleteCredential,
     DeleteConsumer, DeleteSandboxKey, DeleteSandboxConsumer, DeleteRow
<1>3. ~ProductNext(r)
  BY <1>1 DEF Windows, At, ProductNext, UpdateProduct, DeleteProduct, Begin, ProductSave, ProductCount,
     ProductDelete, ProductDeprovision
<1>4. ~PlanNext(r)
  BY <1>1 DEF Windows, At, PlanNext, UpdatePlan, DeletePlan, Begin, PlanSave, PlanRead, PlanConsumers,
     PlanPush, PlanSandboxConsumers, PlanSandboxPush, PlanDelete
<1>5. RouteNext(r) => SandboxProduct(r) \/ SandboxMembers(r) \/ SandboxPush(r)
  BY DEF Windows, At, RouteNext, RouteProduct, RouteMembers, RoutePush
<1>6. SubscriptionNext(r) => ApproveSandbox(r) \/ BillPricing(r) \/ BillCreate(r)
  BY <1>1 DEF Windows, At, SubscriptionNext, Subscribe, Unsubscribe, Reject, Approve, Begin, SubscribeCredential,
     SubscribeSave, RejectSet, ApproveProduct, ApproveClientId, ApproveCredential, ApproveConsumer,
     ApproveActivate
<1>. QED  BY <1>2, <1>3, <1>4, <1>5, <1>6 DEF Step

\* An approval that was activated goes on until it has billed, unless its plan is
\* free, its invoice exists, or what it is about is gone.
LEMMA BillingGoesOn ==
    ASSUME TypeOK, NEW r \in Requests, Step(r), NEW id, BeingBilled(r, id)
    PROVE  \/ BeingBilled(r, id)'
           \/ Bills(r)
           \/ UNCHANGED invoices /\ ~(plans[req[r].plan].state = "live" /\ plans[req[r].plan].paid)
           \/ UNCHANGED invoices /\ PendingInvoiceExists(id)
           \/ ~products[req[r].prod].live \/ req[r].app \notin apps \/ ~HasSubscription(id)
<1>1. req[r] \in Request /\ req[r].op = "approve" /\ req[r].sub = id /\ req[r].pc \in Windows
  BY DEF TypeOK, BeingBilled
<1>2. ASSUME NEW pc \in Windows, Goto(r, pc) \/ ReturnTo(r, pc) PROVE BeingBilled(r, id)'
  BY <1>1, <1>2, GotoFields, ReturnToFields DEF Same, BeingBilled
<1>3. CASE ApproveSandbox(r)
  BY <1>2, <1>3 DEF ApproveSandbox, Windows
<1>4. CASE SandboxProduct(r)
  BY <1>2, <1>4 DEF SandboxProduct, Windows
<1>5. CASE SandboxMembers(r)
  <2>1. PICK S : req'[r] = [req[r] EXCEPT !.pc = "sandbox.push", !.allowed = S]
    BY <1>5 DEF SandboxMembers, TypeOK
  <2>. QED  BY <1>1, <2>1 DEF Request, BeingBilled, Windows
<1>6. CASE SandboxPush(r)
  BY <1>1, <1>2, <1>6 DEF SandboxPush, AfterSandboxRoute, Windows
<1>7. CASE BillPricing(r)
  BY <1>1, <1>2, <1>7 DEF BillPricing, Windows, Unprovisioned, billVars
<1>8. CASE BillCreate(r)
  BY <1>1, <1>8 DEF BillCreate, Bills
<1>. QED  BY <1>1, <1>3, <1>4, <1>5, <1>6, <1>7, <1>8, WindowStep

\* The invoice of a subscription that is not deleted stays attached to it.
LEMMA InvoiceStays ==
    ASSUME TypeOK, RowInv, InvoicesEffect, NEW x \in Apps \X Products,
           NEW id, subs[x].id = id, subs[x] # NoSub, subs'[x] # NoSub, Invoiced(id)
    PROVE  Invoiced(id)'
<1>1. PICK n \in DOMAIN invoices : invoices[n].sub = id
  BY DEF Invoiced
<1>2. id # 0 /\ NoSub.id = 0 /\ \A y \in Apps \X Products : subs[y].id = id => y = x
  BY DEF RowInv, NoSub
<1>3. CASE UNCHANGED invoices
  BY <1>1, <1>3 DEF Invoiced
<1>4. ASSUME NEW D \in SUBSET (Apps \X Products), Erases(D) PROVE Invoiced(id)'
  <2>1. x \notin D
    BY <1>4 DEF Erases, EraseRows
  <2>2. id \notin {subs[y].id : y \in D}
    BY <1>2, <2>1
  <2>3. n \in DOMAIN invoices' /\ invoices'[n] = invoices[n]
    BY <1>1, <1>4, <2>2 DEF Erases, DetachInvoices
  <2>. QED  BY <1>1, <2>3 DEF Invoiced
<1>5. ASSUME NEW r \in Requests, Bills(r) PROVE Invoiced(id)'
  <2>1. n \in DOMAIN invoices' /\ invoices'[n] = invoices[n]
    BY <1>5 DEF Bills, TypeOK
  <2>. QED  BY <1>1, <2>1 DEF Invoiced
<1>6. ASSUME NEW m \in DOMAIN invoices, NEW st, invoices' = [invoices EXCEPT ![m].status = st]
      PROVE  Invoiced(id)'
  <2>. DEFINE j == [invoices[m] EXCEPT !.status = st]
  <2>1. j.sub = invoices[m].sub
    BY DEF TypeOK, InvoiceRow
  <2>2. invoices' = [invoices EXCEPT ![m] = j]
    BY <1>6
  <2>. HIDE DEF j
  <2>3. n \in DOMAIN invoices' /\ invoices'[n].sub = id
    BY <1>1, <2>1, <2>2
  <2>. QED  BY <2>3 DEF Invoiced
<1>. QED  BY <1>3, <1>4, <1>5, <1>6 DEF InvoicesEffect

\* An active subscription to a paid plan is invoiced or about to be.
LEMMA NextBilled ==
    ASSUME IInv, OpsInv, "updatePlan" \notin Ops, faults = 0, PlanHeld, EditHeld, Referenced,
           BilledInv, [Next]_vars
    PROVE  BilledInv'
<1>1. /\ BaseInv /\ TypeOK /\ ShapeInv /\ RowInv /\ SubsEffect /\ InvoicesEffect
      /\ ApprovalInv /\ ApprovingInv /\ Referenced'
  BY NextEffect, NextReferenced DEF IInv, BaseInv, Effect
<1>. SUFFICES ASSUME NEW x \in Apps \X Products, subs'[x].status = "active",
                     plans'[subs'[x].plan].paid
              PROVE  \E id : /\ id = subs'[x].id
                             /\ Invoiced(id)' \/ \E r \in Requests : BeingBilled(r, id)'
  BY DEF BilledInv, BeingBilled, Invoiced
<1>2. NoSub.status = "none" /\ subs'[x] # NoSub
  BY DEF NoSub
<1>3. CASE subs'[x] = subs[x]
  <2>. DEFINE pl == subs[x].plan
  <2>1. PICK id : id = subs[x].id
    OBVIOUS
  <2>2. pl \in Plans /\ plans[pl].state = "live" /\ subs[x] # NoSub
    BY <1>1, <1>2, <1>3 DEF RowInv, IInv, PlanOutlivesSubscriptions
  <2>3. plans[pl].paid
    BY <1>1, <1>3, <2>2, PriceKept
  <2>4. CASE Invoiced(id)
    BY <1>1, <1>2, <1>3, <2>1, <2>2, <2>4, InvoiceStays
  <2>5. ASSUME NEW r \in Requests, BeingBilled(r, id) PROVE Invoiced(id)' \/ BeingBilled(r, id)'
    <3>1. CASE req'[r] = req[r]
      BY <2>5, <3>1 DEF BeingBilled
    <3>2. CASE Fail(r)
      BY <3>2 DEF Fail, TypeOK
    <3>3. CASE Step(r)
      <4>1. req[r].op = "approve" /\ req[r].sub = id /\ IsSubscription(x, id)
        BY <2>1, <2>2, <2>5 DEF BeingBilled, IsSubscription
      <4>2. x = <<req[r].app, req[r].prod>> /\ req[r].plan = pl
        BY <1>1, <2>1, <4>1, ApprovedPair DEF PlanHeld
      <4>3. req[r].app \in apps /\ products[req[r].prod].live /\ HasSubscription(id)
        BY <2>2, <4>1, <4>2 DEF Referenced, HasSubscription
      <4>4. CASE Bills(r)
        <5>. DEFINE i == [sub |-> req[r].sub, plan |-> req[r].plan, status |-> "pending"]
        <5>1. i.sub = id /\ i \in InvoiceRow /\ invoices' = Append(invoices, i)
          BY <1>1, <2>2, <4>1, <4>2, <4>4 DEF Bills, TypeOK, Request, InvoiceRow
        <5>. HIDE DEF i
        <5>2. Len(invoices) + 1 \in DOMAIN invoices' /\ invoices'[Len(invoices) + 1] = i
          BY <1>1, <5>1 DEF TypeOK
        <5>. QED  BY <5>1, <5>2 DEF Invoiced
      <4>5. CASE UNCHANGED invoices /\ PendingInvoiceExists(id)
        BY <4>5 DEF PendingInvoiceExists, Invoiced
      <4>. QED  BY <1>1, <2>2, <2>3, <2>5, <3>3, <4>2, <4>3, <4>4, <4>5, BillingGoesOn
    <3>. QED  BY <1>1, <3>1, <3>2, <3>3, EachMoves
  <2>. QED  BY <1>3, <2>1, <2>2, <2>3, <2>4, <2>5 DEF BilledInv
<1>4. ASSUME NEW r \in Requests, Activates(r), SetTo(x, req[r].sub, "active")
      PROVE  BeingBilled(r, req[r].sub)' /\ req'[r].sub = subs'[x].id
  <2>1. req[r].op = "approve" /\ HasSubscription(req[r].sub)
    BY <1>4 DEF Activates, SetTo, HasSubscription
  <2>2. Same(req[r], req'[r]) /\ req'[r].pc \in {"approve.sandbox", "bill.pricing"}
    BY <1>1, <1>4, <2>1, GotoFields DEF Activates
  <2>. QED  BY <1>4, <2>1, <2>2 DEF SetTo, BeingBilled, Same, Windows
<1>. QED  BY <1>1, <1>2, <1>3, <1>4, RowAfter DEF SavedBy, SetTo, BeingBilled

\* A live subscription to a paid plan does not silently go unbilled: when no plan
\* is edited, nothing fails and no approval overlaps a resubmission of its row,
\* an active one has an invoice whenever no request is in progress, however the
\* approvals, deletions and settlements before that overlapped.
THEOREM ActivationIsBilled ==
    ASSUME MaxFaults = 0, "updatePlan" \notin Ops
    PROVE  Spec /\ []ResubmissionsApart => []PaidIsInvoiced
<1>. DEFINE Aux == /\ OpsInv /\ faults = 0 /\ PlanHeld /\ EditHeld /\ Referenced /\ BilledInv
<1>1. Init => Aux
  BY NoReqType DEF Init, OpsInv, PlanHeld, EditHeld, Referenced, BilledInv, NoSub
<1>2. IInv /\ ResubmissionsApart /\ Aux /\ [Next]_vars => Aux'
  <2>1. IInv /\ Aux /\ [Next]_vars => faults' = 0
    BY AdminEffect DEF IInv, BaseInv, Administers, FaultsEffect
  <2>. QED  BY <2>1, NextOps, NextPlanHeld, NextEditHeld, NextReferenced, NextBilled DEF IInv, BaseInv
<1>3. Aux => PaidIsInvoiced
  BY DEF PaidIsInvoiced, BilledInv, BeingBilled, Quiescent, Idle, ActiveRow, Invoiced
<1>. HIDE DEF Aux
<1>. QED  BY <1>1, <1>2, <1>3, Invariance, PTL DEF Spec
=============================================================================
