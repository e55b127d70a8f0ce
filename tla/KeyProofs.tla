------------------------------ MODULE KeyProofs ------------------------------
(***************************************************************************)
(* Proofs about API keys, with one request in progress at a time: what     *)
(* each statement and gateway call makes of the keys, and that the stored  *)
(* keys and those the gateways accept go together.                         *)
(***************************************************************************)
EXTENDS LifeCycleProofs

-----------------------------------------------------------------------------
(* One request at a time *)

\* No two requests are in progress together.
Serial == \A r, s \in Requests : r = s \/ Idle(r) \/ Idle(s)

\* While a request makes a step, every other slot is empty, before and after.
LEMMA Alone ==
    ASSUME BaseInv, Serial, Serial', NEW r \in Requests, Step(r) \/ Fail(r),
           NEW s \in Requests, s # r
    PROVE  req[s] = NoReq /\ req'[s] = NoReq
<1>1. Moves(r) /\ req' = [req EXCEPT ![r] = req'[r]]
  BY RouteMoves, SubscriptionMoves, CredentialsMoves, ProductMoves, PlanMoves,
     RouteLocal, SubscriptionLocal, CredentialsLocal, ProductLocal, PlanLocal, FinishStep
  DEF BaseInv, Step, Fail, Moves, LocalStep
<1>2. req'[s] = req[s]
  BY <1>1 DEF BaseInv, TypeOK
<1>3. ~Idle(r) \/ req'[r].op # "none"
  BY <1>1, OpsType DEF Moves, Continues, Starts, OpNames
<1>4. req[s].op = "none"
  BY <1>2, <1>3 DEF Serial, Idle
<1>. QED  BY <1>2, <1>4 DEF BaseInv, ShapeInv, RequestShape

\* A step is the step of one request, or one of the admin's statements that are
\* whole requests: settling an invoice, creating a plan.
LEMMA NextByOne ==
    ASSUME [Next]_vars
    PROVE  \/ UNCHANGED <<products, apps, oidc, subs, creds, nextKey, consumers, routes, req, faults,
                          approvals, claims>>
           \/ \E r \in Requests : Step(r) \/ Fail(r)
BY DEF Next, vars, BillingNext, MarkPaid, Void, Settle, CreatePlan, adminVars, appVars, subVars,
       keyVars, gwVars, histVars

-----------------------------------------------------------------------------
(* The statements and calls that touch keys *)

KeyPcs == {"approve.consumer", "rotate.consumer", "rotate.save", "enable.consumer", "enable.save",
           "plan.push", "plan.sandboxConsumers", "plan.sandboxPush",
           "delete.sandboxKey", "delete.sandboxConsumer", "delete.row"}
KeepsKeys == UNCHANGED <<creds, nextKey, consumers>>
Quiet(r) == KeepsKeys /\ req'[r].pc \notin KeyPcs
KeyAction(r) ==
    \/ SubscribeCredential(r) \/ ApproveCredential(r) \/ ApproveConsumer(r)
    \/ \E a \in Apps : Rotate(r, a) \/ RotateSandbox(r, a) \/ EnableSandbox(r, a)
    \/ RotateConsumer(r) \/ RotateSave(r) \/ EnableConsumer(r) \/ EnableSave(r)
    \/ DeleteCredential(r) \/ DeleteConsumer(r) \/ DeleteSandboxKey(r)
    \/ DeleteSandboxConsumer(r) \/ DeleteRow(r)
    \/ PlanConsumers(r) \/ PlanPush(r) \/ PlanSandboxConsumers(r) \/ PlanSandboxPush(r)

\* Going on, returning and looping lead to the step named.
LEMMA NextPc ==
    ASSUME TypeOK, NEW r \in Requests, NEW pc
    PROVE  /\ Goto(r, pc) \/ ReturnTo(r, pc) => req'[r].pc = pc
           /\ NextInTodo(r, pc) => req'[r].pc = pc \/ Finish(r)
           /\ Finish(r) => req'[r].pc = "idle"
BY GotoFields, ReturnToFields, NextInTodoFields, FinishFields, NoReqType DEF TakesNext

\* Every other step leaves the keys alone, and does not lead up to one of these.
LEMMA KeyQuiet ==
    ASSUME TypeOK, ShapeInv, NEW r \in Requests, Step(r) \/ Fail(r)
    PROVE  Quiet(r) \/ KeyAction(r)
<1>1. req[r] \in Request
  BY DEF TypeOK
<1>2. ASSUME NEW pc, NEW a, \/ req'[r] = [req[r] EXCEPT !.pc = pc, !.limit = a]
                            \/ req'[r] = [req[r] EXCEPT !.pc = pc, !.extra = a]
                            \/ req'[r] = [req[r] EXCEPT !.pc = pc, !.auth = a]
                            \/ req'[r] = [req[r] EXCEPT !.pc = pc, !.allowed = a]
      PROVE  req'[r].pc = pc
  BY <1>1, <1>2 DEF Request
<1>3. ASSUME NEW pc, NEW a, NEW b, req'[r] = [req[r] EXCEPT !.pc = pc, !.prod = a, !.todo = b]
      PROVE  req'[r].pc = pc
  BY <1>1, <1>3 DEF Request
<1>4. CASE Fail(r)
  BY <1>4, NextPc DEF Fail, keyVars, gwVars, Quiet, KeepsKeys, KeyPcs
<1>5. CASE RouteNext(r)
  <2>1. UNCHANGED <<creds, nextKey, consumers>>
    BY <1>5 DEF RouteNext, RouteProduct, RouteMembers, RoutePush, SandboxProduct, SandboxMembers,
                SandboxPush, Unprovisioned, keyVars
  <2>2. RouteProduct(r) => req'[r].pc \in {"idle", "route.members"}
    <3>1. RouteProduct(r) => Finish(r) \/ \E a : req'[r] = [req[r] EXCEPT !.pc = "route.members", !.auth = a]
      BY DEF RouteProduct, TypeOK
    <3>. QED  BY <1>2, <3>1, NextPc
  <2>3. RouteMembers(r) => req'[r].pc = "route.push"
    BY <1>2 DEF RouteMembers, TypeOK
  <2>4. RoutePush(r) => req'[r].pc \in {"idle", "approve.activate", "route.product", "sandbox.product", "delete.next"}
    BY NextPc DEF RoutePush, AfterRoute
  <2>5. SandboxProduct(r) => req'[r].pc \in {"idle", "sandbox.members", "sandbox.push"}
    BY NextPc DEF SandboxProduct
  <2>6. SandboxMembers(r) => req'[r].pc = "sandbox.push"
    BY <1>2 DEF SandboxMembers, TypeOK
  <2>7. SandboxPush(r) => req'[r].pc \in {"idle", "bill.pricing", "sandbox.product", "delete.next"}
    BY NextPc DEF SandboxPush, AfterSandboxRoute
  <2>. QED  BY <1>5, <2>1, <2>2, <2>3, <2>4, <2>5, <2>6, <2>7 DEF RouteNext, Quiet, KeepsKeys, KeyPcs
<1>6. CASE SubscriptionNext(r)
  <2>1. ASSUME NEW a \in Apps, NEW p \in Products PROVE Unsubscribe(r, a, p) => req'[r].pc = "route.product" /\ KeepsKeys
    BY DEF Unsubscribe, Begin, TypeOK, NoReq, KeepsKeys, keyVars, gwVars
  <2>2. ASSUME NEW a \in Apps, NEW p \in Products PROVE Reject(r, a, p) => req'[r].pc = "reject.set" /\ KeepsKeys
    BY DEF Reject, Begin, TypeOK, NoReq, KeepsKeys, Unprovisioned, keyVars
  <2>3. ASSUME NEW a \in Apps, NEW p \in Products PROVE Approve(r, a, p) => req'[r].pc = "approve.product" /\ KeepsKeys
    BY DEF Approve, Begin, TypeOK, NoReq, KeepsKeys, keyVars, gwVars
  <2>4. ASSUME NEW a \in Apps, NEW p \in Products, NEW pl \in Plans PROVE Subscribe(r, a, p, pl) =>
             req'[r].pc \in {"subscribe.save", "subscribe.credential"} /\ KeepsKeys
    BY DEF Subscribe, Begin, TypeOK, NoReq, KeepsKeys, Unprovisioned, keyVars
  <2>5. SubscribeSave(r) \/ RejectSet(r) \/ ApproveActivate(r) \/ ApproveSandbox(r) \/ BillPricing(r) \/ BillCreate(r)
           => KeepsKeys /\ req'[r].pc \in {"idle", "route.product", "approve.sandbox", "bill.pricing",
                                           "sandbox.product", "bill.create"}
    BY NextPc DEF SubscribeSave, RejectSet, ApproveActivate, ApproveSandbox, BillPricing, BillCreate,
                  KeepsKeys, Unprovisioned, keyVars, gwVars
  <2>6. ApproveProduct(r) => KeepsKeys /\ req'[r].pc \in {"idle", "approve.clientId", "approve.credential"}
    <3>1. ApproveProduct(r) => \/ Finish(r) \/ Goto(r, "approve.clientId")
                               \/ \E l : req'[r] = [req[r] EXCEPT !.pc = "approve.credential", !.limit = l]
      BY DEF ApproveProduct, TypeOK
    <3>. QED  BY <1>2, <3>1, NextPc DEF ApproveProduct, KeepsKeys, Unprovisioned, keyVars
  <2>7. ApproveClientId(r) => KeepsKeys /\ req'[r].pc = "route.product"
    <3>1. ApproveClientId(r) => \/ Goto(r, "route.product")
                                \/ \E l : req'[r] = [req[r] EXCEPT !.pc = "route.product", !.extra = l]
      BY DEF ApproveClientId, TypeOK
    <3>. QED  BY <1>2, <3>1, NextPc DEF ApproveClientId, KeepsKeys, gwVars, keyVars
  <2>. QED  BY <1>6, <2>1, <2>2, <2>3, <2>4, <2>5, <2>6, <2>7 DEF SubscriptionNext, Quiet, KeyAction, KeyPcs
<1>7. CASE CredentialsNext(r)
  <2>1. ASSUME NEW a \in Apps PROVE DeleteApp(r, a) => req'[r].pc = "delete.next" /\ KeepsKeys
    BY DEF DeleteApp, Begin, TypeOK, NoReq, KeepsKeys, Unprovisioned, keyVars
  <2>2. ASSUME NEW a \in Apps, NEW c PROVE SetOidc(r, a, c) => req'[r].pc = "oidc.products" /\ KeepsKeys
    BY DEF SetOidc, Begin, TypeOK, NoReq, KeepsKeys, keyVars, gwVars
  <2>3. OidcProducts(r) => KeepsKeys /\ req'[r].pc \in {"idle", "route.product"}
    <3>1. OidcProducts(r) =>
             \/ Finish(r)
             \/ \E p, ps : req'[r] = [req[r] EXCEPT !.pc = "route.product", !.prod = p, !.todo = ps]
      BY DEF OidcProducts, TypeOK
    <3>2. OidcProducts(r) => KeepsKeys
      BY DEF OidcProducts, KeepsKeys, Unprovisioned, keyVars
    <3>3. Finish(r) => req'[r].pc = "idle"
      BY NextPc
    <3>4. (\E p, ps : req'[r] = [req[r] EXCEPT !.pc = "route.product", !.prod = p, !.todo = ps])
             => req'[r].pc = "route.product"
      BY <1>3
    <3>. QED  BY <3>1, <3>2, <3>3, <3>4
  <2>4. DeleteNext(r) => KeepsKeys /\ req'[r].pc = "route.product"
    <3>1. DeleteNext(r) =>
             \E p, ps : req'[r] = [req[r] EXCEPT !.pc = "route.product", !.prod = p, !.todo = ps]
      BY ZenonT(60) DEF DeleteNext, TypeOK
    <3>2. DeleteNext(r) => KeepsKeys
      BY DEF DeleteNext, KeepsKeys, gwVars, keyVars
    <3>. QED  BY <1>3, <3>1, <3>2
  <2>. QED  BY <1>7, <2>1, <2>2, <2>3, <2>4 DEF CredentialsNext, Quiet, KeyAction, KeyPcs
<1>8. CASE ProductNext(r)
  <2>1. ASSUME NEW p \in Products PROVE DeleteProduct(r, p) => req'[r].pc = "product.delete" /\ KeepsKeys
    BY DEF DeleteProduct, Begin, TypeOK, NoReq, KeepsKeys, Unprovisioned, keyVars
  <2>2. ASSUME NEW p \in Products, NEW row \in Edits, NEW moved \in SUBSET {"upstream", "sandbox"}
        PROVE  UpdateProduct(r, p, row, moved) => req'[r].pc = "product.save" /\ KeepsKeys
    BY DEF UpdateProduct, Begin, TypeOK, NoReq, KeepsKeys, Unprovisioned, keyVars
  <2>3. ProductSave(r) \/ ProductCount(r) \/ ProductDelete(r) \/ ProductDeprovision(r)
           => KeepsKeys /\ req'[r].pc \in {"idle", "product.count", "route.product", "sandbox.product",
                                           "product.deprovision"}
    BY NextPc DEF ProductSave, ProductCount, ProductDelete, ProductDeprovision, Remaining,
                  KeepsKeys, Unprovisioned, keyVars, gwVars
  <2>. QED  BY <1>8, <2>1, <2>2, <2>3 DEF ProductNext, Quiet, KeyPcs
<1>9. CASE PlanNext(r)
  <2>1. ASSUME NEW pl \in Plans PROVE UpdatePlan(r, pl) => req'[r].pc = "plan.save" /\ KeepsKeys
    BY DEF UpdatePlan, Begin, TypeOK, NoReq, KeepsKeys, Unprovisioned, keyVars
  <2>2. ASSUME NEW pl \in Plans PROVE DeletePlan(r, pl) => req'[r].pc = "plan.delete" /\ KeepsKeys
    BY DEF DeletePlan, Begin, TypeOK, NoReq, KeepsKeys, Unprovisioned, keyVars
  <2>3. PlanSave(r) \/ PlanDelete(r) => KeepsKeys /\ req'[r].pc \in {"idle", "plan.read"}
    BY NextPc DEF PlanSave, PlanDelete, KeepsKeys, keyVars, gwVars
  <2>4. PlanRead(r) => KeepsKeys /\ req'[r].pc \in {"idle", "plan.consumers"}
    <3>1. PlanRead(r) => \/ Finish(r)
                         \/ \E l : req'[r] = [req[r] EXCEPT !.pc = "plan.consumers", !.limit = l]
      BY DEF PlanRead, TypeOK
    <3>. QED  BY <1>2, <3>1, NextPc DEF PlanRead, KeepsKeys, Unprovisioned, keyVars
  <2>. QED  BY <1>9, <2>1, <2>2, <2>3, <2>4 DEF PlanNext, Quiet, KeyAction, KeyPcs
<1>. QED  BY <1>4, <1>5, <1>6, <1>7, <1>8, <1>9 DEF Step

\* What a statement makes of the stored keys, and a call of the gateways.
StoresKey(a, k) ==
    \A b \in Apps : /\ creds'[b].sandboxKey = creds[b].sandboxKey
                    /\ creds'[b].key = IF b = a THEN k ELSE creds[b].key
StoresSandboxKey(a, k) ==
    \A b \in Apps : /\ creds'[b].key = creds[b].key
                    /\ creds'[b].sandboxKey = IF b = a THEN k ELSE creds[b].sandboxKey
SetsConsumer(e, a, k) ==
    \A f \in Envs, b \in Apps :
        IF f = e /\ b = a THEN consumers'[f][b].key = k ELSE consumers'[f][b] = consumers[f][b]
Drops(e, a) ==
    \A f \in Envs, b \in Apps :
        consumers'[f][b] = IF f = e /\ b = a THEN NoConsumer ELSE consumers[f][b]

\* The gateway of a rotation.
RotatedEnv(q) == IF q.op = "rotate" THEN "production" ELSE "sandbox"

\* A first key is issued, to an application that exists.
Issues(r) ==
    /\ At(r, "subscribe.credential") \/ At(r, "approve.credential")
    /\ UNCHANGED consumers /\ req[r].app \in Apps \cap apps
    /\ \/ creds[req[r].app].key # 0 /\ UNCHANGED <<creds, nextKey>>
       \/ /\ creds[req[r].app].key = 0 /\ StoresKey(req[r].app, nextKey)
          /\ nextKey' = nextKey + 1
    /\ \/ req'[r].pc \notin KeyPcs
       \/ /\ req'[r].pc = "approve.consumer" /\ req'[r].app = req[r].app
          /\ req'[r].key = creds'[req[r].app].key
\* Approve installs the consumer.
Admits(r) ==
    /\ At(r, "approve.consumer") /\ req[r].app \in Apps
    /\ SetsConsumer("production", req[r].app, req[r].key)
    /\ UNCHANGED <<creds, nextKey>> /\ req'[r].pc \notin KeyPcs
\* A rotation or an opt-in starts, for an application with a key.
Selects(r) ==
    /\ KeepsKeys /\ req'[r].app \in Apps
    /\ \/ /\ req'[r].pc = "rotate.consumer" /\ req'[r].op = "rotate"
          /\ creds[req'[r].app].key # 0
       \/ /\ req'[r].pc = "rotate.consumer" /\ SandboxConfigured
          /\ creds[req'[r].app].sandboxKey # 0
       \/ /\ req'[r].pc = "enable.consumer" /\ SandboxConfigured
          /\ creds[req'[r].app].key # 0 /\ req'[r].key = creds[req'[r].app].sandboxKey
\* The new key is installed, then stored.
Rotates(r) ==
    /\ At(r, "rotate.consumer") /\ req[r].app \in Apps
    /\ SetsConsumer(RotatedEnv(req[r]), req[r].app, nextKey)
    /\ nextKey' = nextKey + 1 /\ UNCHANGED creds
    /\ req'[r].pc = "rotate.save" /\ req'[r].op = req[r].op /\ req'[r].app = req[r].app
    /\ req'[r].key = nextKey
Enables(r) ==
    /\ At(r, "enable.consumer") /\ req[r].app \in Apps /\ UNCHANGED creds
    /\ SetsConsumer("sandbox", req[r].app, req'[r].key)
    /\ \/ req[r].key = 0 /\ req'[r].key = nextKey /\ nextKey' = nextKey + 1
       \/ req[r].key # 0 /\ req'[r].key = req[r].key /\ UNCHANGED nextKey
    /\ req'[r].pc = "enable.save" /\ req'[r].app = req[r].app
Keeps(r) ==
    /\ req[r].app \in Apps
    /\ UNCHANGED <<nextKey, consumers>> /\ req'[r].pc \notin KeyPcs
    /\ creds[req[r].app].key # 0 =>
           \/ /\ At(r, "rotate.save") /\ req[r].op = "rotate"
              /\ StoresKey(req[r].app, req[r].key)
           \/ /\ (At(r, "rotate.save") /\ req[r].op # "rotate") \/ At(r, "enable.save")
              /\ StoresSandboxKey(req[r].app, req[r].key)
    /\ creds[req[r].app].key = 0 => (At(r, "rotate.save") \/ At(r, "enable.save")) /\ UNCHANGED creds
\* The consumers of a deleted application go, where it has a key; then its row.
Clears(r) ==
    /\ req[r].app \in Apps /\ req'[r].app = req[r].app /\ UNCHANGED <<creds, nextKey>>
    /\ \/ /\ UNCHANGED consumers /\ At(r, "delete.next") /\ creds[req[r].app].key = 0
          /\ req'[r].pc = "delete.row"
       \/ /\ At(r, "delete.consumer") /\ Drops("production", req[r].app)
          /\ req'[r].pc = IF SandboxConfigured THEN "delete.sandboxKey" ELSE "delete.row"
       \/ /\ UNCHANGED consumers /\ At(r, "delete.sandboxKey")
          /\ \/ req'[r].pc = "delete.row" /\ creds[req[r].app].sandboxKey = 0
             \/ req'[r].pc = "delete.sandboxConsumer"
       \/ /\ At(r, "delete.sandboxConsumer") /\ Drops("sandbox", req[r].app)
          /\ req'[r].pc = "delete.row"
Forgets(r) ==
    /\ At(r, "delete.row") /\ req[r].app \in Apps
    /\ \A b \in Apps : creds'[b] = IF b = req[r].app THEN NoCred ELSE creds[b]
    /\ UNCHANGED <<nextKey, consumers>> /\ req'[r].pc \notin KeyPcs
\* The keys of a plan's subscribers are listed, then installed one by one.
Listed(r) ==
    \/ req'[r].pc \notin KeyPcs
    \/ req'[r].pc = "plan.push" /\ \A b \in Apps : req'[r].keys[b] \in {0, creds[b].key}
    \/ req'[r].pc = "plan.sandboxConsumers" /\ SandboxConfigured
    \/ /\ req'[r].pc = "plan.sandboxPush"
       /\ At(r, "plan.sandboxConsumers") \/ At(r, "plan.sandboxPush")
       /\ \A b \in Apps : req'[r].keys[b] \in {0, creds[b].sandboxKey}
Lists(r) == KeepsKeys /\ Listed(r)
Reinstalls(r) ==
    /\ UNCHANGED <<creds, nextKey>>
    /\ \E a \in Apps : /\ req[r].keys[a] # 0
                       /\ \/ At(r, "plan.push") /\ SetsConsumer("production", a, req[r].keys[a])
                          \/ At(r, "plan.sandboxPush") /\ SetsConsumer("sandbox", a, req[r].keys[a])
    /\ \/ req'[r].pc \notin KeyPcs
       \/ /\ req'[r].pc = req[r].pc /\ \A b \in Apps : req'[r].keys[b] \in {0, req[r].keys[b]}
       \/ req'[r].pc = "plan.sandboxConsumers" /\ SandboxConfigured

KeyMove(r) ==
    \/ Quiet(r) \/ Issues(r) \/ Admits(r) \/ Selects(r) \/ Rotates(r) \/ Enables(r) \/ Keeps(r)
    \/ Clears(r) \/ Forgets(r) \/ Lists(r) \/ Reinstalls(r)

\* Installing a consumer sets that consumer's key only.
LEMMA ConsumerInstalled ==
    ASSUME TypeOK, NEW e \in Envs, NEW a \in Apps, NEW k, NEW l, EnsureConsumer(e, a, k, l)
    PROVE  SetsConsumer(e, a, k)
<1>. DEFINE c == [key |-> k, limit |-> l]
<1>1. consumers' = [consumers EXCEPT ![e] = [consumers[e] EXCEPT ![a] = c]] /\ c.key = k
  BY DEF EnsureConsumer
<1>. HIDE DEF c
<1>. QED  BY <1>1 DEF TypeOK, SetsConsumer

\* Dropping one drops that one only.
LEMMA ConsumerDropped ==
    ASSUME TypeOK, NEW e \in Envs, NEW a \in Apps, DropConsumer(e, a)
    PROVE  Drops(e, a)
BY DEF TypeOK, Drops, DropConsumer

\* The key of a row is written, or its sandbox key.
LEMMA KeyStored ==
    ASSUME TypeOK, NEW a \in Apps, NEW k
    PROVE  /\ creds' = [creds EXCEPT ![a].key = k] => StoresKey(a, k)
           /\ creds' = [creds EXCEPT ![a] = [@ EXCEPT !.key = k]] => StoresKey(a, k)
           /\ creds' = [creds EXCEPT ![a] = [@ EXCEPT !.sandboxKey = k]] => StoresSandboxKey(a, k)
<1>. DEFINE c == [creds[a] EXCEPT !.key = k]
            d == [creds[a] EXCEPT !.sandboxKey = k]
<1>1. /\ c.key = k /\ c.sandboxKey = creds[a].sandboxKey
      /\ d.key = creds[a].key /\ d.sandboxKey = k
  BY DEF TypeOK, CredRow
<1>. HIDE DEF c, d
<1>2. ASSUME creds' = [creds EXCEPT ![a] = c] PROVE StoresKey(a, k)
  BY <1>1, <1>2 DEF TypeOK, StoresKey
<1>3. ASSUME creds' = [creds EXCEPT ![a] = d] PROVE StoresSandboxKey(a, k)
  BY <1>1, <1>3 DEF TypeOK, StoresSandboxKey
<1>. QED  BY <1>2, <1>3 DEF c, d

\* The keys listed for a plan are keys its subscribers have.
LEMMA PlanKeys ==
    ASSUME NEW pl, NEW a \in Apps
    PROVE  /\ ConsumersForPlan(pl)[a] \in {0, creds[a].key}
           /\ SandboxConsumersForPlan(pl)[a] \in {0, creds[a].sandboxKey}
BY DEF ConsumersForPlan, SandboxConsumersForPlan

\* A key just installed is stored.
LEMMA KeepMoves ==
    ASSUME TypeOK, ShapeInv, NEW r \in Requests, RotateSave(r) \/ EnableSave(r)
    PROVE  Keeps(r)
<1>1. req[r] \in Request /\ RequestShape(req[r]) /\ req[r].app \in Apps
  BY DEF TypeOK, ShapeInv, RotateSave, EnableSave, At, RequestShape, MayBeAt, RotatePcs, EnablePcs,
         AdminOps
<1>2. CASE RotateSave(r)
  <2>1. req'[r].pc = "idle"
    BY <1>2, NextPc DEF RotateSave
  <2>2. creds[req[r].app].key # 0 =>
           IF req[r].op = "rotate" THEN StoresKey(req[r].app, req[r].key) ELSE StoresSandboxKey(req[r].app, req[r].key)
    BY <1>1, <1>2, KeyStored DEF RotateSave, SaveKey
  <2>3. creds[req[r].app].key = 0 => UNCHANGED creds
    BY <1>2 DEF RotateSave, SaveKey
  <2>. QED  BY <1>1, <1>2, <2>1, <2>2, <2>3 DEF RotateSave, gwVars, Keeps, KeyPcs
<1>3. CASE EnableSave(r)
  <2>1. req'[r].pc \in {"idle", "sandbox.product"}
    BY <1>3, NextPc DEF EnableSave
  <2>2. creds[req[r].app].key # 0 => StoresSandboxKey(req[r].app, req[r].key)
    BY <1>1, <1>3, KeyStored DEF EnableSave, SaveKey
  <2>3. creds[req[r].app].key = 0 => UNCHANGED creds
    BY <1>3 DEF EnableSave, SaveKey
  <2>. QED  BY <1>1, <1>3, <2>1, <2>2, <2>3 DEF EnableSave, gwVars, Keeps, KeyPcs
<1>. QED  BY <1>2, <1>3

\* A request that has installed a key goes on to store it.
LEMMA SaveStep ==
    ASSUME TypeOK, ShapeInv, NEW r \in Requests, Step(r), req[r].pc \in {"rotate.save", "enable.save"}
    PROVE  Keeps(r)
<1>1. ~Idle(r)
  BY NoReqType DEF Idle, ShapeInv, RequestShape
<1>2. CredentialsNext(r) => RotateSave(r) \/ EnableSave(r)
  BY <1>1 DEF At, CredentialsNext, Rotate, RotateSandbox, EnableSandbox, DeleteApp, SetOidc, Begin,
     RotateConsumer, EnableConsumer, OidcProducts, DeleteNext, DeleteCredential, DeleteConsumer,
     DeleteSandboxKey, DeleteSandboxConsumer, DeleteRow
<1>3. ~ProductNext(r)
  BY <1>1 DEF At, ProductNext, UpdateProduct, DeleteProduct, Begin, ProductSave, ProductCount,
     ProductDelete, ProductDeprovision
<1>4. ~PlanNext(r)
  BY <1>1 DEF At, PlanNext, UpdatePlan, DeletePlan, Begin, PlanSave, PlanRead, PlanConsumers,
     PlanPush, PlanSandboxConsumers, PlanSandboxPush, PlanDelete
<1>5. ~RouteNext(r)
  BY DEF At, RouteNext, RouteProduct, RouteMembers, RoutePush, SandboxProduct, SandboxMembers,
     SandboxPush
<1>6. ~SubscriptionNext(r)
  BY <1>1 DEF At, SubscriptionNext, Subscribe, Unsubscribe, Reject, Approve, Begin, SubscribeCredential,
     SubscribeSave, RejectSet, ApproveProduct, ApproveClientId, ApproveCredential, ApproveConsumer,
     ApproveActivate, ApproveSandbox, BillPricing, BillCreate
<1>. QED  BY <1>2, <1>3, <1>4, <1>5, <1>6, KeepMoves DEF Step

\* The statements of the life cycle that issue or install a key.
LEMMA ApprovalKeyMoves ==
    ASSUME TypeOK, ShapeInv, NEW r \in Requests,
           SubscribeCredential(r) \/ ApproveCredential(r) \/ ApproveConsumer(r)
    PROVE  KeyMove(r)
<1>1. req[r] \in Request /\ RequestShape(req[r]) /\ req[r].app \in Apps
  BY DEF TypeOK, ShapeInv, RequestShape, MayBeAt, AdminOps, ApprovePcs, At, SubscribeCredential,
         ApproveCredential, ApproveConsumer
<1>2. ASSUME GetOrCreateCredential(req[r].app)
      PROVE  \/ creds[req[r].app].key # 0 /\ UNCHANGED <<creds, nextKey>>
             \/ /\ creds[req[r].app].key = 0 /\ StoresKey(req[r].app, nextKey)
                /\ nextKey' = nextKey + 1
  BY <1>1, <1>2, KeyStored DEF GetOrCreateCredential
<1>3. CASE SubscribeCredential(r)
  <2>1. /\ req'[r].pc \in {"idle", "subscribe.save"} /\ UNCHANGED consumers
        /\ At(r, "subscribe.credential")
    BY <1>3, NextPc DEF SubscribeCredential, gwVars
  <2>2. UNCHANGED keyVars \/ (req[r].app \in apps /\ GetOrCreateCredential(req[r].app))
    BY <1>3 DEF SubscribeCredential
  <2>. QED  BY <1>1, <1>2, <2>1, <2>2 DEF KeyMove, Issues, Quiet, KeepsKeys, keyVars, KeyPcs
<1>4. CASE ApproveCredential(r)
  <2>1. CASE Finish(r) /\ UNCHANGED keyVars
    BY <1>4, <2>1, NextPc DEF ApproveCredential, KeyMove, Quiet, KeepsKeys, keyVars, gwVars, KeyPcs
  <2>2. CASE /\ req[r].app \in apps /\ GetOrCreateCredential(req[r].app)
             /\ req' = [req EXCEPT ![r] = [@ EXCEPT !.pc = "approve.consumer",
                                                    !.key = creds'[req[r].app].key]]
    <3>1. req'[r] = [req[r] EXCEPT !.pc = "approve.consumer", !.key = creds'[req[r].app].key]
      BY <2>2 DEF TypeOK
    <3>2. /\ req'[r].pc = "approve.consumer" /\ req'[r].app = req[r].app
          /\ req'[r].key = creds'[req[r].app].key
      BY <1>1, <3>1 DEF Request
    <3>3. UNCHANGED consumers /\ At(r, "approve.credential")
      BY <1>4 DEF ApproveCredential, gwVars
    <3>. QED  BY <1>1, <1>2, <2>2, <3>2, <3>3 DEF KeyMove, Issues
  <2>. QED  BY <1>4, <2>1, <2>2 DEF ApproveCredential
<1>5. CASE ApproveConsumer(r)
  <2>1. req'[r] = [req[r] EXCEPT !.pc = "route.product", !.extra = {req[r].app}]
    BY <1>5 DEF ApproveConsumer, TypeOK
  <2>2. req'[r].pc = "route.product"
    BY <1>1, <2>1 DEF Request
  <2>3. SetsConsumer("production", req[r].app, req[r].key)
    BY <1>1, <1>5, ConsumerInstalled DEF ApproveConsumer, Envs
  <2>. QED  BY <1>1, <1>5, <2>2, <2>3 DEF ApproveConsumer, keyVars, KeyMove, Admits, KeyPcs
<1>. QED  BY <1>3, <1>4, <1>5

\* The statements and calls of a rotation.
LEMMA RotationKeyMoves ==
    ASSUME TypeOK, ShapeInv, NEW r \in Requests,
           \/ \E a \in Apps : Rotate(r, a) \/ RotateSandbox(r, a)
           \/ RotateConsumer(r) \/ RotateSave(r)
    PROVE  KeyMove(r)
<1>1. req[r] \in Request /\ RequestShape(req[r])
  BY DEF TypeOK, ShapeInv
<1>2. ASSUME NEW a \in Apps, Rotate(r, a)
      PROVE  KeyMove(r)
  <2>0. PICK limit : req'[r] = [[NoReq EXCEPT !.pc = "rotate.consumer", !.app = a, !.limit = limit]
                                   EXCEPT !.op = "rotate"]
    BY <1>2 DEF Rotate, Begin, TypeOK
  <2>1. req'[r].pc = "rotate.consumer" /\ req'[r].op = "rotate" /\ req'[r].app = a
    BY <2>0, NoReqType DEF Request
  <2>2. KeepsKeys /\ creds[a].key # 0
    BY <1>2 DEF Rotate, KeepsKeys, Unprovisioned, keyVars
  <2>. QED  BY <2>1, <2>2 DEF KeyMove, Selects
<1>3. ASSUME NEW a \in Apps, RotateSandbox(r, a)
      PROVE  KeyMove(r)
  <2>0. PICK limit : req'[r] = [[NoReq EXCEPT !.pc = "rotate.consumer", !.app = a, !.limit = limit]
                                   EXCEPT !.op = "rotateSandbox"]
    BY <1>3 DEF RotateSandbox, Begin, TypeOK
  <2>1. req'[r].pc = "rotate.consumer" /\ req'[r].app = a
    BY <2>0, NoReqType DEF Request
  <2>2. KeepsKeys /\ SandboxConfigured /\ creds[a].sandboxKey # 0
    BY <1>3 DEF RotateSandbox, KeepsKeys, Unprovisioned, keyVars
  <2>. QED  BY <2>1, <2>2 DEF KeyMove, Selects
<1>4. CASE RotateConsumer(r)
  <2>1. req[r].app \in Apps
    BY <1>1, <1>4 DEF RotateConsumer, At, RequestShape, MayBeAt, RotatePcs, AdminOps
  <2>2. req'[r] = [req[r] EXCEPT !.pc = "rotate.save", !.key = nextKey]
    BY <1>4 DEF RotateConsumer, TypeOK
  <2>3. req'[r].pc = "rotate.save" /\ req'[r].op = req[r].op /\ req'[r].app = req[r].app /\ req'[r].key = nextKey
    BY <1>1, <2>2 DEF Request
  <2>4. SetsConsumer(RotatedEnv(req[r]), req[r].app, nextKey)
    BY <1>4, <2>1, ConsumerInstalled DEF RotateConsumer, RotatedEnv, Envs
  <2>. QED  BY <1>4, <2>1, <2>3, <2>4 DEF RotateConsumer, KeyMove, Rotates
<1>5. CASE RotateSave(r)
  BY <1>5, KeepMoves DEF KeyMove
<1>. QED  BY <1>2, <1>3, <1>4, <1>5

\* The statements and calls of an opt-in into the sandbox.
LEMMA EnableKeyMoves ==
    ASSUME TypeOK, ShapeInv, NEW r \in Requests,
           \/ \E a \in Apps : EnableSandbox(r, a)
           \/ EnableConsumer(r) \/ EnableSave(r)
    PROVE  KeyMove(r)
<1>1. req[r] \in Request /\ RequestShape(req[r])
  BY DEF TypeOK, ShapeInv
<1>2. ASSUME NEW a \in Apps, EnableSandbox(r, a)
      PROVE  KeyMove(r)
  <2>1. PICK limit : req'[r] = [[NoReq EXCEPT !.pc = "enable.consumer", !.app = a, !.limit = limit,
                                       !.key = creds[a].sandboxKey, !.extra = {a},
                                       !.todo = SandboxProductsForApp(a)] EXCEPT !.op = "enableSandbox"]
    BY <1>2 DEF EnableSandbox, Begin, TypeOK
  <2>2. /\ req'[r].pc = "enable.consumer" /\ req'[r].app = a
        /\ req'[r].key = creds[a].sandboxKey
    BY <2>1, NoReqType DEF Request
  <2>3. KeepsKeys /\ creds[a].key # 0 /\ SandboxConfigured
    BY <1>2 DEF EnableSandbox, KeepsKeys, Unprovisioned, keyVars
  <2>. QED  BY <2>2, <2>3 DEF KeyMove, Selects
<1>3. req[r].app \in Apps \/ \E a \in Apps : EnableSandbox(r, a)
  BY <1>1 DEF EnableConsumer, EnableSave, At, RequestShape, MayBeAt, EnablePcs, AdminOps
<1>4. CASE EnableConsumer(r) /\ req[r].app \in Apps
  <2>. DEFINE k == IF req[r].key = 0 THEN nextKey ELSE req[r].key
  <2>1. req'[r] = [req[r] EXCEPT !.pc = "enable.save", !.key = k]
    BY <1>4 DEF EnableConsumer, TypeOK
  <2>2. req'[r].pc = "enable.save" /\ req'[r].app = req[r].app /\ req'[r].key = k
    BY <1>1, <2>1 DEF Request
  <2>3. EnsureConsumer("sandbox", req[r].app, k, req[r].limit)
    BY <1>4 DEF EnableConsumer
  <2>4. nextKey' = (IF req[r].key = 0 THEN nextKey + 1 ELSE nextKey) /\ UNCHANGED creds
    BY <1>4 DEF EnableConsumer
  <2>5. SetsConsumer("sandbox", req[r].app, k)
    BY <1>4, <2>3, ConsumerInstalled DEF Envs
  <2>. QED  BY <1>4, <2>2, <2>4, <2>5 DEF EnableConsumer, KeyMove, Enables
<1>5. CASE EnableSave(r)
  BY <1>5, KeepMoves DEF KeyMove
<1>. QED  BY <1>2, <1>3, <1>4, <1>5

\* The statements and calls of the deletion of an application.
LEMMA DeletionKeyMoves ==
    ASSUME TypeOK, ShapeInv, NEW r \in Requests,
           \/ DeleteCredential(r) \/ DeleteConsumer(r) \/ DeleteSandboxKey(r)
           \/ DeleteSandboxConsumer(r) \/ DeleteRow(r)
    PROVE  KeyMove(r)
<1>1. req[r] \in Request /\ RequestShape(req[r]) /\ req[r].app \in Apps
  BY DEF TypeOK, ShapeInv, RequestShape, MayBeAt, AdminOps, DeletePcs, At, DeleteCredential,
         DeleteConsumer, DeleteSandboxKey, DeleteSandboxConsumer, DeleteRow
<1>2. ASSUME NEW pc, Goto(r, pc) PROVE req'[r].pc = pc /\ req'[r].app = req[r].app
  BY <1>2, GotoFields DEF Same
<1>3. Finish(r) => req'[r].pc = "idle"
  BY NextPc
<1>4. CASE DeleteCredential(r)
  <2>1. KeepsKeys
    BY <1>4 DEF DeleteCredential, KeepsKeys, Unprovisioned, keyVars
  <2>2. \/ Goto(r, "delete.consumer")
        \/ Goto(r, "delete.row") /\ creds[req[r].app].key = 0
    BY <1>4 DEF DeleteCredential
  <2>. QED  BY <1>1, <1>2, <1>4, <2>1, <2>2 DEF DeleteCredential, KeyMove, Quiet, Clears, KeepsKeys, KeyPcs
<1>5. CASE DeleteConsumer(r)
  <2>1. UNCHANGED <<creds, nextKey>>
    BY <1>5 DEF DeleteConsumer, keyVars
  <2>2. \/ Finish(r) /\ UNCHANGED consumers
        \/ /\ DropConsumer("production", req[r].app)
           /\ Goto(r, IF SandboxConfigured THEN "delete.sandboxKey" ELSE "delete.row")
    BY <1>5 DEF DeleteConsumer
  <2>3. DropConsumer("production", req[r].app) => Drops("production", req[r].app)
    BY <1>1, ConsumerDropped DEF Envs
  <2>4. CASE Finish(r) /\ UNCHANGED consumers
    BY <1>3, <2>1, <2>4 DEF KeyMove, Quiet, KeepsKeys, KeyPcs
  <2>. QED  BY <1>1, <1>2, <1>5, <2>1, <2>2, <2>3, <2>4 DEF DeleteConsumer, KeyMove, Clears
<1>6. CASE DeleteSandboxKey(r)
  <2>1. KeepsKeys
    BY <1>6 DEF DeleteSandboxKey, KeepsKeys, Unprovisioned, keyVars
  <2>2. \/ Finish(r) \/ Goto(r, "delete.sandboxConsumer")
        \/ Goto(r, "delete.row") /\ creds[req[r].app].sandboxKey = 0
    BY <1>6 DEF DeleteSandboxKey
  <2>3. CASE Finish(r)
    BY <1>3, <2>1, <2>3 DEF KeyMove, Quiet, KeepsKeys, KeyPcs
  <2>. QED  BY <1>1, <1>2, <1>6, <2>1, <2>2, <2>3 DEF DeleteSandboxKey, KeyMove, Clears, KeepsKeys
<1>7. CASE DeleteSandboxConsumer(r)
  <2>1. UNCHANGED <<creds, nextKey>>
    BY <1>7 DEF DeleteSandboxConsumer, keyVars
  <2>2. \/ Finish(r) /\ UNCHANGED consumers
        \/ DropConsumer("sandbox", req[r].app) /\ Goto(r, "delete.row")
    BY <1>7 DEF DeleteSandboxConsumer
  <2>3. DropConsumer("sandbox", req[r].app) => Drops("sandbox", req[r].app)
    BY <1>1, ConsumerDropped DEF Envs
  <2>4. CASE Finish(r) /\ UNCHANGED consumers
    BY <1>3, <2>1, <2>4 DEF KeyMove, Quiet, KeepsKeys, KeyPcs
  <2>. QED  BY <1>1, <1>2, <1>7, <2>1, <2>2, <2>3, <2>4 DEF DeleteSandboxConsumer, KeyMove, Clears
<1>8. CASE DeleteRow(r)
  <2>1. \A b \in Apps : creds'[b] = IF b = req[r].app THEN NoCred ELSE creds[b]
    BY <1>1, <1>8 DEF DeleteRow, TypeOK
  <2>2. UNCHANGED <<nextKey, consumers>> /\ req'[r].pc = "idle"
    BY <1>3, <1>8 DEF DeleteRow, gwVars
  <2>. QED  BY <1>1, <1>8, <2>1, <2>2 DEF DeleteRow, KeyMove, Forgets, KeyPcs
<1>. QED  BY <1>4, <1>5, <1>6, <1>7, <1>8

\* The statements and calls of ReprovisionPlan.
LEMMA PlanKeyMoves ==
    ASSUME TypeOK, ShapeInv, NEW r \in Requests,
           PlanConsumers(r) \/ PlanPush(r) \/ PlanSandboxConsumers(r) \/ PlanSandboxPush(r)
    PROVE  KeyMove(r)
<1>1. req[r] \in Request
  BY DEF TypeOK
<1>2. ASSUME NEW pc, NEW keys, req' = [req EXCEPT ![r] = [@ EXCEPT !.pc = pc, !.keys = keys]]
      PROVE  req'[r].pc = pc /\ req'[r].keys = keys
  <2>1. req'[r] = [req[r] EXCEPT !.pc = pc, !.keys = keys]
    BY <1>2 DEF TypeOK
  <2>. QED  BY <1>1, <2>1 DEF Request
<1>3. ASSUME NEW keys, PushRest(r, keys)
      PROVE  \/ req'[r].pc = "plan.push" /\ req'[r].keys = keys
             \/ req'[r].pc = "plan.sandboxConsumers" /\ SandboxConfigured
             \/ req'[r].pc = "idle"
  BY <1>2, <1>3, NextPc DEF PushRest
<1>4. ASSUME NEW keys, SandboxPushRest(r, keys)
      PROVE  \/ req'[r].pc = "plan.sandboxPush" /\ req'[r].keys = keys
             \/ req'[r].pc = "idle"
  BY <1>2, <1>4, NextPc DEF SandboxPushRest
<1>5. CASE PlanConsumers(r)
  <2>1. PushRest(r, ConsumersForPlan(req[r].plan)) /\ KeepsKeys
    BY <1>5 DEF PlanConsumers, KeepsKeys, Unprovisioned, keyVars
  <2>. QED  BY <1>3, <2>1, PlanKeys DEF KeyMove, Lists, Listed, KeyPcs
<1>6. CASE PlanSandboxConsumers(r)
  <2>1. SandboxPushRest(r, SandboxConsumersForPlan(req[r].plan)) /\ KeepsKeys
    BY <1>6 DEF PlanSandboxConsumers, KeepsKeys, Unprovisioned, keyVars
  <2>. QED  BY <1>4, <1>6, <2>1, PlanKeys DEF PlanSandboxConsumers, KeyMove, Lists, Listed, KeyPcs
<1>7. ASSUME NEW a \in Apps, NEW b \in Apps
      PROVE  [req[r].keys EXCEPT ![a] = 0][b] \in {0, req[r].keys[b]}
  BY <1>1 DEF Request
<1>8. CASE PlanPush(r)
  <2>1. PICK a \in Apps : /\ req[r].keys[a] # 0
                          /\ EnsureConsumer("production", a, req[r].keys[a], req[r].limit)
                          /\ PushRest(r, [req[r].keys EXCEPT ![a] = 0])
    BY <1>8 DEF PlanPush
  <2>2. SetsConsumer("production", a, req[r].keys[a])
    BY <2>1, ConsumerInstalled DEF Envs
  <2>3. UNCHANGED <<creds, nextKey>> /\ At(r, "plan.push")
    BY <1>8 DEF PlanPush, keyVars
  <2>4. \/ req'[r].pc \notin KeyPcs
        \/ /\ req'[r].pc = req[r].pc /\ \A b \in Apps : req'[r].keys[b] \in {0, req[r].keys[b]}
        \/ req'[r].pc = "plan.sandboxConsumers" /\ SandboxConfigured
    BY <1>3, <1>7, <2>1, <2>3 DEF At, KeyPcs
  <2>. QED  BY <2>1, <2>2, <2>3, <2>4 DEF KeyMove, Reinstalls
<1>9. CASE PlanSandboxPush(r)
  <2>1. PICK a \in Apps : /\ req[r].keys[a] # 0
                          /\ EnsureConsumer("sandbox", a, req[r].keys[a], req[r].limit)
                          /\ SandboxPushRest(r, [req[r].keys EXCEPT ![a] = 0])
    BY <1>9 DEF PlanSandboxPush
  <2>2. SetsConsumer("sandbox", a, req[r].keys[a])
    BY <2>1, ConsumerInstalled DEF Envs
  <2>3. UNCHANGED <<creds, nextKey>> /\ At(r, "plan.sandboxPush")
    BY <1>9 DEF PlanSandboxPush, keyVars
  <2>4. \/ req'[r].pc \notin KeyPcs
        \/ /\ req'[r].pc = req[r].pc /\ \A b \in Apps : req'[r].keys[b] \in {0, req[r].keys[b]}
    BY <1>4, <1>7, <2>1, <2>3 DEF At, KeyPcs
  <2>. QED  BY <2>1, <2>2, <2>3, <2>4 DEF KeyMove, Reinstalls
<1>. QED  BY <1>5, <1>6, <1>8, <1>9

\* What any step makes of the keys.
LEMMA KeyMoves ==
    ASSUME TypeOK, ShapeInv, NEW r \in Requests, Step(r) \/ Fail(r)
    PROVE  KeyMove(r)
<1>1. CASE Quiet(r)
  BY <1>1 DEF KeyMove
<1>. QED
  BY <1>1, KeyQuiet, ApprovalKeyMoves, RotationKeyMoves, EnableKeyMoves, DeletionKeyMoves,
     PlanKeyMoves DEF KeyAction

-----------------------------------------------------------------------------
(* Keys in the tables, in the gateways and in flight *)

\* Every key in use was generated, and only an application with a key has a
\* sandbox key.
KeysBelow ==
    \A a \in Apps : /\ creds[a].key < nextKey /\ creds[a].sandboxKey < nextKey
                    /\ creds[a].sandboxKey # 0 => creds[a].key # 0
                    /\ \A e \in Envs : consumers[e][a].key < nextKey

\* The keys a request holds are those of the table it read them from, or the one
\* it has just installed.
KeyHeld(q) ==
    /\ q.pc = "approve.consumer" => q.key = creds[q.app].key /\ q.key # 0
    /\ q.pc \in {"rotate.consumer", "rotate.save", "enable.consumer", "enable.save"} =>
           creds[q.app].key # 0
    /\ q.pc \in {"rotate.consumer", "rotate.save"} /\ q.op # "rotate" => creds[q.app].sandboxKey # 0
    /\ q.pc = "rotate.save" => q.key # 0 /\ consumers[RotatedEnv(q)][q.app].key = q.key
    /\ q.pc = "enable.consumer" => q.key = creds[q.app].sandboxKey
    /\ q.pc = "enable.save" => q.key # 0 /\ consumers["sandbox"][q.app].key = q.key
    /\ q.pc = "plan.push" => \A a \in Apps : q.keys[a] \in {0, creds[a].key}
    /\ q.pc = "plan.sandboxPush" => \A a \in Apps : q.keys[a] \in {0, creds[a].sandboxKey}
KeyInv == KeysBelow /\ \A r \in Requests : KeyHeld(req[r])

\* Without overlap, the keys a request holds stay current.
LEMMA NextKeyInv ==
    ASSUME BaseInv, Serial, Serial', KeyInv, [Next]_vars
    PROVE  KeyInv'
<1>1. /\ TypeOK /\ TypeOK' /\ ShapeInv /\ KeysBelow
      /\ \A a \in Apps : creds[a] \in CredRow /\ creds'[a] \in CredRow
      /\ \A e \in Envs, a \in Apps : consumers[e][a] \in ConsumerObj /\ consumers'[e][a] \in ConsumerObj
      /\ nextKey \in Nat \ {0} /\ nextKey' \in Nat
  BY NextBase DEF BaseInv, KeyInv, TypeOK
<1>2. \A a \in Apps : creds[a].key \in Nat /\ creds[a].sandboxKey \in Nat
  BY <1>1 DEF CredRow
<1>3. \A e \in Envs, a \in Apps : consumers[e][a].key \in Nat
  BY <1>1 DEF ConsumerObj
<1>4. KeyHeld(NoReq)'
  BY NoReqType DEF KeyHeld
<1>5. CASE UNCHANGED <<creds, nextKey, consumers, req>>
  BY <1>5 DEF KeyInv, KeysBelow, KeyHeld
<1>6. ASSUME NEW r \in Requests, Step(r) \/ Fail(r)
      PROVE  KeyInv'
  <2>. DEFINE q == req[r]
              s == req'[r]
  <2>1. KeyMove(r) /\ KeyHeld(q) /\ q \in Request /\ s \in Request
    BY <1>1, <1>6, KeyMoves DEF KeyInv, TypeOK
  <2>2. q.key \in Nat /\ q.keys \in [Apps -> Nat]
    BY <2>1 DEF Request
  <2>3. SUFFICES KeysBelow' /\ KeyHeld(req[r])'
    BY <1>4, <1>6, Alone DEF KeyInv, BaseInv
  <2>4. CASE Quiet(r)
    BY <1>1, <2>4 DEF Quiet, KeepsKeys, KeysBelow, KeyHeld, KeyPcs
  <2>5. CASE Issues(r)
    <3>1. KeysBelow'
      BY <1>1, <1>2, <1>3, <2>5 DEF Issues, KeysBelow, StoresKey
    <3>2. creds'[q.app].key # 0 /\ q.app \in Apps
      BY <1>1, <2>5 DEF Issues, StoresKey
    <3>. QED  BY <2>5, <3>1, <3>2 DEF Issues, KeyHeld, KeyPcs
  <2>6. CASE Admits(r)
    <3>1. KeysBelow'
      BY <1>1, <2>1, <2>6 DEF Admits, KeysBelow, SetsConsumer, KeyHeld, At
    <3>. QED  BY <2>6, <3>1 DEF Admits, KeyHeld, KeyPcs
  <2>7. CASE Selects(r)
    <3>1. KeysBelow' /\ creds[s.app].key # 0
      BY <1>1, <2>7 DEF Selects, KeepsKeys, KeysBelow
    <3>. QED  BY <2>7, <3>1 DEF Selects, KeepsKeys, KeyHeld
  <2>8. CASE Rotates(r)
    <3>1. KeysBelow'
      BY <1>1, <1>2, <1>3, <2>8 DEF Rotates, KeysBelow, SetsConsumer
    <3>2. RotatedEnv(s) = RotatedEnv(q) /\ RotatedEnv(q) \in Envs
      BY <2>8 DEF Rotates, RotatedEnv, Envs
    <3>3. consumers'[RotatedEnv(s)][s.app].key = s.key /\ s.key # 0
      BY <1>1, <2>8, <3>2 DEF Rotates, SetsConsumer
    <3>4. creds'[s.app].key # 0 /\ (s.op # "rotate" => creds'[s.app].sandboxKey # 0)
      BY <2>1, <2>8 DEF Rotates, KeyHeld, At
    <3>. QED  BY <2>8, <3>1, <3>2, <3>3, <3>4 DEF Rotates, KeyHeld, RotatedEnv
  <2>9. CASE Enables(r)
    <3>1. s.key < nextKey' /\ s.key # 0 /\ nextKey' >= nextKey /\ "sandbox" \in Envs
      BY <1>1, <2>1, <2>2, <2>9 DEF Enables, KeyHeld, At, KeysBelow, Envs
    <3>2. KeysBelow'
      BY <1>1, <1>2, <1>3, <2>9, <3>1 DEF Enables, KeysBelow, SetsConsumer
    <3>3. consumers'["sandbox"][s.app].key = s.key /\ creds'[s.app].key # 0
      BY <2>1, <2>9, <3>1 DEF Enables, SetsConsumer, KeyHeld, At
    <3>. QED  BY <2>9, <3>1, <3>2, <3>3 DEF Enables, KeyHeld
  <2>10. CASE Keeps(r)
    <3>1. creds[q.app].key # 0 => q.key < nextKey /\ q.key # 0
      BY <1>1, <2>1, <2>10 DEF Keeps, KeyHeld, At, KeysBelow, RotatedEnv, Envs
    <3>2. KeysBelow'
      BY <1>1, <2>10, <3>1 DEF Keeps, KeysBelow, StoresKey, StoresSandboxKey
    <3>. QED  BY <2>10, <3>2 DEF Keeps, KeyHeld, KeyPcs
  <2>11. CASE Clears(r)
    <3>1. s.pc \in {"delete.row", "delete.sandboxKey", "delete.sandboxConsumer"} /\ NoConsumer.key = 0
      BY <2>11 DEF Clears, NoConsumer
    <3>2. KeysBelow'
      BY <1>1, <2>11, <3>1 DEF Clears, KeysBelow, Drops
    <3>. QED  BY <3>1, <3>2 DEF KeyHeld
  <2>12. CASE Forgets(r)
    <3>1. NoCred.key = 0 /\ NoCred.sandboxKey = 0
      BY DEF NoCred
    <3>2. KeysBelow'
      BY <1>1, <2>12, <3>1 DEF Forgets, KeysBelow
    <3>. QED  BY <2>12, <3>2 DEF Forgets, KeyHeld, KeyPcs
  <2>13. CASE Lists(r)
    BY <1>1, <2>13 DEF Lists, Listed, KeepsKeys, KeysBelow, KeyHeld, KeyPcs
  <2>14. CASE Reinstalls(r)
    <3>1. PICK a \in Apps : /\ q.keys[a] # 0
                            /\ \/ At(r, "plan.push") /\ SetsConsumer("production", a, q.keys[a])
                               \/ At(r, "plan.sandboxPush") /\ SetsConsumer("sandbox", a, q.keys[a])
      BY <2>14 DEF Reinstalls
    <3>2. q.keys[a] < nextKey
      BY <1>1, <2>1, <3>1 DEF KeyHeld, KeysBelow, At
    <3>3. KeysBelow'
      BY <1>1, <2>14, <3>1, <3>2 DEF Reinstalls, KeysBelow, SetsConsumer
    <3>4. q.pc \in {"plan.push", "plan.sandboxPush"} /\ UNCHANGED creds
      BY <2>14, <3>1 DEF Reinstalls, At
    <3>5. CASE s.pc \notin KeyPcs \/ s.pc = "plan.sandboxConsumers"
      BY <3>3, <3>5 DEF KeyHeld, KeyPcs
    <3>6. CASE s.pc = q.pc /\ \A b \in Apps : s.keys[b] \in {0, q.keys[b]}
      <4>1. s.pc = "plan.push" => \A b \in Apps : s.keys[b] \in {0, creds'[b].key}
        BY <2>1, <3>4, <3>6 DEF KeyHeld
      <4>2. s.pc = "plan.sandboxPush" => \A b \in Apps : s.keys[b] \in {0, creds'[b].sandboxKey}
        BY <2>1, <3>4, <3>6 DEF KeyHeld
      <4>. QED  BY <3>3, <3>4, <3>6, <4>1, <4>2 DEF KeyHeld
    <3>. QED  BY <2>14, <3>5, <3>6 DEF Reinstalls
  <2>. QED
    BY <2>1, <2>4, <2>5, <2>6, <2>7, <2>8, <2>9, <2>10, <2>11, <2>12, <2>13, <2>14 DEF KeyMove
<1>. QED  BY <1>5, <1>6, NextByOne

\* Nobody has a key at first.
LEMMA InitKeyInv == Init => KeyInv
<1>1. /\ NoCred.key = 0 /\ NoCred.sandboxKey = 0 /\ NoConsumer.key = 0
  BY DEF NoCred, NoConsumer
<1>. QED  BY <1>1, NoReqType DEF Init, KeyInv, KeysBelow, KeyHeld

\* A consumer in production is one of an application with a key, and neither
\* gateway lags behind the stored keys.
NotAheadInv ==
    /\ StoredKeyNotAhead
    /\ \A a \in Apps : consumers["production"][a] # NoConsumer => creds[a].key # 0

\* A step of a request that is not a deletion keeps the stored keys behind.
LEMMA NextNotAhead ==
    ASSUME BaseInv, KeyInv, OpsInv, "deleteApp" \notin Ops, NotAheadInv, [Next]_vars
    PROVE  NotAheadInv'
<1>1. /\ TypeOK /\ ShapeInv /\ KeysBelow /\ "production" \in Envs /\ "sandbox" \in Envs
      /\ \A a \in Apps : creds[a] \in CredRow
      /\ \A e \in Envs, a \in Apps : consumers[e][a] \in ConsumerObj
      /\ nextKey \in Nat \ {0} /\ NoConsumer.key = 0
  BY DEF BaseInv, KeyInv, TypeOK, Envs, NoConsumer
<1>2. /\ \A a \in Apps : creds[a].key \in Nat /\ creds[a].sandboxKey \in Nat
      /\ \A e \in Envs, a \in Apps : consumers[e][a].key \in Nat
  BY <1>1 DEF CredRow, ConsumerObj
<1>3. CASE UNCHANGED <<creds, nextKey, consumers, req>>
  BY <1>3 DEF NotAheadInv, StoredKeyNotAhead
<1>4. ASSUME NEW r \in Requests, Step(r) \/ Fail(r)
      PROVE  NotAheadInv'
  <2>. DEFINE q == req[r]
              s == req'[r]
  <2>1. KeyMove(r) /\ KeyHeld(q) /\ q.key \in Nat /\ q.keys \in [Apps -> Nat]
    BY <1>1, <1>4, KeyMoves DEF KeyInv, TypeOK, Request
  <2>2. CASE UNCHANGED <<creds, consumers>>
    BY <2>2 DEF NotAheadInv, StoredKeyNotAhead
  <2>3. CASE Issues(r)
    BY <1>1, <1>2, <2>3 DEF Issues, NotAheadInv, StoredKeyNotAhead, StoresKey
  <2>4. CASE Admits(r)
    BY <1>1, <1>2, <2>1, <2>4 DEF Admits, NotAheadInv, StoredKeyNotAhead, SetsConsumer, KeyHeld, At
  <2>5. CASE Rotates(r)
    <3>1. RotatedEnv(q) \in {"production", "sandbox"} /\ creds[q.app].key # 0
      BY <2>1, <2>5 DEF Rotates, RotatedEnv, KeyHeld, At
    <3>. QED
      BY <1>1, <1>2, <2>5, <3>1 DEF Rotates, NotAheadInv, StoredKeyNotAhead, SetsConsumer, KeysBelow
  <2>6. CASE Enables(r)
    <3>1. s.key \in Nat /\ creds[q.app].sandboxKey <= s.key
      BY <1>1, <1>2, <2>1, <2>6 DEF Enables, KeyHeld, At, KeysBelow
    <3>. QED
      BY <1>1, <1>2, <2>6, <3>1 DEF Enables, NotAheadInv, StoredKeyNotAhead, SetsConsumer
  <2>7. CASE Keeps(r)
    <3>1. CASE creds[q.app].key = 0
      BY <2>2, <2>7, <3>1 DEF Keeps
    <3>2. CASE At(r, "rotate.save") /\ q.op = "rotate" /\ StoresKey(q.app, q.key)
      <4>1. consumers["production"][q.app].key = q.key /\ q.key # 0
        BY <2>1, <3>2 DEF KeyHeld, At, RotatedEnv
      <4>. QED
        BY <1>1, <1>2, <2>1, <2>7, <3>2, <4>1 DEF Keeps, NotAheadInv, StoredKeyNotAhead, StoresKey
    <3>3. CASE /\ (At(r, "rotate.save") /\ q.op # "rotate") \/ At(r, "enable.save")
               /\ StoresSandboxKey(q.app, q.key)
      <4>1. consumers["sandbox"][q.app].key = q.key
        BY <2>1, <3>3 DEF KeyHeld, At, RotatedEnv
      <4>. QED
        BY <1>1, <1>2, <2>1, <2>7, <3>3, <4>1 DEF Keeps, NotAheadInv, StoredKeyNotAhead, StoresSandboxKey
    <3>. QED  BY <2>7, <3>1, <3>2, <3>3 DEF Keeps
  <2>8. ~Clears(r) /\ ~Forgets(r)
    BY <1>1 DEF OpsInv, Clears, Forgets, At, ShapeInv, RequestShape, MayBeAt, DeletePcs
  <2>9. CASE Reinstalls(r)
    <3>1. PICK a \in Apps : /\ q.keys[a] # 0
                            /\ \/ At(r, "plan.push") /\ SetsConsumer("production", a, q.keys[a])
                               \/ At(r, "plan.sandboxPush") /\ SetsConsumer("sandbox", a, q.keys[a])
      BY <2>9 DEF Reinstalls
    <3>. QED
      BY <1>1, <1>2, <2>1, <2>9, <3>1
      DEF Reinstalls, NotAheadInv, StoredKeyNotAhead, SetsConsumer, KeyHeld, At
  <2>. QED
    BY <2>1, <2>2, <2>3, <2>4, <2>5, <2>6, <2>7, <2>8, <2>9
    DEF KeyMove, Quiet, Selects, Lists, KeepsKeys
<1>. QED  BY <1>3, <1>4, NextByOne

\* Rotation and opt-in write the gateway first: the stored key is never ahead of
\* the one the gateway accepts, wherever a request fails, as long as requests do
\* not overlap and no application is deleted.
THEOREM StoredKeysBehind ==
    ASSUME "deleteApp" \notin Ops
    PROVE  Spec /\ []Serial => []StoredKeyNotAhead
<1>. DEFINE Aux == OpsInv /\ KeyInv /\ NotAheadInv
<1>1. Init => Aux
  BY NoReqType, InitKeyInv DEF Init, OpsInv, NotAheadInv, StoredKeyNotAhead, NoCred, NoConsumer, Envs
<1>2. IInv /\ Serial /\ Serial' /\ Aux /\ [Next]_vars => Aux'
  BY NextOps, NextKeyInv, NextNotAhead DEF IInv, BaseInv
<1>3. Aux => StoredKeyNotAhead
  BY DEF NotAheadInv
<1>. HIDE DEF Aux
<1>. QED  BY <1>1, <1>2, <1>3, Invariance, PTL DEF Spec

-----------------------------------------------------------------------------
(* The key shown and the key accepted *)

\* A new key of a is installed in gateway e and is about to be stored.
Rotating(e, a) ==
    \E r \in Requests : /\ req[r].app = a
                        /\ \/ At(r, "rotate.save") /\ RotatedEnv(req[r]) = e
                           \/ At(r, "enable.save") /\ e = "sandbox"
StoredKey(e, a) == IF e = "production" THEN creds[a].key ELSE creds[a].sandboxKey
Agree ==
    \A e \in Envs, a \in Apps : consumers[e][a] # NoConsumer =>
        /\ consumers[e][a].key # 0
        /\ Rotating(e, a) \/ consumers[e][a].key = StoredKey(e, a)

\* A deletion has dropped the consumers before it deletes the row; only with
\* sandbox settings does anything reach the sandbox gateway.
Clearing(q) ==
    /\ q.pc \in {"delete.sandboxKey", "delete.sandboxConsumer", "delete.row"} =>
           consumers["production"][q.app] = NoConsumer
    /\ q.pc = "delete.row" => consumers["sandbox"][q.app] = NoConsumer
    /\ q.pc \in {"enable.consumer", "plan.sandboxConsumers", "plan.sandboxPush"} => SandboxConfigured
    /\ q.pc = "rotate.consumer" /\ q.op # "rotate" => SandboxConfigured
AgreeInv ==
    /\ Agree
    /\ ~SandboxConfigured => \A a \in Apps : consumers["sandbox"][a] = NoConsumer
    /\ \A r \in Requests : Clearing(req[r])

\* No gateway goes back to an older key.
NeverBack ==
    \A e \in Envs, a \in Apps :
        consumers'[e][a] # NoConsumer => consumers'[e][a].key >= consumers[e][a].key

\* Without overlap and faults the gateways hold the stored keys, but for the one
\* being rotated, and never an older one than before.
LEMMA NextAgree ==
    ASSUME BaseInv, Serial, Serial', KeyInv, AgreeInv, faults = 0, [Next]_vars
    PROVE  AgreeInv' /\ NeverBack
<1>1. /\ TypeOK /\ ShapeInv /\ KeysBelow /\ Agree /\ "production" \in Envs /\ "sandbox" \in Envs
      /\ \A a \in Apps : creds[a] \in CredRow
      /\ \A e \in Envs, a \in Apps : consumers[e][a] \in ConsumerObj
      /\ nextKey \in Nat \ {0} /\ NoConsumer.key = 0 /\ Envs = {"production", "sandbox"}
  BY DEF BaseInv, KeyInv, AgreeInv, TypeOK, Envs, NoConsumer
<1>2. /\ \A a \in Apps : creds[a].key \in Nat /\ creds[a].sandboxKey \in Nat
      /\ \A e \in Envs, a \in Apps : consumers[e][a].key \in Nat
  BY <1>1 DEF CredRow, ConsumerObj
<1>3. CASE UNCHANGED <<creds, nextKey, consumers, req>>
  BY <1>2, <1>3 DEF AgreeInv, Agree, Rotating, At, RotatedEnv, StoredKey, Clearing, NeverBack
<1>4. Clearing(NoReq)'
  BY NoReqType DEF Clearing
<1>5. ASSUME NEW r \in Requests, Step(r) \/ Fail(r)
      PROVE  AgreeInv' /\ NeverBack
  <2>. DEFINE q == req[r]
              s == req'[r]
  <2>1. KeyMove(r) /\ KeyHeld(q) /\ Clearing(q) /\ q.key \in Nat /\ q.keys \in [Apps -> Nat]
    BY <1>1, <1>5, KeyMoves DEF KeyInv, AgreeInv, TypeOK, Request
  <2>2. Step(r)
    BY <1>5 DEF Fail
  <2>3. SUFFICES /\ Agree' /\ Clearing(req[r])' /\ NeverBack
                 /\ ~SandboxConfigured => \A a \in Apps : consumers'["sandbox"][a] = NoConsumer
    BY <1>4, <1>5, Alone DEF AgreeInv, BaseInv
  <2>4. \A t \in Requests : t # r => req[t].pc = "idle" /\ req'[t].pc = "idle"
    BY <1>5, Alone, NoReqType DEF BaseInv
  <2>5. \A e \in Envs, a \in Apps :
            /\ Rotating(e, a) => q.app = a /\ (\/ q.pc = "rotate.save" /\ RotatedEnv(q) = e
                                               \/ q.pc = "enable.save" /\ e = "sandbox")
            /\ s.app = a /\ (\/ s.pc = "rotate.save" /\ RotatedEnv(s) = e
                             \/ s.pc = "enable.save" /\ e = "sandbox") => Rotating(e, a)'
    <3>1. \A t \in Requests : (RotatedEnv(req[t]))' = RotatedEnv(req'[t])
      BY DEF RotatedEnv
    <3>. QED  BY <2>4, <3>1 DEF Rotating, At
  <2>6. CASE q.pc \in {"rotate.save", "enable.save"}
    <3>1. Keeps(r) /\ creds[q.app].key # 0
      BY <1>1, <2>1, <2>2, <2>6, SaveStep DEF KeyHeld
    <3>2. s.pc \notin KeyPcs /\ UNCHANGED consumers /\ q.app \in Apps
      BY <3>1 DEF Keeps
    <3>3. NeverBack /\ Clearing(req[r])'
      BY <1>2, <3>2 DEF NeverBack, Clearing, KeyPcs
    <3>4. ASSUME NEW e \in Envs, NEW a \in Apps, consumers[e][a] # NoConsumer
          PROVE  consumers[e][a].key = StoredKey(e, a)'
      <4>1. CASE q.pc = "rotate.save" /\ q.op = "rotate"
        <5>1. StoresKey(q.app, q.key) /\ RotatedEnv(q) = "production" /\ consumers["production"][q.app].key = q.key
          BY <2>1, <3>1, <4>1 DEF Keeps, At, RotatedEnv, KeyHeld
        <5>2. Rotating(e, a) => e = "production" /\ q.app = a
          BY <2>5, <4>1, <5>1
        <5>. QED  BY <1>1, <3>2, <3>4, <5>1, <5>2 DEF Agree, StoresKey, StoredKey
      <4>2. CASE q.pc = "enable.save" \/ q.op # "rotate"
        <5>1. StoresSandboxKey(q.app, q.key) /\ consumers["sandbox"][q.app].key = q.key
          BY <2>1, <2>6, <3>1, <4>2 DEF Keeps, At, RotatedEnv, KeyHeld
        <5>2. Rotating(e, a) => e = "sandbox" /\ q.app = a
          BY <2>5, <4>2 DEF RotatedEnv
        <5>. QED  BY <1>1, <3>2, <3>4, <5>1, <5>2 DEF Agree, StoresSandboxKey, StoredKey
      <4>. QED  BY <2>6, <4>1, <4>2
    <3>5. Agree'
      BY <1>1, <3>2, <3>4 DEF Agree
    <3>. QED  BY <3>2, <3>3, <3>5 DEF AgreeInv
  <2>7. CASE q.pc \notin {"rotate.save", "enable.save"}
    <3>1. \A e \in Envs, a \in Apps : ~Rotating(e, a)
      BY <2>5, <2>7
    <3>2. \A e \in Envs, a \in Apps : consumers[e][a] # NoConsumer =>
              consumers[e][a].key # 0 /\ consumers[e][a].key = StoredKey(e, a)
      BY <1>1, <3>1 DEF Agree
    <3>3. UNCHANGED <<creds, consumers>> =>
              /\ Agree' /\ NeverBack
              /\ ~SandboxConfigured => \A a \in Apps : consumers'["sandbox"][a] = NoConsumer
      BY <1>2, <3>2 DEF Agree, NeverBack, AgreeInv, StoredKey
    <3>4. CASE Quiet(r) \/ Lists(r)
      <4>1. Clearing(req[r])'
        BY <2>1, <3>4 DEF Quiet, Lists, Listed, KeepsKeys, Clearing, KeyPcs, At
      <4>. QED  BY <3>3, <3>4, <4>1 DEF Quiet, Lists, KeepsKeys
    <3>5. CASE Issues(r)
      <4>1. Clearing(req[r])'
        BY <3>5 DEF Issues, Clearing, KeyPcs
      <4>2. CASE creds[q.app].key # 0
        BY <3>3, <3>5, <4>1, <4>2 DEF Issues
      <4>3. CASE creds[q.app].key = 0
        <5>1. consumers["production"][q.app] = NoConsumer
          BY <1>1, <3>2, <3>5, <4>3 DEF Issues, StoredKey
        <5>2. Agree'
          BY <1>1, <3>2, <3>5, <4>3, <5>1 DEF Issues, Agree, StoredKey, StoresKey
        <5>. QED  BY <1>2, <3>5, <4>1, <5>2 DEF Issues, NeverBack, AgreeInv
      <4>. QED  BY <4>2, <4>3
    <3>6. CASE Admits(r)
      <4>1. q.key = creds[q.app].key /\ q.key # 0
        BY <2>1, <3>6 DEF Admits, KeyHeld, At
      <4>2. Agree'
        BY <1>1, <3>2, <3>6, <4>1 DEF Admits, Agree, StoredKey, SetsConsumer
      <4>3. NeverBack
        BY <1>1, <1>2, <2>1, <3>2, <3>6, <4>1 DEF Admits, NeverBack, StoredKey, SetsConsumer
      <4>. QED  BY <1>1, <3>6, <4>2, <4>3 DEF Admits, SetsConsumer, AgreeInv, Clearing, KeyPcs
    <3>7. CASE Selects(r)
      <4>1. Clearing(req[r])'
        <5>1. s.pc = "rotate.consumer" /\ s.op = "rotate" => Clearing(req[r])'
          BY DEF Clearing
        <5>2. s.pc \in {"rotate.consumer", "enable.consumer"} /\ SandboxConfigured => Clearing(req[r])'
          BY DEF Clearing
        <5>. QED  BY <3>7, <5>1, <5>2 DEF Selects
      <4>. QED  BY <3>3, <3>7, <4>1 DEF Selects, KeepsKeys
    <3>8. CASE Rotates(r)
      <4>1. RotatedEnv(s) = RotatedEnv(q) /\ RotatedEnv(q) \in Envs /\ Rotating(RotatedEnv(q), q.app)'
        BY <1>1, <2>5, <3>8 DEF Rotates, RotatedEnv
      <4>2. ~SandboxConfigured => RotatedEnv(q) = "production"
        BY <2>1, <3>8 DEF Rotates, Clearing, RotatedEnv, At
      <4>3. Agree'
        BY <1>1, <3>2, <3>8, <4>1 DEF Rotates, Agree, StoredKey, SetsConsumer
      <4>4. NeverBack
        BY <1>1, <1>2, <3>8, <4>1 DEF Rotates, NeverBack, SetsConsumer, KeysBelow
      <4>5. Clearing(req[r])'
        BY <3>8 DEF Rotates, Clearing
      <4>. QED  BY <1>1, <3>8, <4>1, <4>2, <4>3, <4>4, <4>5 DEF Rotates, SetsConsumer, AgreeInv
    <3>9. CASE Enables(r)
      <4>1. s.key # 0 /\ s.key \in Nat /\ consumers["sandbox"][q.app].key <= s.key
        BY <1>1, <1>2, <2>1, <3>2, <3>9 DEF Enables, KeysBelow, KeyHeld, At, StoredKey
      <4>2. SandboxConfigured /\ Rotating("sandbox", q.app)'
        BY <1>1, <2>1, <2>5, <3>9 DEF Enables, Clearing, At
      <4>3. Agree'
        BY <1>1, <3>2, <3>9, <4>1, <4>2 DEF Enables, Agree, StoredKey, SetsConsumer
      <4>4. NeverBack
        BY <1>1, <1>2, <3>9, <4>1 DEF Enables, NeverBack, SetsConsumer
      <4>. QED  BY <3>9, <4>2, <4>3, <4>4 DEF Enables, Clearing
    <3>10. CASE Clears(r)
      <4>1. Agree'
        BY <1>1, <3>2, <3>10 DEF Clears, Agree, StoredKey, Drops
      <4>2. NeverBack
        BY <1>1, <1>2, <3>10 DEF Clears, NeverBack, Drops
      <4>3. ~SandboxConfigured => \A a \in Apps : consumers'["sandbox"][a] = NoConsumer
        BY <1>1, <3>10 DEF Clears, AgreeInv, Drops
      <4>4. creds[q.app].sandboxKey = 0 => consumers["sandbox"][q.app] = NoConsumer
        BY <1>1, <3>2, <3>10 DEF Clears, StoredKey
      <4>5. Clearing(req[r])'
        <5>1. CASE UNCHANGED consumers /\ At(r, "delete.next") /\ creds[q.app].key = 0 /\ s.pc = "delete.row"
          <6>1. creds[q.app].sandboxKey = 0 /\ consumers["production"][q.app] = NoConsumer
            BY <1>1, <3>2, <3>10, <5>1 DEF Clears, StoredKey, KeysBelow
          <6>. QED  BY <3>10, <4>4, <5>1, <6>1 DEF Clears, Clearing
        <5>2. CASE /\ Drops("production", q.app)
                   /\ s.pc = IF SandboxConfigured THEN "delete.sandboxKey" ELSE "delete.row"
          BY <1>1, <3>10, <4>3, <5>2 DEF Clears, Clearing, Drops
        <5>3. CASE UNCHANGED consumers /\ At(r, "delete.sandboxKey")
          BY <2>1, <3>10, <4>4, <5>3 DEF Clears, Clearing, At
        <5>4. CASE At(r, "delete.sandboxConsumer") /\ Drops("sandbox", q.app) /\ s.pc = "delete.row"
          BY <1>1, <2>1, <3>10, <5>4 DEF Clears, Clearing, At, Drops
        <5>. QED  BY <3>10, <5>1, <5>2, <5>3, <5>4 DEF Clears
      <4>. QED  BY <4>1, <4>2, <4>3, <4>5
    <3>11. CASE Forgets(r)
      <4>1. \A e \in Envs : consumers[e][q.app] = NoConsumer
        BY <1>1, <2>1, <3>11 DEF Forgets, Clearing, At
      <4>2. Agree'
        BY <3>2, <3>11, <4>1 DEF Forgets, Agree, StoredKey
      <4>. QED  BY <1>2, <3>11, <4>2 DEF Forgets, NeverBack, AgreeInv, Clearing, KeyPcs
    <3>12. CASE Reinstalls(r)
      <4>1. PICK a \in Apps : /\ q.keys[a] # 0
                              /\ \/ At(r, "plan.push") /\ SetsConsumer("production", a, q.keys[a])
                                 \/ At(r, "plan.sandboxPush") /\ SetsConsumer("sandbox", a, q.keys[a])
        BY <3>12 DEF Reinstalls
      <4>2. PICK e \in Envs : /\ SetsConsumer(e, a, q.keys[a]) /\ q.keys[a] = StoredKey(e, a)
                              /\ e = "sandbox" => SandboxConfigured
        BY <1>1, <2>1, <4>1 DEF KeyHeld, Clearing, At, StoredKey
      <4>3. Agree' /\ UNCHANGED creds
        BY <3>2, <3>12, <4>1, <4>2 DEF Reinstalls, Agree, SetsConsumer, StoredKey
      <4>4. NeverBack
        <5>1. consumers[e][a].key \in {0, q.keys[a]}
          BY <1>1, <3>2, <4>2
        <5>. QED  BY <1>2, <2>1, <4>2, <5>1 DEF NeverBack, SetsConsumer
      <4>5. Clearing(req[r])'
        BY <2>1, <3>12, <4>1 DEF Reinstalls, Clearing, KeyPcs, At
      <4>. QED  BY <1>1, <4>2, <4>3, <4>4, <4>5 DEF SetsConsumer, AgreeInv
    <3>13. CASE Keeps(r)
      <4>1. creds[q.app].key = 0
        BY <2>7, <3>13 DEF Keeps, At
      <4>. QED  BY <2>7, <3>13, <4>1 DEF Keeps, At
    <3>. QED
      BY <2>1, <3>4, <3>5, <3>6, <3>7, <3>8, <3>9, <3>10, <3>11, <3>12, <3>13 DEF KeyMove
  <2>. QED  BY <2>6, <2>7
<1>. QED  BY <1>3, <1>5, NextByOne

\* A fault is what MaxFaults still allows.
LEMMA NoMoreFaults == ASSUME BaseInv, faults = 0, [Next]_vars PROVE faults' = 0
BY AdminEffect DEF Administers, FaultsEffect

\* The key the portal shows an application is the key the gateway accepts, in
\* production and in the sandbox, whenever no request is in progress; provided
\* requests do not overlap and none fails half way.
THEOREM KeysShownAreAccepted ==
    ASSUME MaxFaults = 0
    PROVE  Spec /\ []Serial => []KeysAgree
<1>. DEFINE Aux == KeyInv /\ faults = 0 /\ AgreeInv
<1>1. Init => Aux
  BY NoReqType, InitKeyInv DEF Init, AgreeInv, Agree, Clearing, Envs
<1>2. IInv /\ Serial /\ Serial' /\ Aux /\ [Next]_vars => Aux'
  BY NextKeyInv, NextAgree, NoMoreFaults DEF IInv, BaseInv
<1>3. IInv /\ Aux => KeysAgree
  <2>1. IInv /\ Quiescent => \A e \in Envs, a \in Apps : ~Rotating(e, a)
    BY NoReqType DEF IInv, Quiescent, Idle, ShapeInv, RequestShape, Rotating, At
  <2>. QED  BY <2>1 DEF KeysAgree, AgreeInv, Agree, StoredKey, Envs, Quiescent
<1>. HIDE DEF Aux
<1>. QED  BY <1>1, <1>2, <1>3, Invariance, PTL DEF Spec

\* Once a key is rotated away no gateway accepts it again, not even when a plan
\* edit installs consumers from a list of keys; on the same conditions.
THEOREM RotatedKeysStayDead ==
    ASSUME MaxFaults = 0
    PROVE  Spec /\ []Serial => RotatedKeyStaysDead
<1>. DEFINE Aux == KeyInv /\ faults = 0 /\ AgreeInv
<1>1. Init => Aux
  BY NoReqType, InitKeyInv DEF Init, AgreeInv, Agree, Clearing, Envs
<1>2. IInv /\ Serial /\ Serial' /\ Aux /\ [Next]_vars => Aux'
  BY NextKeyInv, NextAgree, NoMoreFaults DEF IInv, BaseInv
<1>3. IInv /\ Serial /\ Serial' /\ Aux /\ [Next]_vars => [NeverBack]_vars
  BY NextAgree DEF IInv, BaseInv
<1>4. RotatedKeyStaysDead <=> [][NeverBack]_vars
  BY PTL DEF RotatedKeyStaysDead, NeverBack
<1>. HIDE DEF Aux
<1>. QED  BY <1>1, <1>2, <1>3, <1>4, Invariance, PTL DEF Spec

=============================================================================
