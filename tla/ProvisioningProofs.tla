---------------------------- MODULE ProvisioningProofs ----------------------------
(***************************************************************************)
(* Proofs about what the gateways admit, with one request in progress at a *)
(* time: the routes follow the subscriptions table, whichever call fails.  *)
(***************************************************************************)
EXTENDS RouteProofs

-----------------------------------------------------------------------------
(* The tables behind the lists *)

\* The live subscriptions.
Actives == {x \in Apps \X Products : subs[x].status = "active"}

\* Who is on the lists the tables give.
Membership(p) ==
    /\ products[p].auth # "oauth2" => \A i :
           i \in Subscribers[p] <=> i \in Apps /\ <<i, p>> \in Actives /\ creds[i].key # 0
    /\ products[p].auth = "oauth2" => \A i :
           i \in Subscribers[p] <=> i # None /\ \E a \in Apps : <<a, p>> \in Actives /\ oidc[a] = i
    /\ \A i : i \in SandboxSubscribers[p] <=>
           products[p].sandbox /\ i \in Apps /\ <<i, p>> \in Actives /\ creds[i].sandboxKey # 0
LEMMA Members ==
    ASSUME NEW p \in Products
    PROVE  Membership(p) /\ Membership(p)'
<1>1. Membership(p)
  BY DEF Membership, Subscribers, SandboxSubscribers, DesiredMembers, OAuthClientsForProduct,
     ConsumersForProduct, SandboxConsumersForProduct, ActiveApps, Actives
<1>2. Membership(p)'
  BY DEF Membership, Subscribers, SandboxSubscribers, DesiredMembers, OAuthClientsForProduct,
     ConsumersForProduct, SandboxConsumersForProduct, ActiveApps, Actives
<1>. QED  BY <1>1, <1>2

\* Which moves write which table.
LEMMA Writes ==
    ASSUME NEW r, RouteMove(r)
    PROVE  /\ UNCHANGED products \/ SavesEdit(r) \/ Discards(r)
           /\ UNCHANGED oidc \/ Registers(r) \/ Leaves(r)
           /\ UNCHANGED routes \/ Deprovisions(r) \/ Pushes(r) \/ PushesSandbox(r)
           /\ \/ UNCHANGED subs
              \/ Inserts(r) \/ Withdraws(r) \/ Undoes(r) \/ Refuses(r) \/ GoesLive(r) \/ Leaves(r) \/ Discards(r)
BY DEF RouteMove, Passes, Ends, Inserts, Withdraws, Undoes, Reviews, Refuses, Looks, LooksUp, Credits, Installs,
       GoesLive, AsksSandbox, Registers, ListsProducts, Opts, OptsIn, OptedIn, Retires, Cleans, Leaves, Edited,
       SavesEdit, Counts, Discontinues, Discards, Deprovisions, ReadsProduct, ListsMembers, Pushes, ReadsSandbox,
       ListsSandbox, PushesSandbox, Lasting

-----------------------------------------------------------------------------
(* What holds between requests that do not overlap *)

Ground == OpsInv /\ KeyInv /\ HeldInv /\ EditHeld /\ Referenced /\ StatusHeld

\* Nothing is held at first.
LEMMA InitGround == Init => Ground
<1>1. NoReq.pc \notin RouteWatch /\ NoReq.op \notin {"updateProduct", "approve", "subscribe"} /\ NoReq.op = "none"
  BY NoReqType DEF RouteWatch, Route3, Sandbox3, EnablePcs, DeletePcs
<1>2. Init => HeldInv
  BY <1>1 DEF Init, HeldInv, Held
<1>3. Init => OpsInv /\ EditHeld /\ StatusHeld /\ Referenced
  BY <1>1 DEF Init, OpsInv, EditHeld, StatusHeld, Referenced
<1>. QED  BY <1>2, <1>3, InitKeyInv DEF Ground

\* What is held and what it refers to stays so, without overlap.
LEMMA NextGround ==
    ASSUME IInv, IInv', Serial, Serial', Ground, [Next]_vars
    PROVE  Ground'
<1>1. BaseInv /\ BaseInv'
  BY DEF IInv, BaseInv
<1>2. ResubmissionsApart /\ RejectionsApart
  BY DEF Serial, Idle, ResubmissionsApart, RejectionsApart
<1>3. KeyInv' /\ OpsInv' /\ EditHeld' /\ Referenced' /\ StatusHeld'
  BY <1>1, <1>2, NextKeyInv, NextOps, NextEditHeld, NextReferenced, NextStatusHeld DEF Ground
<1>. QED  BY <1>3, NextHeld DEF Ground

\* What a step makes of the live subscriptions.
Ended(r) ==
    /\ Withdraws(r) \/ Undoes(r) \/ Refuses(r)
    /\ req'[r].pc = "route.product" /\ req'[r].prod \in Products
    /\ req'[r].op \in {"unsubscribe", "reject", "deleteApp"}
    /\ Actives' = Actives \ {<<req'[r].app, req'[r].prod>>}
WentLive(r) ==
    /\ GoesLive(r) /\ req'[r] # NoReq
    /\ req[r].app \in Apps /\ req[r].prod \in Products
    /\ Actives' = Actives \cup {<<req[r].app, req[r].prod>>}
LEMMA ActivesAfter ==
    ASSUME IInv, IInv', Ground, [Next]_vars, NEW r \in Requests, Step(r) \/ Fail(r)
    PROVE  /\ RouteMove(r)
           /\ UNCHANGED Actives \/ Ended(r) \/ WentLive(r)
           /\ Withdraws(r) \/ Undoes(r) \/ Refuses(r) => Ended(r)
           /\ GoesLive(r) => WentLive(r)
<1>. DEFINE q == req[r]
            s == req'[r]
            z == <<req[r].app, req[r].prod>>
<1>1. /\ RouteMove(r) /\ Held(q) /\ RequestShape(q) /\ RowInv
      /\ \A x \in Apps \X Products : subs[x] \in SubRow /\ subs'[x] \in SubRow
      /\ NoSub.status = "none" /\ NoSub.id = 0 /\ NoReq.pc = "idle" /\ q.todo \subseteq Products
  BY RouteSteps, NoReqType DEF Ground, HeldInv, IInv, ShapeInv, TypeOK, NoSub, Request
<1>2. ASSUME \A x \in Apps \X Products : subs'[x].status = "active" <=> subs[x].status = "active"
      PROVE  UNCHANGED Actives
  BY <1>2 DEF Actives
<1>3. ASSUME Inserts(r) PROVE UNCHANGED Actives
  <2>1. q.op = "subscribe" /\ z \in Apps \X Products
    BY <1>1, <1>3 DEF Inserts, At, RequestShape, MayBeAt, AdminOps
  <2>2. subs[z].status # "active"
    BY <2>1 DEF Ground, StatusHeld
  <2>. QED  BY <1>2, <1>3, <2>1, <2>2 DEF Inserts, SavedBy
<1>4. ASSUME Withdraws(r) PROVE Ended(r)
  <2>1. Actives' = Actives \ {<<s.app, s.prod>>}
    BY <1>1, <1>4 DEF Withdraws, Gone, Actives
  <2>. QED  BY <1>4, <2>1 DEF Withdraws, Fresh, Ended
<1>5. ASSUME Undoes(r) PROVE Ended(r)
  <2>1. q.op = "deleteApp" /\ q.app \in Apps
    BY <1>1, <1>5, WhoseStep DEF Undoes, At, RouteWatch, DeletePcs, AdminOps
  <2>2. s.app = q.app /\ s.op = "deleteApp" /\ s.prod \in Products /\ s.pc = "route.product"
    BY <1>1, <1>5, <2>1 DEF Undoes, Same
  <2>3. Actives' = Actives \ {<<s.app, s.prod>>}
    BY <1>1, <1>5, <2>1, <2>2 DEF Undoes, Gone, Actives
  <2>. QED  BY <1>1, <1>5, <2>2, <2>3 DEF Ended
<1>6. ASSUME NEW st \in {"rejected", "active"}, SetSubscriptionStatus(q.sub, st), IsSubscription(z, q.sub),
             z \in Apps \X Products
      PROVE  /\ st = "rejected" => Actives' = Actives \ {z}
             /\ st = "active" => Actives' = Actives \cup {z}
             /\ HasSubscription(q.sub)
  <2>1. \A x \in Apps \X Products : IsSubscription(x, q.sub) <=> x = z
    BY <1>1, <1>6 DEF RowInv, IsSubscription
  <2>2. \A x \in Apps \X Products : subs'[x].status = IF x = z THEN st ELSE subs[x].status
    <3>1. \A x \in Apps \X Products : subs'[x] = IF x = z THEN [subs[x] EXCEPT !.status = st] ELSE subs[x]
      BY <1>6, <2>1 DEF SetSubscriptionStatus
    <3>. QED  BY <1>1, <3>1 DEF SubRow
  <2>. QED  BY <1>6, <2>2 DEF Actives, HasSubscription
<1>7. ASSUME Refuses(r) PROVE Ended(r)
  <2>1. q.op = "reject" /\ q.app \in Apps /\ q.prod \in Products /\ IsSubscription(z, q.sub)
    BY <1>1, <1>7, WhoseStep DEF Refuses, At, RouteWatch, AdminOps, Held, WorkHeld
  <2>2. Actives' = Actives \ {z} /\ HasSubscription(q.sub)
    BY <1>6, <1>7, <2>1 DEF Refuses
  <2>. QED  BY <1>7, <2>1, <2>2 DEF Refuses, SameJob, Same, Ended
<1>8. ASSUME GoesLive(r) PROVE WentLive(r)
  <2>1. q.op = "approve" /\ q.app \in Apps /\ q.prod \in Products /\ IsSubscription(z, q.sub)
    BY <1>1, <1>8, WhoseStep DEF GoesLive, At, RouteWatch, ApprovePcs, AdminOps, Held, ApprovalHeld
  <2>2. Actives' = Actives \cup {z} /\ HasSubscription(q.sub)
    BY <1>6, <1>8, <2>1 DEF GoesLive
  <2>. QED  BY <1>1, <1>8, <2>1, <2>2 DEF GoesLive, WentLive
<1>9. ASSUME Leaves(r) PROVE UNCHANGED Actives
  <2>1. q.op = "deleteApp" /\ q.app \in Apps /\ \A p \in Products : subs[<<q.app, p>>] = NoSub
    BY <1>1, <1>9, WhoseStep DEF Leaves, At, RouteWatch, DeletePcs, AdminOps, Held, WorkHeld
  <2>2. \A x \in Apps \X Products : subs'[x] = subs[x]
    BY <1>9, <2>1 DEF Leaves
  <2>. QED  BY <1>2, <2>2
<1>10. ASSUME Discards(r) PROVE UNCHANGED Actives
  <2>1. q.prod \in Products /\ ActiveApps(q.prod) = {}
    BY <1>1, <1>10, WhoseStep DEF Discards, At, RouteWatch, Held, WorkHeld
  <2>2. \A x \in Apps \X Products : subs'[x].status = "active" <=> subs[x].status = "active"
    BY <1>1, <1>10, <2>1 DEF Discards, ActiveApps
  <2>. QED  BY <1>2, <2>2
<1>11. UNCHANGED subs => UNCHANGED Actives
  BY DEF Actives
<1>. QED  BY <1>1, <1>3, <1>4, <1>5, <1>7, <1>8, <1>9, <1>10, <1>11, Writes

\* What the locals of an approval were when it activates, and what activation
\* makes of the lists: the newcomer is on the list of its product.
LEMMA NewcomerJoins ==
    ASSUME IInv, IInv', Serial, Serial', Ground, [Next]_vars, NEW r \in Requests, Step(r) \/ Fail(r), GoesLive(r)
    PROVE  /\ req[r].prod \in Products /\ req[r].app \in Apps
           /\ NewcomerHeld(req[r]) /\ ListHeld(req[r])
           /\ UNCHANGED <<products, oidc, creds, consumers, routes>>
           /\ Subscribers[req[r].prod] \cup req[r].extra \subseteq Subscribers'[req[r].prod]
           /\ products[req[r].prod].auth = "key-auth" \/ MaxFaults = 0 =>
                  Subscribers'[req[r].prod] = Subscribers[req[r].prod] \cup req[r].extra
           /\ \A p \in Products \ {req[r].prod} :
                  Subscribers'[p] = Subscribers[p] /\ SandboxSubscribers'[p] = SandboxSubscribers[p]
<1>. DEFINE q == req[r]
<1>1. /\ WentLive(r) /\ Held(q) /\ RequestShape(q) /\ BaseInv /\ KeyInv
      /\ \A p \in Products : products[p].auth \in {"key-auth", "oauth2"}
  BY ActivesAfter DEF Ground, HeldInv, IInv, ShapeInv, BaseInv, TypeOK, ProductRow, AuthTypes
<1>2. q.op = "approve" /\ q.pc = "approve.activate" /\ q.prod \in Products /\ q.app \in Apps
  BY <1>1, WhoseStep DEF GoesLive, WentLive, At, RouteWatch, ApprovePcs
<1>3. NewcomerHeld(q) /\ ListHeld(q)
  BY <1>1, <1>2 DEF Held, ApprovalHeld, RouteWatch
<1>4. UNCHANGED <<products, oidc, creds, consumers, routes>>
  BY <1>1, <1>2, KeysKept DEF GoesLive, KeyWrites
<1>5. Actives' = Actives \cup {<<q.app, q.prod>>}
  BY <1>1 DEF WentLive
<1>6. ASSUME NEW p \in Products
      PROVE  /\ Membership(p) /\ Membership(p)'
             /\ \A a \in Apps : <<a, p>> \in Actives' <=> <<a, p>> \in Actives \/ (a = q.app /\ p = q.prod)
  BY <1>5, Members
<1>7. ASSUME NEW p \in Products \ {q.prod}
      PROVE  Subscribers'[p] = Subscribers[p] /\ SandboxSubscribers'[p] = SandboxSubscribers[p]
  <2>1. \A a \in Apps : <<a, p>> \in Actives' <=> <<a, p>> \in Actives
    BY <1>6
  <2>2. \A i : i \in Subscribers'[p] <=> i \in Subscribers[p]
    <3>1. CASE products[p].auth = "oauth2"
      BY <1>4, <1>6, <2>1, <3>1 DEF Membership
    <3>2. CASE products[p].auth # "oauth2"
      BY <1>4, <1>6, <2>1, <3>2 DEF Membership
    <3>. QED  BY <3>1, <3>2
  <2>3. \A i : i \in SandboxSubscribers'[p] <=> i \in SandboxSubscribers[p]
    BY <1>4, <1>6, <2>1 DEF Membership
  <2>. QED  BY <2>2, <2>3
<1>8. ASSUME NEW p \in Products, p = q.prod
      PROVE  /\ Subscribers[p] \cup q.extra \subseteq Subscribers'[p]
             /\ products[p].auth = "key-auth" \/ MaxFaults = 0 => Subscribers'[p] = Subscribers[p] \cup q.extra
  <2>1. \A a \in Apps : <<a, p>> \in Actives' <=> <<a, p>> \in Actives \/ a = q.app
    BY <1>6, <1>8
  <2>2. Membership(p) /\ Membership(p)'
    BY <1>6
  <2>3. CASE products[p].auth = "key-auth"
    <3>1. \A i : i \in Subscribers'[p] <=> i \in Subscribers[p] \/ i = q.app
      BY <1>2, <1>3, <1>4, <1>8, <2>1, <2>2, <2>3, ZenonT(60) DEF Membership, NewcomerHeld
    <3>. QED  BY <1>3, <1>8, <2>3, <3>1 DEF NewcomerHeld
  <2>4. CASE products[p].auth = "oauth2"
    <3>1. \A i : i \in Subscribers'[p] <=> i \in Subscribers[p] \/ (i = oidc[q.app] /\ i # None)
      BY <1>2, <1>4, <2>1, <2>2, <2>4 DEF Membership
    <3>. QED  BY <1>3, <1>8, <2>4, <3>1 DEF NewcomerHeld
  <2>. QED  BY <1>1, <2>3, <2>4
<1>. QED  BY <1>2, <1>3, <1>4, <1>7, <1>8

-----------------------------------------------------------------------------
(* Approval *)

\* The route that an approval leaves behind as it activates the subscription.
LEMMA ActivationExact ==
    ASSUME IInv, IInv', Serial, Serial', Ground, [Next]_vars, NEW r \in Requests, NEW p \in Products,
           Activated(r, p), products[p].auth = "key-auth" \/ MaxFaults = 0
    PROVE  (routes["production"][p] = DesiredRoute(p))'
<1>. DEFINE q == req[r]
            s == req'[r]
<1>1. q.pc = "approve.activate" /\ q.prod = p /\ s.op = "approve" /\ s.pc # "approve.activate" /\ BaseInv
  BY DEF Activated, At, IInv, BaseInv
<1>2. Step(r) \/ Fail(r)
  <2>1. PICK t \in Requests : Step(t) \/ Fail(t)
    BY <1>1, NextByOne
  <2>2. t = r
    BY <1>1, <2>1, Alone
  <2>. QED  BY <2>1, <2>2
<1>3. GoesLive(r)
  BY <1>1, <1>2, ActivesAfter, NoReqType
  DEF RouteMove, RouteWatch, Passes, Ends, Inserts, Withdraws, Undoes, Reviews, Refuses, Looks, LooksUp, Credits,
      Installs, AsksSandbox, Registers, ListsProducts, Opts, OptsIn, OptedIn, Retires, Cleans, Leaves, Edited,
      SavesEdit, Counts, Discontinues, Discards, Deprovisions, ReadsProduct, ListsMembers, Pushes, ReadsSandbox,
      ListsSandbox, PushesSandbox, Fresh, At, DeletePcs
<1>4. /\ routes'["production"][p] = RouteFor(products'[p].auth, Subscribers'[p])
      /\ Subscribers'[p] = DesiredMembers(p)'
  <2>1. (Subscribers[p])' = DesiredMembers(p)'
    BY DEF Subscribers
  <2>. QED  BY <1>1, <1>2, <1>3, <2>1, NewcomerJoins DEF ListHeld
<1>. QED  BY <1>4 DEF DesiredRoute, RouteFor

\* An approval of a key-auth product that gets as far as "active" leaves the
\* route exact, whatever an earlier request that failed left behind; as long as
\* requests do not overlap.
THEOREM ApprovalAlwaysConverges == Spec /\ []Serial => ApprovalConverges
<1>. DEFINE Converged == \A r \in Requests, p \in Products :
                Activated(r, p) /\ products[p].auth = "key-auth" =>
                    (routes["production"][p] = DesiredRoute(p))'
<1>1. IInv /\ IInv' /\ Serial /\ Serial' /\ Ground /\ [Next]_vars => Ground' /\ [Converged]_vars
  BY NextGround, ActivationExact
<1>2. ApprovalConverges <=> [][Converged]_vars
  BY PTL DEF ApprovalConverges
<1>. HIDE DEF Converged
<1>. QED  BY <1>1, <1>2, InitGround, Invariance, PTL DEF Spec

\* The same for an oauth2 product, when no request fails half way.
THEOREM OAuthApprovalAlwaysConverges ==
    ASSUME MaxFaults = 0
    PROVE  Spec /\ []Serial => OAuthApprovalConverges
<1>. DEFINE Converged == \A r \in Requests, p \in Products :
                Activated(r, p) /\ products[p].auth = "oauth2" =>
                    (routes["production"][p] = DesiredRoute(p))'
<1>1. IInv /\ IInv' /\ Serial /\ Serial' /\ Ground /\ [Next]_vars => Ground' /\ [Converged]_vars
  BY NextGround, ActivationExact
<1>2. OAuthApprovalConverges <=> [][Converged]_vars
  BY PTL DEF OAuthApprovalConverges
<1>. HIDE DEF Converged
<1>. QED  BY <1>1, <1>2, InitGround, Invariance, PTL DEF Spec

-----------------------------------------------------------------------------
(* Active means provisioned *)

\* A push of the production route sets it to the list read, which is the one the
\* tables give, with the newcomer of an approval.
LEMMA PushedList ==
    ASSUME IInv, Ground, NEW r \in Requests, Pushes(r)
    PROVE  /\ req[r].prod \in Products /\ products[req[r].prod].live
           /\ SetsRoute("production", req[r].prod,
                        RouteFor(products[req[r].prod].auth, Subscribers[req[r].prod] \cup req[r].extra))
<1>. DEFINE q == req[r]
<1>1. Held(q) /\ RequestShape(q) /\ q.pc = "route.push"
  BY DEF Ground, HeldInv, IInv, ShapeInv, Pushes, At
<1>2. ListHeld(q) /\ q.prod \in Products
  BY <1>1, WhoseStep DEF Held, RouteWatch, Route3, RoutePcs
<1>3. q.auth = products[q.prod].auth /\ q.allowed = Subscribers[q.prod] \cup q.extra /\ products[q.prod].live
  BY <1>1, <1>2 DEF ListHeld
<1>. QED  BY <1>2, <1>3 DEF Pushes

\* A product's authentication is as it was, but for an edit and a deletion.
LEMMA ProductKept ==
    ASSUME IInv, Ground, NEW r \in Requests, RouteMove(r), NEW p \in Products, products'[p] # products[p]
    PROVE  /\ req[r].prod = p
           /\ \/ SavesEdit(r) /\ req[r].op = "updateProduct" /\ products'[p] = req[r].row
              \/ Discards(r) /\ req[r].op = "deleteProduct" /\ ActiveApps(p) = {} /\ products'[p] = NoProduct
<1>1. Held(req[r]) /\ RequestShape(req[r])
  BY DEF Ground, HeldInv, IInv, ShapeInv
<1>2. CASE SavesEdit(r)
  BY <1>1, <1>2, WhoseStep DEF SavesEdit, At, RouteWatch
<1>3. CASE Discards(r)
  BY <1>1, <1>3, WhoseStep DEF Discards, At, RouteWatch, Held, WorkHeld
<1>. QED  BY <1>2, <1>3, Writes

\* Only an application without rows loses its credential and its consumers.
LEMMA KeysWhileActive ==
    ASSUME IInv, IInv', Serial, Serial', Ground, [Next]_vars, NEW r \in Requests, Step(r) \/ Fail(r),
           NEW a \in Apps, NEW p \in Products, <<a, p>> \in Actives
    PROVE  /\ creds[a].key # 0 => creds'[a].key # 0
           /\ creds[a].sandboxKey # 0 => creds'[a].sandboxKey # 0
           /\ consumers["production"][a] # NoConsumer => consumers'["production"][a] # NoConsumer
<1>1. BaseInv /\ KeyInv /\ Held(req[r]) /\ RequestShape(req[r]) /\ NoSub.status = "none"
  BY DEF IInv, BaseInv, Ground, HeldInv, ShapeInv, NoSub
<1>2. ~(req[r].pc \in {"delete.row", "delete.consumer"} /\ req[r].app = a)
  <2>1. subs[<<a, p>>] # NoSub
    BY <1>1 DEF Actives
  <2>. QED  BY <1>1, <2>1, WhoseStep DEF RouteWatch, DeletePcs, Held, WorkHeld
<1>. QED  BY <1>1, <1>2, KeysKept DEF At

ProvisionedInv ==
    \A a \in Apps, p \in Products :
        ActiveRow(a, p) /\ products[p].auth = "key-auth" => Provisioned(a, p) /\ creds[a].key # 0

\* No product migrates from oauth2 back to key-auth, where the subscribers have
\* registered client ids and may have no credential.
NoMigrationBack ==
    \A r \in Requests :
        At(r, "product.save") /\ products[req[r].prod].auth = "oauth2" => req[r].row.auth = "oauth2"

\* An active subscriber to a key-auth product stays provisioned.
LEMMA NextProvisioned ==
    ASSUME IInv, IInv', Serial, Serial', Ground, Ground', NoMigrationBack, ProvisionedInv, [Next]_vars
    PROVE  ProvisionedInv'
<1>1. CASE UNCHANGED <<products, subs, creds, consumers, routes>>
  BY <1>1 DEF ProvisionedInv, ActiveRow, Provisioned
<1>2. ASSUME NEW r \in Requests, Step(r) \/ Fail(r)
      PROVE  ProvisionedInv'
  <2>. DEFINE q == req[r]
  <2>1. /\ RouteMove(r) /\ (UNCHANGED Actives \/ Ended(r) \/ WentLive(r))
        /\ TypeOK /\ Envs = {"production", "sandbox"}
        /\ \A p \in Products : products[p].auth \in {"key-auth", "oauth2"}
    BY <1>2, ActivesAfter DEF IInv, Envs, TypeOK, ProductRow, AuthTypes
  <2>. SUFFICES ASSUME NEW a \in Apps, NEW p \in Products, <<a, p>> \in Actives', products'[p].auth = "key-auth"
                PROVE  Provisioned(a, p)' /\ creds'[a].key # 0
    BY DEF ProvisionedInv, ActiveRow, Actives
  <2>2. CASE <<a, p>> \notin Actives
    <3>1. GoesLive(r) /\ a = q.app /\ p = q.prod
      BY <2>1, <2>2 DEF Ended, WentLive
    <3>2. /\ NewcomerHeld(q) /\ ListHeld(q) /\ q.pc = "approve.activate"
          /\ UNCHANGED <<products, oidc, creds, consumers, routes>>
      BY <1>2, <3>1, NewcomerJoins DEF GoesLive, At
    <3>. QED
      BY <3>1, <3>2 DEF NewcomerHeld, ListHeld, RouteFor, Provisioned
  <2>3. CASE <<a, p>> \in Actives
    <3>1. products[p].auth = "key-auth"
      <4>1. CASE products'[p] = products[p]
        BY <4>1
      <4>2. CASE products'[p] # products[p]
        <5>1. SavesEdit(r) /\ q.prod = p /\ q.row.auth = "key-auth"
          BY <2>1, <2>3, <4>2, ProductKept DEF ActiveApps, Actives
        <5>. QED  BY <2>1, <5>1 DEF SavesEdit, NoMigrationBack
      <4>. QED  BY <4>1, <4>2
    <3>2. Provisioned(a, p) /\ creds[a].key # 0 /\ products[p].live
      <4>1. subs[<<a, p>>] # NoSub
        BY <2>3 DEF Actives, NoSub
      <4>. QED  BY <2>3, <3>1, <4>1 DEF ProvisionedInv, ActiveRow, Actives, Ground, Referenced
    <3>3. creds'[a].key # 0 /\ consumers'["production"][a] # NoConsumer
      BY <1>2, <2>3, <3>2, KeysWhileActive DEF Provisioned
    <3>4. routes'["production"][p].kind = "key-auth" /\ a \in routes'["production"][p].allowed
      <4>1. CASE UNCHANGED routes \/ PushesSandbox(r)
        BY <2>1, <3>2, <4>1 DEF Provisioned, PushesSandbox, SetsRoute
      <4>2. CASE Pushes(r)
        <5>1. a \in Subscribers[p]
          <6>1. Membership(p)
            BY Members
          <6>. QED  BY <2>3, <3>1, <3>2, <6>1 DEF Membership
        <5>2. p = q.prod => routes'["production"][p] = RouteFor("key-auth", Subscribers[p] \cup q.extra)
          <6>1. SetsRoute("production", q.prod, RouteFor(products[q.prod].auth, Subscribers[q.prod] \cup q.extra))
            BY <4>2, PushedList
          <6>. QED  BY <2>1, <3>1, <6>1 DEF SetsRoute
        <5>3. p # q.prod => routes'["production"][p] = routes["production"][p]
          BY <2>1, <4>2 DEF Pushes, SetsRoute
        <5>. QED  BY <3>2, <5>1, <5>2, <5>3 DEF RouteFor, Provisioned
      <4>3. CASE Deprovisions(r)
        <5>1. ~products[q.prod].live
          BY <4>3 DEF Deprovisions, At, Ground, HeldInv, Held, WorkHeld, RouteWatch
        <5>. QED  BY <2>1, <3>2, <4>3, <5>1 DEF Deprovisions, SetsRoute, Provisioned
      <4>. QED  BY <2>1, <4>1, <4>2, <4>3, Writes
    <3>. QED  BY <3>3, <3>4 DEF Provisioned
  <2>. QED  BY <2>2, <2>3
<1>. QED  BY <1>1, <1>2, NextByOne

\* "active in DB => provisioned in gateway": whichever statement or call fails,
\* an active subscriber of a key-auth product is on the allow-list of its route
\* and the gateway holds its consumer; as long as requests do not overlap and no
\* edit takes a product from oauth2 back to key-auth.
THEOREM ActiveIsProvisioned ==
    Spec /\ [](Serial /\ NoMigrationBack) => []ActiveImpliesProvisioned
<1>1. Init => ProvisionedInv
  BY DEF Init, ProvisionedInv, ActiveRow, NoSub
<1>2. IInv /\ IInv' /\ Serial /\ Serial' /\ Ground /\ Ground' /\ NoMigrationBack
      /\ ProvisionedInv /\ [Next]_vars => ProvisionedInv'
  BY NextProvisioned
<1>3. IInv /\ IInv' /\ Serial /\ Serial' /\ Ground /\ [Next]_vars => Ground'
  BY NextGround
<1>4. ProvisionedInv => ActiveImpliesProvisioned
  BY DEF ProvisionedInv, ActiveImpliesProvisioned
<1>. QED  BY <1>1, <1>2, <1>3, <1>4, InitGround, Invariance, PTL DEF Spec

-----------------------------------------------------------------------------
(* No route admits more than the tables say, unless it is about to be rebuilt *)

\* The routes a request is about to rebuild.
DueAt(q, p) ==
    /\ products[p].live
    /\ \/ q.pc \in Route3 \cup {"approve.activate"} /\ p = q.prod
       \/ q.pc = "product.count" /\ p = q.prod /\ ActiveApps(p) # {}
       \/ q.op = "setOidc" /\ q.pc \in Route3 /\ p \in q.todo
       \/ q.pc = "oidc.products" /\ ActiveRow(q.app, p) /\ products[p].auth = "oauth2"
SandboxDueAt(q, p) ==
    /\ products[p].live /\ p = q.prod
    /\ \/ q.pc \in Sandbox3
       \/ q.pc \in Route3 /\ q.op \in {"unsubscribe", "reject", "deleteApp"}
       \/ q.pc \in Route3 \cup {"product.count"} /\ q.op = "updateProduct" /\ "sandbox" \in q.work
AtMost ==
    \A p \in Products : \/ routes["production"][p].allowed \subseteq Subscribers[p]
                        \/ \E r \in Requests : DueAt(req[r], p)
SandboxAtMost ==
    \A p \in Products :
        /\ \/ routes["sandbox"][p].allowed \subseteq SandboxSubscribers[p]
           \/ \E r \in Requests : SandboxDueAt(req[r], p)
        /\ ~SandboxConfigured => routes["sandbox"][p].allowed = {}

\* While a product stays what it is and its subscribers stay, its lists do not
\* shrink.
LEMMA ListsGrow ==
    ASSUME IInv, IInv', Serial, Serial', Ground, [Next]_vars, NEW r \in Requests, Step(r) \/ Fail(r),
           NEW p \in Products, products'[p].auth = products[p].auth,
           \A a \in Apps : <<a, p>> \in Actives =>
               <<a, p>> \in Actives' /\ (products[p].auth = "oauth2" => oidc'[a] = oidc[a])
    PROVE  /\ Subscribers[p] \subseteq Subscribers'[p]
           /\ products'[p].sandbox = products[p].sandbox => SandboxSubscribers[p] \subseteq SandboxSubscribers'[p]
<1>1. Membership(p) /\ Membership(p)'
  BY Members
<1>2. \A a \in Apps : <<a, p>> \in Actives =>
          /\ creds[a].key # 0 => creds'[a].key # 0
          /\ creds[a].sandboxKey # 0 => creds'[a].sandboxKey # 0
  BY KeysWhileActive
<1>3. CASE products[p].auth = "oauth2"
  BY <1>1, <1>2, <1>3, ZenonT(60) DEF Membership
<1>4. CASE products[p].auth # "oauth2"
  BY <1>1, <1>2, <1>4 DEF Membership
<1>. QED  BY <1>3, <1>4

\* Those of a product nobody subscribes to are empty.
LEMMA NoSubscribers ==
    ASSUME NEW p \in Products, \A a \in Apps : <<a, p>> \notin Actives
    PROVE  Subscribers[p] = {} /\ SandboxSubscribers[p] = {}
<1>1. Membership(p)
  BY Members
<1>. QED  BY <1>1 DEF Membership

\* An empty slot is not about to rebuild anything.
LEMMA NobodyElseDue ==
    ASSUME IInv, Serial, Serial', NEW r \in Requests, Step(r) \/ Fail(r), NEW p
    PROVE  /\ (\E t \in Requests : DueAt(req[t], p)) => DueAt(req[r], p)
           /\ (\E t \in Requests : SandboxDueAt(req[t], p)) => SandboxDueAt(req[r], p)
<1>1. ~DueAt(NoReq, p) /\ ~SandboxDueAt(NoReq, p)
  BY NoReqType DEF DueAt, SandboxDueAt, Route3, Sandbox3
<1>. QED  BY <1>1, Alone DEF IInv, BaseInv

\* What holds of a product and its subscribers when a request does a step.
LEMMA NoRowsUnlessLive ==
    ASSUME Ground, NEW p \in Products, ~products[p].live
    PROVE  \A a \in Apps : <<a, p>> \notin Actives
BY DEF Ground, Referenced, Actives, NoSub

\* The moves that leave the lists and the routes alone, and every promise to
\* rebuild one.
Calm(r) ==
    \/ Passes(r) \/ Inserts(r) \/ Reviews(r) \/ Looks(r) \/ LooksUp(r) \/ Credits(r) \/ Installs(r)
    \/ AsksSandbox(r) \/ Opts(r) \/ OptsIn(r) \/ OptedIn(r) \/ Retires(r) \/ Cleans(r)
    \/ Edited(r) \/ Discontinues(r)
LEMMA CalmStep ==
    ASSUME NEW r, Calm(r), UNCHANGED Actives \/ Ended(r) \/ WentLive(r)
    PROVE  /\ UNCHANGED <<products, oidc, routes, Actives>>
           /\ req[r].pc \notin Route3 \cup Sandbox3 \cup {"approve.activate", "product.count", "oidc.products"}
<1>1. "idle" \notin RouteWatch /\ NoReq.pc = "idle"
  BY NoReqType DEF RouteWatch, Route3, Sandbox3, EnablePcs, DeletePcs
<1>2. UNCHANGED subs => UNCHANGED Actives
  BY DEF Actives
<1>3. CASE Inserts(r)
  <2>1. ~Ended(r) /\ ~WentLive(r)
    BY <1>1, <1>3 DEF Inserts, Ended, WentLive
  <2>. QED  BY <1>3, <2>1 DEF Inserts, At, Route3, Sandbox3
<1>4. CASE Passes(r)
  BY <1>2, <1>4 DEF Passes, Lasting, RouteWatch
<1>5. CASE ~Inserts(r) /\ ~Passes(r)
  <2>1. UNCHANGED Lasting
    BY <1>5 DEF Calm, Reviews, Looks, LooksUp, Credits, Installs, AsksSandbox, Opts, OptsIn, OptedIn, Retires,
       Cleans, Edited, Discontinues
  <2>2. req[r].pc \notin Route3 \cup Sandbox3 \cup {"approve.activate", "product.count", "oidc.products"}
    BY <1>1, <1>5
    DEF Calm, Reviews, Looks, LooksUp, Credits, Installs, AsksSandbox, Opts, OptsIn, OptedIn, Retires, Cleans,
        Edited, Discontinues, Fresh, At, DeletePcs, Route3, Sandbox3
  <2>. QED  BY <1>2, <2>1, <2>2 DEF Lasting
<1>. QED  BY <1>3, <1>4, <1>5

\* Without overlap and faults no route of a product admits more than its active
\* subscribers, except while a request is about to rebuild it.
LEMMA NextAtMost ==
    ASSUME IInv, IInv', Serial, Serial', Ground, Ground', MaxFaults = 0, AtMost, [Next]_vars
    PROVE  AtMost'
<1>1. CASE UNCHANGED <<products, oidc, subs, creds, routes, req>>
  <2>1. \A t \in Requests, p \in Products : DueAt(req[t], p) => DueAt(req[t], p)'
    BY <1>1, ListsKept DEF DueAt, ActiveRow
  <2>. QED  BY <1>1, <2>1, ListsKept DEF AtMost
<1>2. ASSUME NEW r \in Requests, Step(r) \/ Fail(r)
      PROVE  AtMost'
  <2>. DEFINE q == req[r]
              s == req'[r]
  <2>. SUFFICES ASSUME NEW p \in Products
                PROVE  routes'["production"][p].allowed \subseteq Subscribers'[p] \/ DueAt(q, p)'
    BY DEF AtMost
  <2>1. /\ RouteMove(r) /\ (UNCHANGED Actives \/ Ended(r) \/ WentLive(r)) /\ Held(q) /\ RequestShape(q)
        /\ Carries(q) /\ q \in Request /\ (GoesLive(r) => WentLive(r))
        /\ (Withdraws(r) \/ Undoes(r) \/ Refuses(r) => Ended(r))
        /\ Envs = {"production", "sandbox"} /\ ~(faults > 0) /\ NoReq.pc = "idle" /\ NoReq.op = "none"
    BY <1>2, ActivesAfter, NoReqType
    DEF Ground, HeldInv, IInv, ShapeInv, CarriedInv, Envs, TypeOK
  <2>2. routes["production"][p].allowed \subseteq Subscribers[p] \/ DueAt(q, p)
    BY <1>2, NobodyElseDue DEF AtMost
  <2>3. /\ \A a \in Apps : <<a, p>> \in Actives => products[p].live
        /\ (\A a \in Apps : <<a, p>> \notin Actives) => Subscribers[p] = {}
    BY NoRowsUnlessLive, NoSubscribers
  <2>. DEFINE Fine == routes["production"][p].allowed \subseteq Subscribers[p]
              Grows == /\ products'[p].auth = products[p].auth
                       /\ \A a \in Apps : <<a, p>> \in Actives =>
                              <<a, p>> \in Actives' /\ (products[p].auth = "oauth2" => oidc'[a] = oidc[a])
              Stays == routes'["production"][p] = routes["production"][p]
  <2>4. Fine /\ Grows /\ Stays => routes'["production"][p].allowed \subseteq Subscribers'[p]
    BY <1>2, ListsGrow
  <2>5. q.pc \notin Route3 \cup {"approve.activate", "product.count", "oidc.products"} => Fine
    BY <2>2 DEF DueAt
  <2>6. UNCHANGED <<products, oidc, routes, Actives>> => Grows /\ Stays
    OBVIOUS
  <2>7. UNCHANGED subs => UNCHANGED Actives
    BY DEF Actives
  <2>8. products'[p].live /\ s.pc \in Route3 \cup {"approve.activate"} /\ p = s.prod => DueAt(q, p)'
    BY DEF DueAt
  <2>9. Fine /\ Stays /\ (\A a \in Apps : <<a, p>> \notin Actives) =>
            routes'["production"][p].allowed \subseteq Subscribers'[p]
    BY <2>3
  <2>. HIDE DEF Grows
  <2>10. CASE Ended(r)
    <3>1. /\ UNCHANGED <<products, oidc, routes>> /\ s.pc = "route.product"
          /\ q.pc \notin Route3 \cup {"approve.activate", "product.count", "oidc.products"}
          /\ Actives' = Actives \ {<<s.app, s.prod>>}
      BY <2>1, <2>10 DEF Ended, Withdraws, Undoes, Refuses, Fresh, At, Route3
    <3>2. CASE p = s.prod
      BY <2>3, <2>5, <2>8, <2>9, <3>1, <3>2 DEF Route3
    <3>3. CASE p # s.prod
      BY <2>4, <2>5, <3>1, <3>3 DEF Grows
    <3>. QED  BY <3>2, <3>3
  <2>11. CASE GoesLive(r)
    <3>1. CASE p = q.prod
      <4>1. routes'["production"][p] = RouteFor(products[p].auth, Subscribers'[p])
        BY <1>2, <2>11, <3>1, NewcomerJoins DEF GoesLive, At, ListHeld
      <4>. QED  BY <4>1 DEF RouteFor, NoRoute
    <3>2. CASE p # q.prod
      <4>1. Fine
        BY <2>2, <2>11, <3>2 DEF DueAt, GoesLive, At, Route3
      <4>. QED  BY <1>2, <2>11, <3>2, <4>1, NewcomerJoins
    <3>. QED  BY <3>1, <3>2
  <2>12. CASE Registers(r)
    <3>1. /\ UNCHANGED <<products, Actives, routes>> /\ q.pc = "idle" /\ s.pc = "oidc.products"
          /\ \A b \in Apps : b # s.app => oidc'[b] = oidc[b]
      BY <2>1, <2>7, <2>12 DEF Registers, Fresh
    <3>2. CASE <<s.app, p>> \in Actives /\ products[p].auth = "oauth2"
      <4>1. ActiveRow(q.app, p)'
        BY <3>1, <3>2 DEF Actives, ActiveRow
      <4>. QED  BY <2>3, <2>12, <3>1, <3>2, <4>1 DEF DueAt, Registers
    <3>3. CASE ~(<<s.app, p>> \in Actives /\ products[p].auth = "oauth2")
      BY <2>4, <2>5, <3>1, <3>3 DEF Grows, Route3
    <3>. QED  BY <3>2, <3>3
  <2>13. CASE Leaves(r)
    <3>1. /\ UNCHANGED <<products, Actives, routes>> /\ q.pc = "delete.row"
          /\ \A b \in Apps : b # q.app => oidc'[b] = oidc[b]
      BY <2>1, <2>13 DEF Leaves, At, Ended, WentLive
    <3>2. <<q.app, p>> \notin Actives
      BY <2>1, <3>1, WhoseStep DEF Held, WorkHeld, RouteWatch, DeletePcs, Actives, NoSub
    <3>. QED  BY <2>4, <2>5, <3>1, <3>2 DEF Grows, Route3
  <2>14. CASE SavesEdit(r)
    <3>1. /\ UNCHANGED <<oidc, Actives, routes>> /\ q.pc = "product.save" /\ q.op = "updateProduct"
          /\ products'[p] = IF p = q.prod THEN q.row ELSE products[p]
      BY <2>1, <2>7, <2>14, WhoseStep DEF SavesEdit, At, RouteWatch
    <3>2. Fine
      BY <2>5, <3>1 DEF Route3
    <3>3. CASE products'[p].auth = products[p].auth
      BY <2>4, <3>1, <3>2, <3>3 DEF Grows
    <3>4. CASE products'[p].auth # products[p].auth /\ \E a \in Apps : <<a, p>> \in Actives
      <4>1. p = q.prod /\ ActiveApps(p) # {} /\ q.row.live
        BY <3>1, <3>4 DEF Actives, ActiveApps, Ground, EditHeld
      <4>2. "count" \in q.work \/ "route" \in q.work
        BY <2>1, <3>1, <3>4, <4>1 DEF Held, WorkHeld, RouteWatch
      <4>3. s.pc \in {"product.count", "route.product"} /\ s.prod = p
        BY <2>14, <4>1, <4>2 DEF SavesEdit, Remains, SameJob
      <4>4. ActiveApps(p)' # {}
        BY <2>14, <4>1 DEF SavesEdit, ActiveApps
      <4>. QED  BY <3>1, <4>1, <4>3, <4>4 DEF DueAt, Route3
    <3>. QED  BY <2>9, <3>1, <3>2, <3>3, <3>4
  <2>15. CASE Discards(r)
    <3>1. /\ UNCHANGED <<oidc, Actives, routes>> /\ q.pc = "product.delete"
          /\ products'[p] = IF p = q.prod THEN NoProduct ELSE products[p]
          /\ ActiveApps(q.prod) = {}
      BY <2>1, <2>15, WhoseStep DEF Discards, At, RouteWatch, Held, WorkHeld, Ended, WentLive, GoesLive
    <3>2. Fine
      BY <2>5, <3>1 DEF Route3
    <3>3. CASE p = q.prod
      BY <2>9, <3>1, <3>2, <3>3 DEF Actives, ActiveApps
    <3>4. CASE p # q.prod
      BY <2>4, <3>1, <3>2, <3>4 DEF Grows
    <3>. QED  BY <3>3, <3>4
  <2>16. CASE Deprovisions(r)
    <3>1. /\ UNCHANGED <<products, oidc, Actives>> /\ q.pc = "product.deprovision"
          /\ routes'["production"][p] = IF p = q.prod THEN NoRoute ELSE routes["production"][p]
      BY <2>1, <2>7, <2>16 DEF Deprovisions, At, SetsRoute
    <3>2. Fine /\ Grows
      BY <2>5, <3>1 DEF Route3, Grows
    <3>. QED  BY <2>4, <3>1, <3>2 DEF NoRoute
  <2>17. CASE Pushes(r)
    <3>1. /\ UNCHANGED <<products, oidc, Actives>> /\ q.pc = "route.push" /\ q.prod \in Products
          /\ routes'["production"][p] =
                 IF p = q.prod THEN RouteFor(products[p].auth, Subscribers[p] \cup q.extra)
                               ELSE routes["production"][p]
          /\ products[q.prod].live
      <4>1. /\ q.prod \in Products /\ products[q.prod].live
            /\ SetsRoute("production", q.prod, RouteFor(products[q.prod].auth, Subscribers[q.prod] \cup q.extra))
        BY <2>17, PushedList
      <4>2. UNCHANGED <<products, oidc, Actives>> /\ q.pc = "route.push"
        BY <2>7, <2>17 DEF Pushes, At
      <4>. QED  BY <2>1, <4>1, <4>2 DEF SetsRoute
    <3>2. CASE p = q.prod
      <4>1. CASE q.op = "approve"
        <5>1. q.work = {}
          BY <2>1, <3>1, <4>1 DEF WorkHeld, Held, RouteWatch, Route3
        <5>2. SameJob(q, s) /\ s.pc = "approve.activate"
          BY <2>17, <4>1, <5>1 DEF Pushes
        <5>. QED  BY <2>8, <3>1, <3>2, <5>2 DEF SameJob
      <4>2. CASE q.op # "approve"
        <5>1. q.extra = {}
          BY <2>1, <2>17, <3>1, <4>2 DEF Pushes, Carries, Held, RouteWatch, Route3, WorkHeld
        <5>2. Subscribers[p] \subseteq Subscribers'[p]
          BY <1>2, <3>1, ListsGrow
        <5>. QED  BY <3>1, <3>2, <5>1, <5>2 DEF RouteFor, NoRoute
      <4>. QED  BY <4>1, <4>2
    <3>3. CASE p # q.prod /\ ~Fine
      <4>1. q.op = "setOidc" /\ p \in q.todo /\ products[p].live
        BY <2>2, <3>1, <3>3 DEF DueAt, Route3
      <4>2. TakesNext(r, "route.product")
        BY <2>1, <2>17, <3>1, <4>1 DEF Pushes, Held, RouteWatch, Route3, WorkHeld
      <4>3. s.op = "setOidc" /\ s.pc = "route.product" /\ (p = s.prod \/ p \in s.todo)
        BY <4>1, <4>2 DEF TakesNext, Same
      <4>. QED  BY <3>1, <4>1, <4>3 DEF DueAt, Route3
    <3>4. CASE p # q.prod /\ Fine
      BY <2>4, <3>1, <3>4 DEF Grows
    <3>. QED  BY <3>2, <3>3, <3>4
  <2>18. CASE PushesSandbox(r)
    <3>1. /\ UNCHANGED <<products, oidc, Actives>> /\ q.pc = "sandbox.push"
          /\ routes'["production"][p] = routes["production"][p]
      BY <2>1, <2>7, <2>18 DEF PushesSandbox, At, SetsRoute
    <3>. QED  BY <2>4, <2>5, <3>1 DEF Route3, Grows
  <2>19. CASE UNCHANGED Lasting /\ Fine
    BY <2>4, <2>6, <2>7, <2>19 DEF Lasting
  <2>20. CASE (ReadsProduct(r) \/ ListsMembers(r)) /\ ~Fine
    <3>1. SameJob(q, s) /\ s.pc \in Route3 /\ UNCHANGED Lasting /\ q.pc \in Route3
      BY <2>20 DEF ReadsProduct, ListsMembers, At, Route3
    <3>2. DueAt(q, p)
      BY <2>2, <2>20
    <3>. QED  BY <3>1, <3>2 DEF DueAt, SameJob, Same, Lasting, Route3
  <2>21. CASE Counts(r) /\ ~Fine
    <3>1. q.pc = "product.count" /\ p = q.prod /\ ActiveApps(p) # {} /\ products[p].live
      BY <2>2, <2>21 DEF DueAt, Counts, At, Route3
    <3>. QED  BY <2>8, <2>21, <3>1 DEF Counts, SameJob, Lasting, Route3
  <2>22. CASE ListsProducts(r) /\ ~Fine
    <3>1. products[p].live /\ p \in OAuthProductsForApp(q.app) /\ q.op = "setOidc"
      BY <2>1, <2>2, <2>22, WhoseStep
      DEF DueAt, ListsProducts, At, Route3, OAuthProductsForApp, ActiveProducts, ActiveRow, RouteWatch
    <3>2. s.op = "setOidc" /\ s.pc = "route.product" /\ (p = s.prod \/ p \in s.todo)
      BY <2>22, <3>1 DEF ListsProducts, Same
    <3>. QED  BY <2>22, <3>1, <3>2 DEF DueAt, Route3, ListsProducts, Lasting
  <2>23. CASE Ends(r) /\ ~Fine
    <3>1. DueAt(q, p)
      BY <2>2, <2>23
    <3>2. CASE q.pc = "oidc.products"
      <4>1. p \in OAuthProductsForApp(q.app)
        BY <3>1, <3>2 DEF DueAt, Route3, OAuthProductsForApp, ActiveProducts, ActiveRow
      <4>. QED  BY <2>1, <2>23, <3>2, <4>1 DEF Ends, At
    <3>3. CASE q.pc # "oidc.products"
      <4>1. q.pc = "route.product" /\ ~products[q.prod].live
        BY <2>1, <2>23, <3>1, <3>3 DEF DueAt, Ends, At, Route3
      <4>2. q.op = "setOidc" /\ WorkHeld(q)
        BY <2>1, <3>1, <4>1 DEF DueAt, Held, RouteWatch, Route3
      <4>3. q.prod \in Products /\ q.app \in Apps
        BY <2>1, <4>1, <4>2, WhoseStep DEF RouteWatch, Route3, RoutePcs, AdminOps
      <4>4. ActiveRow(q.app, q.prod)
        BY <4>1, <4>2 DEF WorkHeld, Route3
      <4>5. <<q.app, q.prod>> \in Actives
        BY <4>3, <4>4 DEF ActiveRow, Actives
      <4>. QED  BY <4>1, <4>3, <4>5, NoRowsUnlessLive
    <3>. QED  BY <3>2, <3>3
  <2>24. CASE Calm(r)
    BY <2>1, <2>4, <2>5, <2>6, <2>24, CalmStep
  <2>25. CASE ReadsSandbox(r) \/ ListsSandbox(r)
    BY <2>5, <2>19, <2>25 DEF ReadsSandbox, ListsSandbox, At, Route3
  <2>26. ReadsProduct(r) \/ ListsMembers(r) \/ Counts(r) \/ ListsProducts(r) \/ Ends(r) => UNCHANGED Lasting
    BY DEF ReadsProduct, ListsMembers, Counts, ListsProducts, Ends
  <2>. QED
    BY <2>1, <2>10, <2>11, <2>12, <2>13, <2>14, <2>15, <2>16, <2>17, <2>18, <2>19, <2>20, <2>21, <2>22, <2>23,
       <2>24, <2>25, <2>26
    DEF RouteMove, Calm
<1>. QED  BY <1>1, <1>2, NextByOne

\* The same of the sandbox routes.
LEMMA NextSandboxAtMost ==
    ASSUME IInv, IInv', Serial, Serial', Ground, Ground', MaxFaults = 0, SandboxAtMost, [Next]_vars
    PROVE  SandboxAtMost'
<1>1. CASE UNCHANGED <<products, oidc, subs, creds, routes, req>>
  <2>1. \A t \in Requests, p \in Products : SandboxDueAt(req[t], p) => SandboxDueAt(req[t], p)'
    BY <1>1 DEF SandboxDueAt
  <2>. QED  BY <1>1, <2>1, ListsKept DEF SandboxAtMost
<1>2. ASSUME NEW r \in Requests, Step(r) \/ Fail(r)
      PROVE  SandboxAtMost'
  <2>. DEFINE q == req[r]
              s == req'[r]
  <2>. SUFFICES ASSUME NEW p \in Products
                PROVE  /\ \/ routes'["sandbox"][p].allowed \subseteq SandboxSubscribers'[p]
                          \/ SandboxDueAt(q, p)'
                       /\ ~SandboxConfigured => routes'["sandbox"][p].allowed = {}
    BY DEF SandboxAtMost
  <2>1. /\ RouteMove(r) /\ (UNCHANGED Actives \/ Ended(r) \/ WentLive(r)) /\ Held(q) /\ RequestShape(q)
        /\ Carries(q) /\ q \in Request /\ (GoesLive(r) => WentLive(r))
        /\ (Withdraws(r) \/ Undoes(r) \/ Refuses(r) => Ended(r))
        /\ Envs = {"production", "sandbox"} /\ ~(faults > 0) /\ NoReq.pc = "idle" /\ NoReq.op = "none"
    BY <1>2, ActivesAfter, NoReqType
    DEF Ground, HeldInv, IInv, ShapeInv, CarriedInv, Envs, TypeOK
  <2>. DEFINE Fine == routes["sandbox"][p].allowed \subseteq SandboxSubscribers[p]
              Fine2 == routes'["sandbox"][p].allowed \subseteq SandboxSubscribers'[p]
              Grows == /\ products'[p] = products[p]
                       /\ \A a \in Apps : <<a, p>> \in Actives => <<a, p>> \in Actives'
              Stays == routes'["sandbox"][p] = routes["sandbox"][p]
  <2>2. /\ Fine \/ SandboxDueAt(q, p)
        /\ ~SandboxConfigured => routes["sandbox"][p].allowed = {}
    BY <1>2, NobodyElseDue DEF SandboxAtMost
  <2>3. /\ \A a \in Apps : <<a, p>> \in Actives => products[p].live
        /\ (\A a \in Apps : <<a, p>> \notin Actives) => SandboxSubscribers[p] = {}
    BY NoRowsUnlessLive, NoSubscribers
  <2>4. Fine /\ Grows /\ Stays => Fine2
    <3>1. Grows => \A i : i \in SandboxSubscribers[p] => i \in SandboxSubscribers'[p]
      BY <1>2, Members, KeysWhileActive DEF Membership
    <3>. QED  BY <3>1
  <2>5. q.pc \notin Route3 \cup Sandbox3 \cup {"product.count"} => Fine
    BY <2>2 DEF SandboxDueAt
  <2>6. UNCHANGED <<products, Actives>> => Grows
    OBVIOUS
  <2>7. UNCHANGED subs => UNCHANGED Actives
    BY DEF Actives
  <2>8. ~SandboxConfigured /\ Stays => routes'["sandbox"][p].allowed = {} /\ Fine2
    BY <2>2
  <2>9. Fine /\ Stays /\ (\A a \in Apps : <<a, p>> \notin Actives) => Fine2
    BY <2>3
  <2>10. products'[p].live /\ p = s.prod /\ s.pc \in Sandbox3 => SandboxDueAt(q, p)'
    BY DEF SandboxDueAt
  <2>11. /\ products'[p].live /\ p = s.prod /\ s.pc \in Route3 \cup {"product.count"}
         /\ s.op = "updateProduct" /\ "sandbox" \in s.work
         => SandboxDueAt(q, p)'
    BY DEF SandboxDueAt
  <2>12. ~PushesSandbox(r) => Stays
    BY <2>1, Writes DEF Deprovisions, Pushes, SetsRoute
  <2>13. ASSUME NEW work, Remains(r, work), "sandbox" \in work, SandboxConfigured, p = q.prod,
                products'[p].live, q.op = "updateProduct", "sandbox" \in q.work
         PROVE  SandboxDueAt(q, p)'
    <3>1. /\ SameJob(q, s)
          /\ s.pc \in {"product.count", "route.product", "sandbox.product"}
      BY <2>13 DEF Remains
    <3>. QED  BY <2>10, <2>11, <2>13, <3>1 DEF SameJob, Same, Route3, Sandbox3
  <2>14. ~SandboxConfigured => Stays /\ Fine2 /\ routes'["sandbox"][p].allowed = {}
    <3>1. PushesSandbox(r) => SandboxConfigured
      BY <2>1 DEF PushesSandbox, At, Held, RouteWatch, Sandbox3, WorkHeld
    <3>. QED  BY <2>8, <2>12, <3>1
  <2>. HIDE DEF Grows, Stays, Fine
  <2>. SUFFICES ASSUME SandboxConfigured PROVE Fine2 \/ SandboxDueAt(q, p)'
    BY <2>14
  <2>. HIDE DEF Fine2
  <2>20. CASE Ended(r)
    <3>1. /\ UNCHANGED products /\ s.pc = "route.product" /\ s.op \in {"unsubscribe", "reject", "deleteApp"}
          /\ q.pc \notin Route3 \cup Sandbox3 \cup {"product.count"}
          /\ Actives' = Actives \ {<<s.app, s.prod>>} /\ Stays
      BY <2>1, <2>12, <2>20 DEF Ended, Withdraws, Undoes, Refuses, Fresh, At, Route3, Sandbox3, PushesSandbox
    <3>2. CASE p = s.prod
      <4>1. products[p].live => SandboxDueAt(q, p)'
        BY <3>1, <3>2 DEF SandboxDueAt, Route3
      <4>. QED  BY <2>3, <2>5, <2>9, <3>1, <4>1
    <3>3. CASE p # s.prod
      BY <2>4, <2>5, <3>1, <3>3 DEF Grows
    <3>. QED  BY <3>2, <3>3
  <2>21. CASE GoesLive(r)
    <3>1. Grows /\ Stays
      BY <2>1, <2>12, <2>21 DEF WentLive, GoesLive, At, PushesSandbox, Grows
    <3>. QED  BY <2>4, <2>5, <2>21, <3>1 DEF GoesLive, At, Route3, Sandbox3
  <2>22. CASE Registers(r) \/ Leaves(r) \/ Deprovisions(r) \/ Calm(r)
    <3>1. UNCHANGED <<products, Actives>> /\ q.pc \notin Route3 \cup Sandbox3 \cup {"product.count"} /\ Stays
      BY <2>1, <2>7, <2>12, <2>22, CalmStep
      DEF Registers, Leaves, Deprovisions, Fresh, At, Ended, WentLive, Route3, Sandbox3, PushesSandbox
    <3>. QED  BY <2>4, <2>5, <2>6, <3>1
  <2>23. CASE SavesEdit(r)
    <3>1. /\ UNCHANGED Actives /\ q.pc = "product.save" /\ q.op = "updateProduct" /\ Stays /\ Fine
          /\ products'[p] = IF p = q.prod THEN q.row ELSE products[p]
      BY <2>1, <2>5, <2>7, <2>12, <2>23, WhoseStep
      DEF SavesEdit, At, RouteWatch, Route3, Sandbox3, PushesSandbox
    <3>2. CASE products'[p].sandbox = products[p].sandbox
      <4>1. \A i : i \in SandboxSubscribers[p] => i \in SandboxSubscribers'[p]
        BY <1>2, <3>1, <3>2, Members, KeysWhileActive DEF Membership
      <4>. QED  BY <3>1, <4>1 DEF Fine, Fine2, Stays
    <3>3. CASE products'[p].sandbox # products[p].sandbox
      <4>1. p = q.prod /\ products'[p].live /\ "sandbox" \in q.work
        BY <2>1, <3>1, <3>3 DEF Ground, EditHeld, Held, WorkHeld, RouteWatch
      <4>. QED  BY <2>13, <2>23, <3>1, <4>1 DEF SavesEdit
    <3>. QED  BY <3>2, <3>3
  <2>24. CASE Discards(r)
    <3>1. /\ UNCHANGED Actives /\ q.pc = "product.delete" /\ Stays /\ Fine
          /\ products'[p] = IF p = q.prod THEN NoProduct ELSE products[p]
          /\ ActiveApps(q.prod) = {}
      BY <2>1, <2>5, <2>12, <2>24, WhoseStep
      DEF Discards, At, RouteWatch, Held, WorkHeld, Ended, WentLive, GoesLive, Route3, Sandbox3, PushesSandbox
    <3>2. CASE p = q.prod
      BY <2>9, <3>1, <3>2 DEF Actives, ActiveApps
    <3>3. CASE p # q.prod
      BY <2>4, <3>1, <3>3 DEF Grows
    <3>. QED  BY <3>2, <3>3
  <2>25. CASE Pushes(r)
    <3>1. UNCHANGED <<products, Actives>> /\ q.pc = "route.push" /\ Stays
      BY <2>7, <2>12, <2>25 DEF Pushes, At, PushesSandbox
    <3>2. CASE ~Fine
      <4>1. /\ products[p].live /\ p = q.prod
            /\ q.op \in {"unsubscribe", "reject", "deleteApp"} \/ (q.op = "updateProduct" /\ "sandbox" \in q.work)
        BY <2>2, <3>1, <3>2 DEF SandboxDueAt, Route3, Sandbox3, Fine
      <4>2. s.pc = "sandbox.product" /\ SameJob(q, s)
        BY <2>25, <4>1 DEF Pushes
      <4>. QED  BY <2>10, <3>1, <4>1, <4>2 DEF SameJob, Sandbox3
    <3>. QED  BY <2>4, <2>6, <3>1, <3>2
  <2>26. CASE PushesSandbox(r)
    <3>1. /\ UNCHANGED <<products, Actives>> /\ q.pc = "sandbox.push" /\ ListHeld(q) /\ WorkHeld(q)
          /\ q.op = "approve" => ApprovalHeld(q)
      BY <2>1, <2>7, <2>26 DEF PushesSandbox, At, Held, RouteWatch, Sandbox3
    <3>2. CASE p = q.prod
      <4>1. routes'["sandbox"][p] = RouteFor("key-auth", q.allowed)
        BY <2>1, <2>26, <3>2 DEF PushesSandbox, SetsRoute
      <4>2. products[p].sandbox /\ q.extra # {} =>
                /\ q.extra = {q.app} /\ ActiveRow(q.app, p) /\ creds[q.app].sandboxKey # 0 /\ q.app \in Apps
        BY <2>1, <2>26, <3>1, <3>2, WhoseStep
        DEF PushesSandbox, Carries, ApprovalHeld, WorkHeld, RowOf, ActiveRow, Sandbox3, RouteWatch, AdminOps
      <4>3. q.allowed \subseteq SandboxSubscribers[p]
        <5>1. CASE ~products[p].sandbox
          BY <3>1, <3>2, <5>1 DEF ListHeld
        <5>2. CASE products[p].sandbox
          <6>1. q.extra \subseteq SandboxSubscribers[p]
            BY <4>2, <5>2, Members DEF Membership, Actives, ActiveRow
          <6>. QED  BY <3>1, <3>2, <5>2, <6>1 DEF ListHeld
        <5>. QED  BY <5>1, <5>2
      <4>4. \A i : i \in SandboxSubscribers[p] => i \in SandboxSubscribers'[p]
        BY <1>2, <3>1, Members, KeysWhileActive DEF Membership
      <4>. QED  BY <4>1, <4>3, <4>4 DEF RouteFor, NoRoute, Fine2
    <3>3. CASE p # q.prod
      <4>1. Stays /\ Fine
        BY <2>1, <2>2, <2>26, <3>1, <3>3 DEF PushesSandbox, SetsRoute, Stays, Fine, SandboxDueAt
      <4>. QED  BY <2>4, <2>6, <3>1, <4>1
    <3>. QED  BY <3>2, <3>3
  <2>27. CASE ReadsProduct(r) \/ ListsMembers(r) \/ ReadsSandbox(r) \/ ListsSandbox(r)
    <3>1. /\ UNCHANGED <<products, Actives>> /\ SameJob(q, s) /\ Stays
          /\ q.pc \in Route3 => s.pc \in Route3
          /\ q.pc \in Sandbox3 => s.pc \in Sandbox3
          /\ q.pc # "product.count"
      BY <2>7, <2>12, <2>27
      DEF ReadsProduct, ListsMembers, ReadsSandbox, ListsSandbox, Lasting, At, PushesSandbox, Route3, Sandbox3
    <3>2. SandboxDueAt(q, p) => SandboxDueAt(q, p)'
      BY <3>1 DEF SandboxDueAt, SameJob, Same
    <3>. QED  BY <2>2, <2>4, <2>6, <3>1, <3>2 DEF Fine
  <2>28. CASE Counts(r)
    <3>1. UNCHANGED <<products, Actives>> /\ q.pc = "product.count" /\ Stays
      BY <2>7, <2>12, <2>28 DEF Counts, Lasting, At, PushesSandbox
    <3>2. CASE ~Fine
      <4>1. /\ products[p].live /\ p = q.prod /\ q.op = "updateProduct" /\ "sandbox" \in q.work
        BY <2>2, <3>1, <3>2 DEF SandboxDueAt, Route3, Sandbox3, Fine
      <4>2. CASE SameJob(q, s) /\ s.pc = "route.product"
        BY <2>11, <3>1, <4>1, <4>2 DEF SameJob, Same, Route3
      <4>3. CASE Remains(r, q.work \ {"count"})
        BY <2>13, <3>1, <4>1, <4>3
      <4>. QED  BY <2>28, <4>2, <4>3 DEF Counts
    <3>. QED  BY <2>4, <2>6, <3>1, <3>2
  <2>29. CASE ListsProducts(r) \/ Ends(r)
    <3>1. UNCHANGED <<products, Actives>> /\ Stays
      BY <2>1, <2>7, <2>12, <2>29 DEF ListsProducts, Ends, Lasting, At, PushesSandbox
    <3>2. ~SandboxDueAt(q, p)
      BY <2>1, <2>29 DEF ListsProducts, Ends, At, SandboxDueAt, Route3, Sandbox3
    <3>. QED  BY <2>2, <2>4, <2>6, <3>1, <3>2 DEF Fine
  <2>. QED
    BY <2>1, <2>20, <2>21, <2>22, <2>23, <2>24, <2>25, <2>26, <2>27, <2>28, <2>29
    DEF RouteMove, Calm
<1>. QED  BY <1>1, <1>2, NextByOne

\* A route rebuilt from the tables says what they say: a product that is gone has
\* no subscribers, and nothing is left to rebuild for it.
LEMMA UnroutedWhenGone ==
    ASSUME Ground, AtMost, SandboxAtMost
    PROVE  DeletedProductUnrouted
<1>. SUFFICES ASSUME NEW p \in Products, ~products[p].live, NEW e \in Envs
              PROVE  routes[e][p].allowed = {}
  BY DEF DeletedProductUnrouted
<1>1. Subscribers[p] = {} /\ SandboxSubscribers[p] = {}
  BY NoRowsUnlessLive, NoSubscribers
<1>2. \A r \in Requests : ~DueAt(req[r], p) /\ ~SandboxDueAt(req[r], p)
  BY DEF DueAt, SandboxDueAt
<1>. QED  BY <1>1, <1>2 DEF AtMost, SandboxAtMost, Envs

\* No route admits anybody at first.
LEMMA InitAtMost == Init => AtMost /\ SandboxAtMost
<1>1. ASSUME Init, NEW e \in Envs, NEW p \in Products
      PROVE  routes[e][p].allowed = {}
  BY <1>1 DEF Init, NoRoute
<1>. QED  BY <1>1 DEF AtMost, SandboxAtMost, Envs

\* When no call fails and no request overlaps another, a deleted product leaves
\* no route that admits anybody, whatever lists its last subscribers' departure
\* and its edits pushed before.
THEOREM DeletedProductStaysUnrouted ==
    ASSUME MaxFaults = 0
    PROVE  Spec /\ []Serial => []DeletedProductUnrouted
<1>. DEFINE Routes == AtMost /\ SandboxAtMost
<1>1. IInv /\ IInv' /\ Serial /\ Serial' /\ Ground /\ Ground' /\ Routes /\ [Next]_vars => Routes'
  BY NextAtMost, NextSandboxAtMost
<1>2. IInv /\ IInv' /\ Serial /\ Serial' /\ Ground /\ [Next]_vars => Ground'
  BY NextGround
<1>3. Init => Routes
  BY InitAtMost
<1>4. Ground /\ Routes => DeletedProductUnrouted
  BY UnroutedWhenGone
<1>. HIDE DEF Routes
<1>. QED  BY <1>1, <1>2, <1>3, <1>4, InitGround, Invariance, PTL DEF Spec

-----------------------------------------------------------------------------
(* The routes are exactly what the tables say *)

\* While a product keeps its kind and its subscribers, its list stays: an active
\* subscriber of a key-auth product has had its credential all along.
LEMMA ListsStay ==
    ASSUME IInv, IInv', Serial, Serial', Ground, ProvisionedInv, [Next]_vars, NEW r \in Requests, Step(r) \/ Fail(r),
           NEW p \in Products, products'[p].auth = products[p].auth,
           \A a \in Apps : <<a, p>> \in Actives <=> <<a, p>> \in Actives',
           \A a \in Apps : <<a, p>> \in Actives /\ products[p].auth = "oauth2" => oidc'[a] = oidc[a]
    PROVE  Subscribers'[p] = Subscribers[p]
<1>1. Membership(p) /\ Membership(p)'
  BY Members
<1>2. CASE products[p].auth = "oauth2"
  <2>1. \A i : i \in Subscribers'[p] <=> i # None /\ \E a \in Apps : <<a, p>> \in Actives' /\ oidc'[a] = i
    BY <1>1, <1>2 DEF Membership
  <2>2. \A i : i \in Subscribers[p] <=> i # None /\ \E a \in Apps : <<a, p>> \in Actives /\ oidc[a] = i
    BY <1>1, <1>2 DEF Membership
  <2>3. \A i : i \in Subscribers'[p] <=> i \in Subscribers[p]
    BY <1>2, <2>1, <2>2, ZenonT(60)
  <2>. QED  BY <2>3 DEF Subscribers
<1>3. CASE products[p].auth # "oauth2"
  <2>1. products[p].auth = "key-auth"
    BY <1>3 DEF IInv, TypeOK, ProductRow, AuthTypes
  <2>2. \A a \in Apps : <<a, p>> \in Actives => creds[a].key # 0 /\ creds'[a].key # 0
    BY <2>1, KeysWhileActive DEF ProvisionedInv, ActiveRow, Actives
  <2>. QED  BY <1>1, <1>3, <2>2 DEF Membership
<1>. QED  BY <1>2, <1>3

\* The route of a product is the one reprovisionRoute would push, or a request is
\* about to push it.
Exact ==
    \A p \in Products : products[p].live =>
        \/ routes["production"][p] = RouteFor(products[p].auth, Subscribers[p])
        \/ \E r \in Requests : DueAt(req[r], p)

\* Without overlap and faults the routes stay exact.
LEMMA NextExact ==
    ASSUME IInv, IInv', Serial, Serial', Ground, Ground', MaxFaults = 0, ProvisionedInv, Exact, [Next]_vars
    PROVE  Exact'
<1>1. CASE UNCHANGED <<products, oidc, subs, creds, routes, req>>
  <2>1. \A t \in Requests, p \in Products : DueAt(req[t], p) => DueAt(req[t], p)'
    BY <1>1, ListsKept DEF DueAt, ActiveRow
  <2>. QED  BY <1>1, <2>1, ListsKept DEF Exact
<1>2. ASSUME NEW r \in Requests, Step(r) \/ Fail(r)
      PROVE  Exact'
  <2>. DEFINE q == req[r]
              s == req'[r]
  <2>. SUFFICES ASSUME NEW p \in Products, products'[p].live
                PROVE  routes'["production"][p] = RouteFor(products'[p].auth, Subscribers'[p]) \/ DueAt(q, p)'
    BY DEF Exact
  <2>1. /\ RouteMove(r) /\ (UNCHANGED Actives \/ Ended(r) \/ WentLive(r)) /\ Held(q) /\ RequestShape(q)
        /\ Carries(q) /\ q \in Request /\ (GoesLive(r) => WentLive(r))
        /\ (Withdraws(r) \/ Undoes(r) \/ Refuses(r) => Ended(r))
        /\ Envs = {"production", "sandbox"} /\ ~(faults > 0) /\ NoReq.pc = "idle" /\ NoReq.op = "none"
    BY <1>2, ActivesAfter, NoReqType
    DEF Ground, HeldInv, IInv, ShapeInv, CarriedInv, Envs, TypeOK
  <2>0. products[p].live
    BY <2>1, ProductKept DEF SavesEdit, NoProduct
  <2>2. routes["production"][p] = RouteFor(products[p].auth, Subscribers[p]) \/ DueAt(q, p)
    BY <1>2, <2>0, NobodyElseDue DEF Exact
  <2>3. /\ \A a \in Apps : <<a, p>> \in Actives => products[p].live
        /\ (\A a \in Apps : <<a, p>> \notin Actives) => Subscribers[p] = {}
    BY NoRowsUnlessLive, NoSubscribers
  <2>. DEFINE Fine == routes["production"][p] = RouteFor(products[p].auth, Subscribers[p])
              Steady == /\ products'[p].auth = products[p].auth
                        /\ \A a \in Apps : <<a, p>> \in Actives <=> <<a, p>> \in Actives'
                        /\ \A a \in Apps :
                               <<a, p>> \in Actives /\ products[p].auth = "oauth2" => oidc'[a] = oidc[a]
              Stays == routes'["production"][p] = routes["production"][p]
  <2>4. Fine /\ Steady /\ Stays => routes'["production"][p] = RouteFor(products'[p].auth, Subscribers'[p])
    BY <1>2, ListsStay
  <2>5. q.pc \notin Route3 \cup {"approve.activate", "product.count", "oidc.products"} => Fine
    BY <2>2 DEF DueAt
  <2>6. UNCHANGED <<products, oidc, routes, Actives>> => Steady /\ Stays
    OBVIOUS
  <2>7. UNCHANGED subs => UNCHANGED Actives
    BY DEF Actives
  <2>8. products'[p].live /\ s.pc \in Route3 \cup {"approve.activate"} /\ p = s.prod => DueAt(q, p)'
    BY DEF DueAt
  <2>9. Fine /\ Stays /\ UNCHANGED Actives /\ (\A a \in Apps : <<a, p>> \notin Actives) =>
            routes'["production"][p] = RouteFor(products'[p].auth, Subscribers'[p])
    <3>1. UNCHANGED Actives /\ (\A a \in Apps : <<a, p>> \notin Actives) => Subscribers'[p] = {}
      BY Members DEF Membership
    <3>. QED  BY <2>3, <3>1 DEF RouteFor
  <2>. HIDE DEF Steady
  <2>10. CASE Ended(r)
    <3>1. /\ UNCHANGED <<products, oidc, routes>> /\ s.pc = "route.product"
          /\ q.pc \notin Route3 \cup {"approve.activate", "product.count", "oidc.products"}
          /\ Actives' = Actives \ {<<s.app, s.prod>>}
      BY <2>1, <2>10 DEF Ended, Withdraws, Undoes, Refuses, Fresh, At, Route3
    <3>2. CASE p = s.prod
      BY <2>3, <2>5, <2>8, <2>9, <3>1, <3>2 DEF Route3
    <3>3. CASE p # s.prod
      BY <2>4, <2>5, <3>1, <3>3 DEF Steady
    <3>. QED  BY <3>2, <3>3
  <2>11. CASE GoesLive(r)
    <3>1. CASE p = q.prod
      <4>1. routes'["production"][p] = RouteFor(products[p].auth, Subscribers'[p])
        BY <1>2, <2>11, <3>1, NewcomerJoins DEF GoesLive, At, ListHeld
      <4>. QED  BY <1>2, <2>11, <4>1, NewcomerJoins
    <3>2. CASE p # q.prod
      <4>1. Fine
        BY <2>2, <2>11, <3>2 DEF DueAt, GoesLive, At, Route3
      <4>. QED  BY <1>2, <2>11, <3>2, <4>1, NewcomerJoins
    <3>. QED  BY <3>1, <3>2
  <2>12. CASE Registers(r)
    <3>1. /\ UNCHANGED <<products, Actives, routes>> /\ q.pc = "idle" /\ s.pc = "oidc.products"
          /\ \A b \in Apps : b # s.app => oidc'[b] = oidc[b]
      BY <2>1, <2>7, <2>12 DEF Registers, Fresh
    <3>2. CASE <<s.app, p>> \in Actives /\ products[p].auth = "oauth2"
      <4>1. ActiveRow(q.app, p)'
        BY <3>1, <3>2 DEF Actives, ActiveRow
      <4>. QED  BY <2>3, <2>12, <3>1, <3>2, <4>1 DEF DueAt, Registers
    <3>3. CASE ~(<<s.app, p>> \in Actives /\ products[p].auth = "oauth2")
      BY <2>4, <2>5, <3>1, <3>3 DEF Steady, Route3
    <3>. QED  BY <3>2, <3>3
  <2>13. CASE Leaves(r)
    <3>1. /\ UNCHANGED <<products, Actives, routes>> /\ q.pc = "delete.row"
          /\ \A b \in Apps : b # q.app => oidc'[b] = oidc[b]
      BY <2>1, <2>13 DEF Leaves, At, Ended, WentLive
    <3>2. <<q.app, p>> \notin Actives
      BY <2>1, <3>1, WhoseStep DEF Held, WorkHeld, RouteWatch, DeletePcs, Actives, NoSub
    <3>. QED  BY <2>4, <2>5, <3>1, <3>2 DEF Steady, Route3
  <2>14. CASE SavesEdit(r)
    <3>1. /\ UNCHANGED <<oidc, Actives, routes>> /\ q.pc = "product.save" /\ q.op = "updateProduct"
          /\ products'[p] = IF p = q.prod THEN q.row ELSE products[p]
      BY <2>1, <2>7, <2>14, WhoseStep DEF SavesEdit, At, RouteWatch
    <3>2. Fine
      BY <2>5, <3>1 DEF Route3
    <3>3. CASE products'[p].auth = products[p].auth
      BY <2>4, <3>1, <3>2, <3>3 DEF Steady
    <3>4. CASE products'[p].auth # products[p].auth /\ \E a \in Apps : <<a, p>> \in Actives
      <4>1. p = q.prod /\ ActiveApps(p) # {} /\ q.row.live
        BY <3>1, <3>4 DEF Actives, ActiveApps, Ground, EditHeld
      <4>2. "count" \in q.work \/ "route" \in q.work
        BY <2>1, <3>1, <3>4, <4>1 DEF Held, WorkHeld, RouteWatch
      <4>3. s.pc \in {"product.count", "route.product"} /\ s.prod = p
        BY <2>14, <4>1, <4>2 DEF SavesEdit, Remains, SameJob
      <4>4. ActiveApps(p)' # {}
        BY <2>14, <4>1 DEF SavesEdit, ActiveApps
      <4>. QED  BY <3>1, <4>1, <4>3, <4>4 DEF DueAt, Route3
    <3>. QED  BY <2>9, <3>1, <3>2, <3>3, <3>4
  <2>15. CASE Discards(r)
    <3>1. /\ UNCHANGED <<oidc, Actives, routes>> /\ q.pc = "product.delete"
          /\ products'[p] = IF p = q.prod THEN NoProduct ELSE products[p]
          /\ ActiveApps(q.prod) = {}
      BY <2>1, <2>15, WhoseStep DEF Discards, At, RouteWatch, Held, WorkHeld, Ended, WentLive, GoesLive
    <3>2. Fine
      BY <2>5, <3>1 DEF Route3
    <3>3. CASE p = q.prod
      BY <2>9, <3>1, <3>2, <3>3 DEF Actives, ActiveApps
    <3>4. CASE p # q.prod
      BY <2>4, <3>1, <3>2, <3>4 DEF Steady
    <3>. QED  BY <3>3, <3>4
  <2>16. CASE Deprovisions(r)
    <3>1. /\ UNCHANGED <<products, oidc, Actives>> /\ q.pc = "product.deprovision"
          /\ routes'["production"][p] = IF p = q.prod THEN NoRoute ELSE routes["production"][p]
      BY <2>1, <2>7, <2>16 DEF Deprovisions, At, SetsRoute
    <3>2. Fine /\ Steady /\ p # q.prod
      BY <2>0, <2>1, <2>5, <3>1 DEF Route3, Steady, Held, WorkHeld, RouteWatch
    <3>. QED  BY <2>4, <3>1, <3>2
  <2>17. CASE Pushes(r)
    <3>1. /\ UNCHANGED <<products, oidc, Actives>> /\ q.pc = "route.push" /\ q.prod \in Products
          /\ routes'["production"][p] =
                 IF p = q.prod THEN RouteFor(products[p].auth, Subscribers[p] \cup q.extra)
                               ELSE routes["production"][p]
          /\ products[q.prod].live
      <4>1. /\ q.prod \in Products /\ products[q.prod].live
            /\ SetsRoute("production", q.prod, RouteFor(products[q.prod].auth, Subscribers[q.prod] \cup q.extra))
        BY <2>17, PushedList
      <4>2. UNCHANGED <<products, oidc, Actives>> /\ q.pc = "route.push"
        BY <2>7, <2>17 DEF Pushes, At
      <4>. QED  BY <2>1, <4>1, <4>2 DEF SetsRoute
    <3>2. CASE p = q.prod
      <4>1. CASE q.op = "approve"
        <5>1. q.work = {}
          BY <2>1, <3>1, <4>1 DEF WorkHeld, Held, RouteWatch, Route3
        <5>2. SameJob(q, s) /\ s.pc = "approve.activate"
          BY <2>17, <4>1, <5>1 DEF Pushes
        <5>. QED  BY <2>8, <3>1, <3>2, <5>2 DEF SameJob
      <4>2. CASE q.op # "approve"
        <5>1. q.extra = {}
          BY <2>1, <2>17, <3>1, <4>2 DEF Pushes, Carries, Held, RouteWatch, Route3, WorkHeld
        <5>2. Subscribers'[p] = Subscribers[p]
          BY <1>2, <3>1, ListsStay
        <5>. QED  BY <3>1, <3>2, <5>1, <5>2
      <4>. QED  BY <4>1, <4>2
    <3>3. CASE p # q.prod /\ ~Fine
      <4>1. q.op = "setOidc" /\ p \in q.todo /\ products[p].live
        BY <2>2, <3>1, <3>3 DEF DueAt, Route3
      <4>2. TakesNext(r, "route.product")
        BY <2>1, <2>17, <3>1, <4>1 DEF Pushes, Held, RouteWatch, Route3, WorkHeld
      <4>3. s.op = "setOidc" /\ s.pc = "route.product" /\ (p = s.prod \/ p \in s.todo)
        BY <4>1, <4>2 DEF TakesNext, Same
      <4>. QED  BY <3>1, <4>1, <4>3 DEF DueAt, Route3
    <3>4. CASE p # q.prod /\ Fine
      BY <2>4, <3>1, <3>4 DEF Steady
    <3>. QED  BY <3>2, <3>3, <3>4
  <2>18. CASE PushesSandbox(r)
    <3>1. /\ UNCHANGED <<products, oidc, Actives>> /\ q.pc = "sandbox.push"
          /\ routes'["production"][p] = routes["production"][p]
      BY <2>1, <2>7, <2>18 DEF PushesSandbox, At, SetsRoute
    <3>. QED  BY <2>4, <2>5, <3>1 DEF Route3, Steady
  <2>19. CASE UNCHANGED Lasting /\ Fine
    BY <2>4, <2>6, <2>7, <2>19 DEF Lasting
  <2>20. CASE (ReadsProduct(r) \/ ListsMembers(r)) /\ ~Fine
    <3>1. SameJob(q, s) /\ s.pc \in Route3 /\ UNCHANGED Lasting /\ q.pc \in Route3
      BY <2>20 DEF ReadsProduct, ListsMembers, At, Route3
    <3>2. DueAt(q, p)
      BY <2>2, <2>20
    <3>. QED  BY <3>1, <3>2 DEF DueAt, SameJob, Same, Lasting, Route3
  <2>21. CASE Counts(r) /\ ~Fine
    <3>1. q.pc = "product.count" /\ p = q.prod /\ ActiveApps(p) # {} /\ products[p].live
      BY <2>2, <2>21 DEF DueAt, Counts, At, Route3
    <3>. QED  BY <2>8, <2>21, <3>1 DEF Counts, SameJob, Lasting, Route3
  <2>22. CASE ListsProducts(r) /\ ~Fine
    <3>1. products[p].live /\ p \in OAuthProductsForApp(q.app) /\ q.op = "setOidc"
      BY <2>1, <2>2, <2>22, WhoseStep
      DEF DueAt, ListsProducts, At, Route3, OAuthProductsForApp, ActiveProducts, ActiveRow, RouteWatch
    <3>2. s.op = "setOidc" /\ s.pc = "route.product" /\ (p = s.prod \/ p \in s.todo)
      BY <2>22, <3>1 DEF ListsProducts, Same
    <3>. QED  BY <2>22, <3>1, <3>2 DEF DueAt, Route3, ListsProducts, Lasting
  <2>23. CASE Ends(r) /\ ~Fine
    <3>1. DueAt(q, p)
      BY <2>2, <2>23
    <3>2. CASE q.pc = "oidc.products"
      <4>1. p \in OAuthProductsForApp(q.app)
        BY <3>1, <3>2 DEF DueAt, Route3, OAuthProductsForApp, ActiveProducts, ActiveRow
      <4>. QED  BY <2>1, <2>23, <3>2, <4>1 DEF Ends, At
    <3>3. CASE q.pc # "oidc.products"
      <4>1. q.pc = "route.product" /\ ~products[q.prod].live
        BY <2>1, <2>23, <3>1, <3>3 DEF DueAt, Ends, At, Route3
      <4>2. q.op = "setOidc" /\ WorkHeld(q)
        BY <2>1, <3>1, <4>1 DEF DueAt, Held, RouteWatch, Route3
      <4>3. q.prod \in Products /\ q.app \in Apps
        BY <2>1, <4>1, <4>2, WhoseStep DEF RouteWatch, Route3, RoutePcs, AdminOps
      <4>4. ActiveRow(q.app, q.prod)
        BY <4>1, <4>2 DEF WorkHeld, Route3
      <4>5. <<q.app, q.prod>> \in Actives
        BY <4>3, <4>4 DEF ActiveRow, Actives
      <4>. QED  BY <4>1, <4>3, <4>5, NoRowsUnlessLive
    <3>. QED  BY <3>2, <3>3
  <2>24. CASE Calm(r)
    BY <2>1, <2>4, <2>5, <2>6, <2>24, CalmStep
  <2>25. CASE ReadsSandbox(r) \/ ListsSandbox(r)
    BY <2>5, <2>19, <2>25 DEF ReadsSandbox, ListsSandbox, At, Route3
  <2>26. ReadsProduct(r) \/ ListsMembers(r) \/ Counts(r) \/ ListsProducts(r) \/ Ends(r) => UNCHANGED Lasting
    BY DEF ReadsProduct, ListsMembers, Counts, ListsProducts, Ends
  <2>. QED
    BY <2>1, <2>10, <2>11, <2>12, <2>13, <2>14, <2>15, <2>16, <2>17, <2>18, <2>19, <2>20, <2>21, <2>22, <2>23,
       <2>24, <2>25, <2>26
    DEF RouteMove, Calm
<1>. QED  BY <1>1, <1>2, NextByOne

\* "Each route's allow-list is exactly the product's active subscribers": without
\* faults, between requests that do not overlap, the production route of every
\* product is the one reprovisionRoute would push now; as long as no edit takes a
\* product from oauth2 back to key-auth.
THEOREM RouteStaysActiveSet ==
    ASSUME MaxFaults = 0
    PROVE  Spec /\ [](Serial /\ NoMigrationBack) => []RouteIsActiveSet
<1>1. Init => ProvisionedInv /\ Exact
  <2>. SUFFICES ASSUME Init PROVE ProvisionedInv /\ Exact
    OBVIOUS
  <2>1. ProvisionedInv
    BY DEF Init, ProvisionedInv, ActiveRow, NoSub
  <2>2. ASSUME NEW p \in Products PROVE Subscribers[p] = {}
    BY NoSubscribers DEF Init, Actives, NoSub
  <2>. QED  BY <2>1, <2>2 DEF Init, Exact, RouteFor, Envs
<1>2. IInv /\ IInv' /\ Serial /\ Serial' /\ Ground /\ Ground' /\ NoMigrationBack
      /\ ProvisionedInv /\ Exact /\ [Next]_vars => ProvisionedInv' /\ Exact'
  BY NextProvisioned, NextExact
<1>3. IInv /\ IInv' /\ Serial /\ Serial' /\ Ground /\ [Next]_vars => Ground'
  BY NextGround
<1>4. IInv /\ Exact => RouteIsActiveSet
  <2>. SUFFICES ASSUME IInv, Exact, Quiescent, NEW p \in Products, products[p].live
                PROVE  routes["production"][p] = DesiredRoute(p)
    BY DEF RouteIsActiveSet
  <2>1. \A r \in Requests : ~DueAt(req[r], p)
    BY NoReqType DEF Quiescent, Idle, DueAt, IInv, ShapeInv, RequestShape, Route3
  <2>. QED  BY <2>1 DEF Exact, RouteFor, DesiredRoute, Subscribers
<1>. QED  BY <1>1, <1>2, <1>3, <1>4, InitGround, Invariance, PTL DEF Spec

-----------------------------------------------------------------------------
(* The sandbox routes *)

\* Only EnableSandbox gives an application a sandbox key where it had none.
LEMMA NewSandboxKey ==
    ASSUME IInv, Ground, [Next]_vars, NEW r \in Requests, Step(r) \/ Fail(r), NEW a \in Apps,
           creds[a].sandboxKey = 0, creds'[a].sandboxKey # 0
    PROVE  At(r, "enable.save") /\ req[r].app = a
<1>. DEFINE q == req[r]
<1>1. KeyMove(r) /\ KeyHeld(q) /\ NoCred.sandboxKey = 0 /\ RequestShape(q)
  BY KeyMoves DEF Ground, KeyInv, IInv, ShapeInv, NoCred
<1>2. CASE UNCHANGED creds \/ Issues(r) \/ Forgets(r)
  BY <1>1, <1>2 DEF Issues, StoresKey, Forgets
<1>3. CASE Keeps(r)
  BY <1>1, <1>3 DEF Keeps, StoresKey, StoresSandboxKey, KeyHeld, At
<1>. QED
  BY <1>1, <1>2, <1>3
  DEF KeyMove, Quiet, Admits, Selects, Rotates, Enables, Clears, Lists, Reinstalls, KeepsKeys

\* While a product keeps its sandbox and its subscribers, and no subscriber opts
\* in, its sandbox list stays.
LEMMA SandboxListsStay ==
    ASSUME IInv, IInv', Serial, Serial', Ground, [Next]_vars, NEW r \in Requests, Step(r) \/ Fail(r),
           NEW p \in Products, products'[p].sandbox = products[p].sandbox,
           \A a \in Apps : <<a, p>> \in Actives <=> <<a, p>> \in Actives',
           At(r, "enable.save") => <<req[r].app, p>> \notin Actives \/ ~products[p].sandbox
    PROVE  SandboxSubscribers'[p] = SandboxSubscribers[p]
<1>1. Membership(p) /\ Membership(p)'
  BY Members
<1>2. CASE products[p].sandbox
  <2>1. \A a \in Apps : <<a, p>> \in Actives => (creds'[a].sandboxKey # 0 <=> creds[a].sandboxKey # 0)
    BY <1>2, NewSandboxKey, KeysWhileActive
  <2>2. \A i : i \in SandboxSubscribers'[p] <=> i \in SandboxSubscribers[p]
    BY <1>1, <1>2, <2>1 DEF Membership
  <2>. QED  BY <2>2 DEF SandboxSubscribers
<1>3. CASE ~products[p].sandbox
  <2>1. \A i : i \notin SandboxSubscribers'[p] /\ i \notin SandboxSubscribers[p]
    BY <1>1, <1>3 DEF Membership
  <2>. QED  BY <2>1 DEF SandboxSubscribers
<1>. QED  BY <1>2, <1>3

\* The sandbox routes a request is about to rebuild: those that may admit too
\* many, and those that lack a subscriber.
SandboxOwedAt(q, p) ==
    \/ SandboxDueAt(q, p)
    \/ q.op = "approve" /\ q.pc = "approve.sandbox" /\ p = q.prod /\ creds[q.app].sandboxKey # 0
    \/ q.op = "enableSandbox" /\ q.pc \in Sandbox3 /\ p \in q.todo
SandboxExact ==
    \A p \in Products : products[p].live /\ SandboxConfigured =>
        \/ routes["sandbox"][p].allowed = SandboxSubscribers[p]
        \/ \E r \in Requests : SandboxOwedAt(req[r], p)

\* No product is reached both by client id and in the sandbox.
PlainProducts == \A p \in Products : products[p].auth = "oauth2" => ~products[p].sandbox

\* Without overlap and faults the sandbox routes stay exact.
LEMMA NextSandboxExact ==
    ASSUME IInv, IInv', Serial, Serial', Ground, Ground', PlainProducts, MaxFaults = 0, SandboxExact, [Next]_vars
    PROVE  SandboxExact'
<1>1. CASE UNCHANGED <<products, oidc, subs, creds, routes, req>>
  <2>1. \A t \in Requests, p \in Products : SandboxOwedAt(req[t], p) => SandboxOwedAt(req[t], p)'
    BY <1>1 DEF SandboxOwedAt, SandboxDueAt
  <2>. QED  BY <1>1, <2>1, ListsKept DEF SandboxExact
<1>2. ASSUME NEW r \in Requests, Step(r) \/ Fail(r)
      PROVE  SandboxExact'
  <2>. DEFINE q == req[r]
              s == req'[r]
  <2>. SUFFICES ASSUME NEW p \in Products, products'[p].live, SandboxConfigured
                PROVE  \/ routes'["sandbox"][p].allowed = SandboxSubscribers'[p]
                       \/ SandboxOwedAt(q, p)'
    BY DEF SandboxExact
  <2>1. /\ RouteMove(r) /\ (UNCHANGED Actives \/ Ended(r) \/ WentLive(r)) /\ Held(q) /\ RequestShape(q)
        /\ Carries(q) /\ q \in Request /\ (GoesLive(r) => WentLive(r))
        /\ (Withdraws(r) \/ Undoes(r) \/ Refuses(r) => Ended(r))
        /\ Envs = {"production", "sandbox"} /\ ~(faults > 0) /\ NoReq.pc = "idle" /\ NoReq.op = "none"
        /\ products[p].auth \in {"key-auth", "oauth2"}
    BY <1>2, ActivesAfter, NoReqType
    DEF Ground, HeldInv, IInv, ShapeInv, CarriedInv, Envs, TypeOK, ProductRow, AuthTypes
  <2>0. products[p].live
    BY <2>1, ProductKept DEF SavesEdit, NoProduct
  <2>. DEFINE Fine == routes["sandbox"][p].allowed = SandboxSubscribers[p]
              Fine2 == routes'["sandbox"][p].allowed = SandboxSubscribers'[p]
              Steady == /\ products'[p] = products[p]
                        /\ \A a \in Apps : <<a, p>> \in Actives <=> <<a, p>> \in Actives'
              Stays == routes'["sandbox"][p] = routes["sandbox"][p]
              Quiets == Route3 \cup Sandbox3 \cup {"product.count", "approve.sandbox"}
  <2>2. Fine \/ SandboxOwedAt(q, p)
    <3>1. ~SandboxOwedAt(NoReq, p)
      BY NoReqType DEF SandboxOwedAt, SandboxDueAt, Route3, Sandbox3
    <3>. QED  BY <1>2, <2>0, <3>1, Alone DEF SandboxExact, IInv, BaseInv
  <2>3. (\A a \in Apps : <<a, p>> \notin Actives) => SandboxSubscribers[p] = {}
    BY NoSubscribers
  <2>4. Fine /\ Steady /\ Stays /\ ~At(r, "enable.save") => Fine2
    BY <1>2, SandboxListsStay
  <2>5. q.pc \notin Quiets => Fine
    BY <2>2 DEF SandboxDueAt, SandboxOwedAt
  <2>6. UNCHANGED <<products, Actives>> => Steady
    OBVIOUS
  <2>7. UNCHANGED subs => UNCHANGED Actives
    BY DEF Actives
  <2>10. p = s.prod /\ s.pc \in Sandbox3 => SandboxOwedAt(q, p)'
    BY DEF SandboxDueAt, SandboxOwedAt
  <2>11. /\ p = s.prod /\ s.pc \in Route3 \cup {"product.count"}
         /\ s.op = "updateProduct" /\ "sandbox" \in s.work
         => SandboxOwedAt(q, p)'
    BY DEF SandboxDueAt, SandboxOwedAt
  <2>12. ~PushesSandbox(r) => Stays
    BY <2>1, Writes DEF Deprovisions, Pushes, SetsRoute
  <2>13. ASSUME NEW work, Remains(r, work), "sandbox" \in work, p = q.prod,
                q.op = "updateProduct", "sandbox" \in q.work
         PROVE  SandboxOwedAt(q, p)'
    <3>1. /\ SameJob(q, s)
          /\ s.pc \in {"product.count", "route.product", "sandbox.product"}
      BY <2>13 DEF Remains
    <3>. QED  BY <2>10, <2>11, <2>13, <3>1 DEF SameJob, Same, Route3, Sandbox3
  <2>14. ASSUME q.op = "enableSandbox", TakesNext(r, "sandbox.product"), p \in q.todo
         PROVE  SandboxOwedAt(q, p)'
    <3>1. s.op = "enableSandbox" /\ s.pc = "sandbox.product" /\ (p = s.prod \/ p \in s.todo)
      BY <2>14 DEF TakesNext, Same
    <3>. QED  BY <2>10, <3>1 DEF SandboxOwedAt, Sandbox3
  <2>. SUFFICES Fine2 \/ SandboxOwedAt(q, p)'
    OBVIOUS
  <2>. HIDE DEF Steady, Stays, Fine, Fine2
  <2>20. CASE Ended(r)
    <3>1. /\ UNCHANGED products /\ s.pc = "route.product" /\ s.op \in {"unsubscribe", "reject", "deleteApp"}
          /\ q.pc \notin Quiets /\ q.pc # "enable.save"
          /\ Actives' = Actives \ {<<s.app, s.prod>>} /\ Stays
      BY <2>1, <2>12, <2>20 DEF Ended, Withdraws, Undoes, Refuses, Fresh, At, Route3, Sandbox3, PushesSandbox
    <3>2. CASE p = s.prod
      BY <3>1, <3>2 DEF SandboxDueAt, SandboxOwedAt, Route3
    <3>3. CASE p # s.prod
      <4>1. Steady
        BY <3>1, <3>3 DEF Steady
      <4>. QED  BY <2>4, <2>5, <3>1, <4>1 DEF At
    <3>. QED  BY <3>2, <3>3
  <2>21. CASE GoesLive(r)
    <3>1. /\ UNCHANGED <<products, creds>> /\ Stays /\ Fine /\ q.pc = "approve.activate" /\ q.op = "approve"
          /\ q.app \in Apps /\ q.prod \in Products /\ NewcomerHeld(q)
          /\ Actives' = Actives \cup {<<q.app, q.prod>>}
      BY <1>2, <2>1, <2>5, <2>12, <2>21, NewcomerJoins, WhoseStep
      DEF WentLive, GoesLive, At, PushesSandbox, Route3, Sandbox3, RouteWatch, ApprovePcs
    <3>2. CASE p = q.prod /\ products[p].sandbox
      <4>1. q.key # 0
        BY <2>1, <3>1, <3>2 DEF PlainProducts, NewcomerHeld
      <4>2. SameJob(q, s) /\ s.pc = "approve.sandbox"
        BY <2>1, <2>21, <4>1 DEF GoesLive, WentLive
      <4>3. CASE creds[q.app].sandboxKey # 0
        BY <3>1, <3>2, <4>2, <4>3 DEF SandboxOwedAt, SameJob, Same
      <4>4. CASE creds[q.app].sandboxKey = 0
        <5>1. Membership(p) /\ Membership(p)'
          BY Members
        <5>2. \A i : i \in SandboxSubscribers'[p] <=> i \in SandboxSubscribers[p]
          BY <3>1, <3>2, <4>4, <5>1 DEF Membership
        <5>3. SandboxSubscribers'[p] = SandboxSubscribers[p]
          BY <5>2 DEF SandboxSubscribers
        <5>. QED  BY <3>1, <5>3 DEF Fine, Fine2, Stays
      <4>. QED  BY <4>3, <4>4
    <3>3. CASE p = q.prod /\ ~products[p].sandbox
      <4>1. SandboxSubscribers'[p] = {} /\ SandboxSubscribers[p] = {}
        BY <3>1, <3>3 DEF SandboxSubscribers
      <4>. QED  BY <3>1, <4>1 DEF Fine, Fine2, Stays
    <3>4. CASE p # q.prod
      <4>1. Steady
        BY <3>1, <3>4 DEF Steady
      <4>. QED  BY <2>4, <3>1, <4>1 DEF At
    <3>. QED  BY <3>2, <3>3, <3>4
  <2>22. CASE OptedIn(r)
    <3>1. /\ UNCHANGED <<products, Actives>> /\ q.pc = "enable.save" /\ q.op = "enableSandbox" /\ Stays /\ Fine
          /\ q.todo = SandboxProductsForApp(q.app) /\ q.app \in Apps
      BY <2>1, <2>5, <2>7, <2>12, <2>22, WhoseStep
      DEF OptedIn, Lasting, At, EnablePcs, RouteWatch, PushesSandbox, Route3, Sandbox3, Held, WorkHeld, AdminOps
    <3>2. CASE p \in q.todo
      BY <2>14, <2>22, <3>1, <3>2 DEF OptedIn
    <3>3. CASE p \notin q.todo
      <4>1. <<q.app, p>> \notin Actives \/ ~products[p].sandbox
        BY <2>0, <3>1, <3>3 DEF SandboxProductsForApp, ActiveProducts, Actives
      <4>2. SandboxSubscribers'[p] = SandboxSubscribers[p]
        BY <1>2, <3>1, <4>1, SandboxListsStay
      <4>. QED  BY <3>1, <4>2 DEF Fine, Fine2, Stays
    <3>. QED  BY <3>2, <3>3
  <2>23. CASE AsksSandbox(r)
    <3>1. /\ UNCHANGED <<products, Actives>> /\ q.pc = "approve.sandbox" /\ Stays /\ SameJob(q, s)
          /\ q.op = "approve" /\ ~At(r, "enable.save")
      BY <2>1, <2>7, <2>12, <2>23, WhoseStep
      DEF AsksSandbox, Lasting, At, PushesSandbox, RouteWatch, ApprovePcs
    <3>2. CASE creds[q.app].sandboxKey # 0 /\ p = q.prod
      BY <2>1, <2>10, <2>23, <3>1, <3>2 DEF AsksSandbox, SameJob, Sandbox3
    <3>3. CASE creds[q.app].sandboxKey = 0 \/ p # q.prod
      <4>1. Fine
        BY <2>2, <3>1, <3>3 DEF SandboxOwedAt, SandboxDueAt, Route3, Sandbox3
      <4>. QED  BY <2>4, <2>6, <3>1, <4>1
    <3>. QED  BY <3>2, <3>3
  <2>24. CASE (Registers(r) \/ Leaves(r) \/ Deprovisions(r) \/ Calm(r)) /\ ~OptedIn(r) /\ ~AsksSandbox(r)
    <3>1. /\ UNCHANGED <<products, Actives>> /\ Stays
          /\ q.pc \notin Route3 \cup Sandbox3 \cup {"product.count"}
      BY <2>1, <2>7, <2>12, <2>24, CalmStep
      DEF Registers, Leaves, Deprovisions, Fresh, At, Ended, WentLive, Route3, Sandbox3, PushesSandbox
    <3>2. q.pc \notin {"enable.save", "approve.sandbox"}
      BY <2>1, <2>24
      DEF Calm, Passes, Inserts, Reviews, Looks, LooksUp, Credits, Installs, Opts, OptsIn, Retires, Cleans, Edited,
          Discontinues, Registers, Leaves, Deprovisions, Fresh, At, RouteWatch, EnablePcs, DeletePcs
    <3>. QED  BY <2>4, <2>5, <2>6, <3>1, <3>2 DEF At
  <2>25. CASE SavesEdit(r)
    <3>1. /\ UNCHANGED Actives /\ q.pc = "product.save" /\ q.op = "updateProduct" /\ Stays /\ Fine
          /\ products'[p] = IF p = q.prod THEN q.row ELSE products[p]
      BY <2>1, <2>5, <2>7, <2>12, <2>25, WhoseStep
      DEF SavesEdit, At, RouteWatch, Route3, Sandbox3, PushesSandbox
    <3>2. CASE products'[p].sandbox = products[p].sandbox
      <4>1. SandboxSubscribers'[p] = SandboxSubscribers[p]
        BY <1>2, <3>1, <3>2, SandboxListsStay DEF At
      <4>. QED  BY <3>1, <4>1 DEF Fine, Fine2, Stays
    <3>3. CASE products'[p].sandbox # products[p].sandbox
      <4>1. p = q.prod /\ "sandbox" \in q.work
        BY <2>1, <3>1, <3>3 DEF Held, WorkHeld, RouteWatch
      <4>. QED  BY <2>13, <2>25, <3>1, <4>1 DEF SavesEdit
    <3>. QED  BY <3>2, <3>3
  <2>26. CASE Discards(r)
    <3>1. /\ UNCHANGED Actives /\ q.pc = "product.delete" /\ Stays /\ Fine
          /\ products'[p] = IF p = q.prod THEN NoProduct ELSE products[p]
      BY <2>1, <2>5, <2>12, <2>26, WhoseStep
      DEF Discards, At, RouteWatch, Held, WorkHeld, Ended, WentLive, GoesLive, Route3, Sandbox3, PushesSandbox
    <3>2. p # q.prod
      BY <3>1 DEF NoProduct
    <3>. QED  BY <2>4, <3>1, <3>2 DEF Steady, At
  <2>27. CASE Pushes(r)
    <3>1. UNCHANGED <<products, Actives>> /\ q.pc = "route.push" /\ Stays
      BY <2>7, <2>12, <2>27 DEF Pushes, At, PushesSandbox
    <3>2. CASE ~Fine
      <4>1. /\ p = q.prod
            /\ q.op \in {"unsubscribe", "reject", "deleteApp"} \/ (q.op = "updateProduct" /\ "sandbox" \in q.work)
        BY <2>2, <3>1, <3>2 DEF SandboxOwedAt, SandboxDueAt, Route3, Sandbox3, Fine
      <4>2. s.pc = "sandbox.product" /\ SameJob(q, s)
        BY <2>27, <4>1 DEF Pushes
      <4>. QED  BY <2>10, <4>1, <4>2 DEF SameJob, Sandbox3
    <3>. QED  BY <2>4, <2>6, <3>1, <3>2 DEF At
  <2>28. CASE PushesSandbox(r)
    <3>1. /\ UNCHANGED <<products, Actives>> /\ q.pc = "sandbox.push" /\ ListHeld(q) /\ WorkHeld(q)
          /\ q.op = "approve" => ApprovalHeld(q)
      BY <2>1, <2>7, <2>28 DEF PushesSandbox, At, Held, RouteWatch, Sandbox3
    <3>2. CASE p = q.prod
      <4>1. routes'["sandbox"][p] = RouteFor("key-auth", q.allowed)
        BY <2>1, <2>28, <3>2 DEF PushesSandbox, SetsRoute
      <4>2. products[p].sandbox /\ q.extra # {} =>
                /\ q.extra = {q.app} /\ ActiveRow(q.app, p) /\ creds[q.app].sandboxKey # 0 /\ q.app \in Apps
        BY <2>1, <2>28, <3>1, <3>2, WhoseStep
        DEF PushesSandbox, Carries, ApprovalHeld, WorkHeld, RowOf, ActiveRow, Sandbox3, RouteWatch, AdminOps
      <4>3. q.allowed = SandboxSubscribers[p]
        <5>1. CASE ~products[p].sandbox
          BY <3>1, <3>2, <5>1 DEF ListHeld, SandboxSubscribers
        <5>2. CASE products[p].sandbox
          <6>1. q.extra \subseteq SandboxSubscribers[p]
            BY <4>2, <5>2, Members DEF Membership, Actives, ActiveRow
          <6>. QED  BY <3>1, <3>2, <5>2, <6>1 DEF ListHeld
        <5>. QED  BY <5>1, <5>2
      <4>4. SandboxSubscribers'[p] = SandboxSubscribers[p]
        BY <1>2, <3>1, SandboxListsStay DEF At
      <4>. QED  BY <4>1, <4>3, <4>4 DEF RouteFor, NoRoute, Fine2
    <3>3. CASE p # q.prod /\ ~Fine
      <4>1. q.op = "enableSandbox" /\ p \in q.todo
        BY <2>2, <3>1, <3>3 DEF SandboxOwedAt, SandboxDueAt, Route3, Sandbox3
      <4>2. TakesNext(r, "sandbox.product")
        BY <2>1, <2>28, <4>1 DEF PushesSandbox
      <4>. QED  BY <2>14, <4>1, <4>2
    <3>4. CASE p # q.prod /\ Fine
      <4>1. Stays
        BY <2>1, <2>28, <3>4 DEF PushesSandbox, SetsRoute, Stays
      <4>. QED  BY <2>4, <2>6, <3>1, <3>4, <4>1 DEF At
    <3>. QED  BY <3>2, <3>3, <3>4
  <2>29. CASE ReadsProduct(r) \/ ListsMembers(r) \/ ReadsSandbox(r) \/ ListsSandbox(r)
    <3>1. /\ UNCHANGED <<products, Actives>> /\ SameJob(q, s) /\ Stays /\ ~At(r, "enable.save")
          /\ q.pc \in Route3 => s.pc \in Route3
          /\ q.pc \in Sandbox3 => s.pc \in Sandbox3
          /\ q.pc \notin {"product.count", "approve.sandbox"}
      BY <2>7, <2>12, <2>29
      DEF ReadsProduct, ListsMembers, ReadsSandbox, ListsSandbox, Lasting, At, PushesSandbox, Route3, Sandbox3
    <3>2. SandboxOwedAt(q, p) => SandboxOwedAt(q, p)'
      BY <3>1 DEF SandboxOwedAt, SandboxDueAt, SameJob, Same
    <3>. QED  BY <2>2, <2>4, <2>6, <3>1, <3>2 DEF Fine
  <2>30. CASE Counts(r)
    <3>1. UNCHANGED <<products, Actives>> /\ q.pc = "product.count" /\ Stays
      BY <2>7, <2>12, <2>30 DEF Counts, Lasting, At, PushesSandbox
    <3>2. CASE ~Fine
      <4>1. p = q.prod /\ q.op = "updateProduct" /\ "sandbox" \in q.work
        BY <2>2, <3>1, <3>2 DEF SandboxOwedAt, SandboxDueAt, Route3, Sandbox3, Fine
      <4>2. CASE SameJob(q, s) /\ s.pc = "route.product"
        BY <2>11, <3>1, <4>1, <4>2 DEF SameJob, Same, Route3
      <4>3. CASE Remains(r, q.work \ {"count"})
        BY <2>13, <3>1, <4>1, <4>3
      <4>. QED  BY <2>30, <4>2, <4>3 DEF Counts
    <3>. QED  BY <2>4, <2>6, <3>1, <3>2 DEF At
  <2>31. CASE ListsProducts(r) \/ Ends(r)
    <3>1. UNCHANGED <<products, Actives>> /\ Stays
      BY <2>1, <2>7, <2>12, <2>31 DEF ListsProducts, Ends, Lasting, At, PushesSandbox
    <3>2. ~SandboxDueAt(q, p) /\ q.pc # "approve.sandbox"
      BY <2>0, <2>1, <2>31 DEF ListsProducts, Ends, At, SandboxDueAt, Route3, Sandbox3
    <3>3. q.op = "enableSandbox" /\ q.pc \in Sandbox3 => ~Ends(r)
      <4>1. ASSUME q.op = "enableSandbox", q.pc \in Sandbox3, Ends(r) PROVE FALSE
        <5>1. q.pc = "sandbox.product" /\ ~products[q.prod].live /\ q.prod \in Products /\ q.app \in Apps
          BY <2>1, <4>1, WhoseStep DEF Ends, At, Sandbox3, RouteWatch, RoutePcs, AdminOps
        <5>2. <<q.app, q.prod>> \in Actives
          BY <2>1, <4>1, <5>1 DEF Held, WorkHeld, RouteWatch, ActiveRow, Actives
        <5>. QED  BY <5>1, <5>2, NoRowsUnlessLive
      <4>. QED  BY <4>1
    <3>4. ~SandboxOwedAt(q, p)
      BY <2>31, <3>2, <3>3 DEF SandboxOwedAt, ListsProducts, At, Sandbox3
    <3>5. ~At(r, "enable.save")
      <4>1. ASSUME At(r, "enable.save") PROVE creds[q.app].key # 0
        BY <4>1 DEF Ground, KeyInv, KeyHeld, At
      <4>. QED  BY <2>1, <2>31, <4>1 DEF ListsProducts, Ends, At
    <3>. QED  BY <2>2, <2>4, <2>6, <3>1, <3>4, <3>5 DEF Fine
  <2>. QED
    BY <2>1, <2>20, <2>21, <2>22, <2>23, <2>24, <2>25, <2>26, <2>27, <2>28, <2>29, <2>30, <2>31
    DEF RouteMove, Calm, Fine2
<1>. QED  BY <1>1, <1>2, NextByOne

\* The sandbox-route whitelist rule: without faults, between requests that do not
\* overlap, a sandbox route lists exactly the active subscribers with a sandbox
\* key; as long as no product is both oauth2 and in the sandbox, whose sandbox
\* route Approve leaves as it is.
THEOREM SandboxRouteStaysRule ==
    ASSUME MaxFaults = 0
    PROVE  Spec /\ [](Serial /\ PlainProducts) => []SandboxRouteIsRule
<1>1. Init => SandboxExact
  <2>. SUFFICES ASSUME Init PROVE SandboxExact
    OBVIOUS
  <2>1. ASSUME NEW p \in Products PROVE SandboxSubscribers[p] = {}
    BY NoSubscribers DEF Init, Actives, NoSub
  <2>. QED  BY <2>1 DEF Init, SandboxExact, NoRoute, Envs
<1>2. IInv /\ IInv' /\ Serial /\ Serial' /\ Ground /\ Ground' /\ PlainProducts
      /\ SandboxExact /\ [Next]_vars => SandboxExact'
  BY NextSandboxExact
<1>3. IInv /\ IInv' /\ Serial /\ Serial' /\ Ground /\ [Next]_vars => Ground'
  BY NextGround
<1>4. IInv /\ SandboxExact => SandboxRouteIsRule
  <2>. SUFFICES ASSUME IInv, SandboxExact, Quiescent, SandboxConfigured, NEW p \in Products, products[p].live
                PROVE  routes["sandbox"][p].allowed = SandboxSubscribers[p]
    BY DEF SandboxRouteIsRule, SandboxSubscribers
  <2>1. \A r \in Requests : ~SandboxOwedAt(req[r], p)
    BY NoReqType
    DEF Quiescent, Idle, SandboxOwedAt, SandboxDueAt, IInv, ShapeInv, RequestShape, Route3, Sandbox3
  <2>. QED  BY <2>1 DEF SandboxExact
<1>. QED  BY <1>1, <1>2, <1>3, <1>4, InitGround, Invariance, PTL DEF Spec

-----------------------------------------------------------------------------
(* What a deleted application leaves behind *)

\* Only the last statement of a deletion removes an application.
LEMMA AppsStep ==
    ASSUME NEW r \in Requests, Step(r) \/ Fail(r)
    PROVE  UNCHANGED apps \/ DeleteRow(r)
<1>1. CASE SubscriptionNext(r)
  BY <1>1
  DEF SubscriptionNext, Subscribe, SubscribeCredential, SubscribeSave, Unsubscribe, Reject, RejectSet, Approve,
      ApproveProduct, ApproveClientId, ApproveCredential, ApproveConsumer, ApproveActivate, ApproveSandbox,
      BillPricing, BillCreate, Unprovisioned, appVars
<1>2. CASE RouteNext(r)
  BY <1>2
  DEF RouteNext, RouteProduct, RouteMembers, RoutePush, SandboxProduct, SandboxMembers, SandboxPush,
      Unprovisioned, appVars
<1>3. CASE CredentialsNext(r)
  BY <1>3
  DEF CredentialsNext, Rotate, RotateSandbox, EnableSandbox, DeleteApp, SetOidc, RotateConsumer, RotateSave,
      EnableConsumer, EnableSave, OidcProducts, DeleteNext, DeleteCredential, DeleteConsumer, DeleteSandboxKey,
      DeleteSandboxConsumer, Unprovisioned, appVars
<1>4. CASE ProductNext(r)
  BY <1>4
  DEF ProductNext, UpdateProduct, ProductSave, ProductCount, DeleteProduct, ProductDelete, ProductDeprovision,
      Unprovisioned, appVars
<1>5. CASE PlanNext(r)
  BY <1>5
  DEF PlanNext, UpdatePlan, PlanSave, PlanRead, PlanConsumers, PlanPush, PlanSandboxConsumers, PlanSandboxPush,
      DeletePlan, PlanDelete, Unprovisioned, appVars
<1>. QED  BY <1>1, <1>2, <1>3, <1>4, <1>5 DEF Step, Fail, appVars

\* An application that exists has this identity: its own name, or a client id it
\* registered.
Owned(i) == \E b \in apps : i = b \/ i \in claims[b]
\* Keys belong to applications that exist, and so do the identities on the routes.
OwnedInv ==
    /\ \A a \in Apps : creds[a].key # 0 => a \in apps
    /\ \A e \in Envs, p \in Products : \A i \in routes[e][p].allowed : Owned(i)

\* An active subscriber exists, and so does whoever is on the lists.
LEMMA SubscribersOwned ==
    ASSUME IInv, Ground, NEW p \in Products
    PROVE  \A i \in Subscribers[p] \cup SandboxSubscribers[p] :
               \E b \in Apps \cap apps : <<b, p>> \in Actives /\ (i = b \/ i \in claims[b])
<1>1. \A a \in Apps : <<a, p>> \in Actives => a \in apps
  BY DEF Ground, Referenced, Actives, NoSub
<1>2. \A a \in Apps : oidc[a] # None => oidc[a] \in claims[a]
  BY DEF IInv, ClaimInv
<1>3. Membership(p)
  BY Members
<1>4. ASSUME NEW i \in Subscribers[p]
      PROVE  \E b \in Apps : <<b, p>> \in Actives /\ (i = b \/ (oidc[b] # None /\ i = oidc[b]))
  BY <1>3, <1>4 DEF Membership
<1>5. ASSUME NEW i \in SandboxSubscribers[p]
      PROVE  \E b \in Apps : <<b, p>> \in Actives /\ i = b
  BY <1>3, <1>5 DEF Membership
<1>. QED  BY <1>1, <1>2, <1>4, <1>5

\* Without overlap and faults what the routes name exists.
LEMMA NextOwned ==
    ASSUME IInv, IInv', Serial, Serial', Ground, Ground', MaxFaults = 0, AtMost, SandboxAtMost, OwnedInv, [Next]_vars
    PROVE  OwnedInv'
<1>1. CASE UNCHANGED <<apps, creds, routes, claims>>
  BY <1>1 DEF OwnedInv, Owned
<1>2. ASSUME NEW r \in Requests, Step(r) \/ Fail(r)
      PROVE  OwnedInv'
  <2>. DEFINE q == req[r]
  <2>1. /\ RouteMove(r) /\ KeyMove(r) /\ Held(q) /\ RequestShape(q) /\ Carries(q) /\ NoCred.key = 0
        /\ Envs = {"production", "sandbox"} /\ (UNCHANGED apps \/ DeleteRow(r))
        /\ \A a \in Apps : claims[a] \subseteq claims'[a]
        /\ \A a \in Apps : creds[a] \in CredRow
        /\ apps \subseteq Apps
    BY <1>2, ActivesAfter, KeyMoves, AppsStep, NextEffect
    DEF Ground, HeldInv, IInv, ShapeInv, CarriedInv, Envs, Effect, HistoryEffect, NoCred, TypeOK
  <2>2. CASE DeleteRow(r)
    <3>1. /\ q.pc = "delete.row" /\ q.app \in Apps /\ q.op = "deleteApp" /\ apps' = apps \ {q.app}
          /\ UNCHANGED <<routes, claims>> /\ creds' = [creds EXCEPT ![q.app] = NoCred]
      BY <2>1, <2>2, WhoseStep
      DEF DeleteRow, At, DeletePcs, RouteWatch, AdminOps, gwVars, histVars
    <3>2. \A p \in Products : <<q.app, p>> \notin Actives
      BY <2>1, <3>1 DEF Held, WorkHeld, RouteWatch, DeletePcs, Actives, NoSub
    <3>3. ASSUME NEW a \in Apps, creds'[a].key # 0 PROVE a \in apps'
      BY <2>1, <3>1, <3>3 DEF OwnedInv, IInv, TypeOK
    <3>4. ASSUME NEW e \in Envs, NEW p \in Products, NEW i \in routes[e][p].allowed
          PROVE  Owned(i)'
      <4>1. ~DueAt(q, p) /\ ~SandboxDueAt(q, p)
        BY <3>1 DEF DueAt, SandboxDueAt, Route3, Sandbox3
      <4>2. i \in Subscribers[p] \cup SandboxSubscribers[p]
        BY <1>2, <2>1, <3>4, <4>1, NobodyElseDue DEF AtMost, SandboxAtMost
      <4>3. PICK b \in Apps \cap apps : <<b, p>> \in Actives /\ (i = b \/ i \in claims[b])
        BY <4>2, SubscribersOwned
      <4>. QED  BY <3>1, <3>2, <4>3 DEF Owned
    <3>. QED  BY <3>1, <3>3, <3>4 DEF OwnedInv
  <2>3. CASE UNCHANGED apps
    <3>1. ASSUME NEW a \in Apps, creds'[a].key # 0 PROVE a \in apps'
      <4>1. CASE UNCHANGED creds
        BY <2>3, <3>1, <4>1 DEF OwnedInv
      <4>2. CASE Issues(r)
        BY <2>3, <3>1, <4>2 DEF Issues, StoresKey, OwnedInv
      <4>3. CASE Keeps(r)
        BY <2>3, <3>1, <4>3 DEF Keeps, StoresKey, StoresSandboxKey, OwnedInv
      <4>4. CASE Forgets(r)
        BY <2>1, <2>3, <3>1, <4>4 DEF Forgets, OwnedInv
      <4>. QED
        BY <2>1, <4>1, <4>2, <4>3, <4>4
        DEF KeyMove, Quiet, Admits, Selects, Rotates, Enables, Clears, Lists, Reinstalls, KeepsKeys
    <3>2. \A i : Owned(i) => Owned(i)'
      BY <2>1, <2>3 DEF Owned
    <3>3. \A p \in Products : \A i \in Subscribers[p] \cup SandboxSubscribers[p] : Owned(i)
      BY SubscribersOwned DEF Owned
    <3>4. ASSUME NEW e \in Envs, NEW p \in Products, NEW i \in routes'[e][p].allowed
          PROVE  Owned(i)
      <4>1. CASE i \in routes[e][p].allowed
        BY <4>1 DEF OwnedInv
      <4>2. CASE Deprovisions(r)
        BY <4>1, <2>1, <3>4, <4>2 DEF Deprovisions, SetsRoute, NoRoute
      <4>3. CASE Pushes(r)
        <5>1. SetsRoute("production", q.prod, RouteFor(products[q.prod].auth, Subscribers[q.prod] \cup q.extra))
              /\ q.prod \in Products
          BY <4>3, PushedList
        <5>2. i \in routes[e][p].allowed \/ (p = q.prod /\ i \in Subscribers[p] \cup q.extra)
          BY <2>1, <3>4, <5>1 DEF SetsRoute, RouteFor, NoRoute
        <5>3. ASSUME i \in q.extra PROVE Owned(i)
          <6>1. q.pc = "route.push" /\ q.op = "approve"
            BY <2>1, <4>3, <5>3 DEF Pushes, At, Carries, Held, RouteWatch, Route3, WorkHeld
          <6>2. NewcomerHeld(q) /\ IsSubscription(<<q.app, q.prod>>, q.sub) /\ q.app \in Apps
            BY <2>1, <6>1, WhoseStep DEF Held, ApprovalHeld, RouteWatch, Route3, AdminOps
          <6>3. q.app \in apps
            BY <5>1, <6>2 DEF Ground, Referenced, IsSubscription
          <6>4. i = q.app \/ (i = oidc[q.app] /\ i # None)
            <7>1. products[q.prod].auth \in {"key-auth", "oauth2"}
              BY <5>1 DEF IInv, TypeOK, ProductRow, AuthTypes
            <7>. QED  BY <5>3, <6>2, <7>1 DEF NewcomerHeld
          <6>. QED  BY <6>2, <6>3, <6>4 DEF Owned, IInv, ClaimInv
        <5>. QED  BY <3>3, <4>1, <5>2, <5>3
      <4>4. CASE PushesSandbox(r)
        <5>1. /\ q.pc = "sandbox.push" /\ ListHeld(q) /\ WorkHeld(q) /\ q.prod \in Products
              /\ q.op = "approve" => ApprovalHeld(q)
          BY <2>1, <4>4, WhoseStep DEF PushesSandbox, At, Held, RouteWatch, Sandbox3, RoutePcs
        <5>2. i \in routes[e][p].allowed \/ (p = q.prod /\ i \in SandboxSubscribers[p] \cup q.extra)
          BY <2>1, <3>4, <4>4, <5>1 DEF PushesSandbox, SetsRoute, RouteFor, NoRoute, ListHeld
        <5>3. ASSUME i \in q.extra, p = q.prod PROVE Owned(i)
          <6>1. q.extra = {q.app} /\ ActiveRow(q.app, p) /\ q.app \in Apps
            BY <2>1, <4>4, <5>1, <5>3, WhoseStep
            DEF PushesSandbox, Carries, ApprovalHeld, WorkHeld, RowOf, ActiveRow, Sandbox3, RouteWatch, AdminOps
          <6>2. q.app \in apps
            BY <6>1 DEF Ground, Referenced, ActiveRow, NoSub
          <6>. QED  BY <5>3, <6>1, <6>2 DEF Owned
        <5>. QED  BY <3>3, <4>1, <5>2, <5>3
      <4>. QED  BY <2>1, <3>4, <4>1, <4>2, <4>3, <4>4, Writes
    <3>. QED  BY <3>1, <3>2, <3>4 DEF OwnedInv
  <2>. QED  BY <2>1, <2>2, <2>3
<1>. QED  BY <1>1, <1>2, NextByOne

\* Deleting an application erases it: no gateway keeps a consumer of its name and
\* no route lists its name or a client id that only it had registered; between
\* requests that do not overlap and without faults. Names of applications are not
\* client ids (an id is issued by the identity provider).
THEOREM DeletionErases ==
    ASSUME MaxFaults = 0, Apps \cap ClientIds = {}
    PROVE  Spec /\ []Serial => []DeletedIsErased
<1>. DEFINE Aux == AtMost /\ SandboxAtMost /\ OwnedInv /\ faults = 0 /\ AgreeInv
<1>1. Init => Aux
  <2>1. Init => OwnedInv
    BY DEF Init, OwnedInv, NoRoute, NoCred, Envs
  <2>. QED  BY <2>1, NoReqType, InitAtMost DEF Init, AgreeInv, Agree, Clearing, Envs
<1>2. IInv /\ IInv' /\ Serial /\ Serial' /\ Ground /\ Ground' /\ Aux /\ [Next]_vars => Aux'
  BY NextAtMost, NextSandboxAtMost, NextOwned, NextAgree, NoMoreFaults DEF IInv, BaseInv, Ground
<1>3. IInv /\ IInv' /\ Serial /\ Serial' /\ Ground /\ [Next]_vars => Ground'
  BY NextGround
<1>4. IInv /\ Ground /\ Aux => DeletedIsErased
  <2>. SUFFICES ASSUME IInv, Ground, Aux, NEW a \in Apps \ apps, NEW e \in Envs
                PROVE  /\ consumers[e][a] = NoConsumer
                       /\ \A p \in Products : \A i \in routes[e][p].allowed : ~Identifies(i, a)
    BY DEF DeletedIsErased, Erased
  <2>1. creds[a].key = 0 /\ creds[a].sandboxKey = 0
    <3>1. creds[a] \in CredRow
      BY DEF IInv, TypeOK
    <3>2. creds[a].sandboxKey # 0 => creds[a].key # 0
      BY DEF Ground, KeyInv, KeysBelow
    <3>. QED  BY <3>2 DEF OwnedInv
  <2>2. ~Rotating(e, a)
    BY <2>1 DEF Ground, KeyInv, KeyHeld, Rotating, At
  <2>3. consumers[e][a] = NoConsumer
    BY <2>1, <2>2 DEF AgreeInv, Agree, StoredKey
  <2>4. ASSUME NEW p \in Products, NEW i \in routes[e][p].allowed, Identifies(i, a)
        PROVE  FALSE
    <3>1. PICK b \in apps : i = b \/ i \in claims[b]
      BY DEF OwnedInv, Owned
    <3>2. apps \subseteq Apps /\ \A c \in Apps : claims[c] \subseteq ClientIds
      BY DEF IInv, TypeOK
    <3>. QED  BY <2>4, <3>1, <3>2 DEF Identifies
  <2>. QED  BY <2>3, <2>4
<1>. HIDE DEF Aux
<1>. QED  BY <1>1, <1>2, <1>3, <1>4, InitGround, Invariance, PTL DEF Spec

-----------------------------------------------------------------------------
(* The portal implements the admission promise *)

\* What Admission sees of the portal.
Shown == [x \in Apps \X Products |-> subs[x].status]
Decided == {<<ap.app, ap.prod>> : ap \in approvals}
Admitted == {x \in Apps \X Products : x[1] \in routes["production"][x[2]].allowed}

\* Admission is about key-auth products, whose routes list applications by name.
KeyAuthOnly == \A p \in Products : products[p].auth = "key-auth"

\* Only the start of an approval records one.
LEMMA ApprovalsStep ==
    ASSUME NEW r \in Requests, Step(r) \/ Fail(r)
    PROVE  UNCHANGED approvals \/ \E a \in Apps, p \in Products : Approve(r, a, p)
<1>1. CASE SubscriptionNext(r)
  BY <1>1
  DEF SubscriptionNext, Subscribe, SubscribeCredential, SubscribeSave, Unsubscribe, Reject, RejectSet,
      ApproveProduct, ApproveClientId, ApproveCredential, ApproveConsumer, ApproveActivate, ApproveSandbox,
      BillPricing, BillCreate, Unprovisioned, histVars
<1>2. CASE RouteNext(r)
  BY <1>2
  DEF RouteNext, RouteProduct, RouteMembers, RoutePush, SandboxProduct, SandboxMembers, SandboxPush,
      Unprovisioned, histVars
<1>3. CASE CredentialsNext(r)
  BY <1>3
  DEF CredentialsNext, Rotate, RotateSandbox, EnableSandbox, DeleteApp, SetOidc, RotateConsumer, RotateSave,
      EnableConsumer, EnableSave, OidcProducts, DeleteNext, DeleteCredential, DeleteConsumer, DeleteSandboxKey,
      DeleteSandboxConsumer, DeleteRow, Unprovisioned, histVars
<1>4. CASE ProductNext(r)
  BY <1>4
  DEF ProductNext, UpdateProduct, ProductSave, ProductCount, DeleteProduct, ProductDelete, ProductDeprovision,
      Unprovisioned, histVars
<1>5. CASE PlanNext(r)
  BY <1>5
  DEF PlanNext, UpdatePlan, PlanSave, PlanRead, PlanConsumers, PlanPush, PlanSandboxConsumers, PlanSandboxPush,
      DeletePlan, PlanDelete, Unprovisioned, histVars
<1>. QED  BY <1>1, <1>2, <1>3, <1>4, <1>5 DEF Step, Fail, histVars

\* A status is shown as it is set; ids are those of one row.
LEMMA ShownAfter ==
    ASSUME IInv, NEW x \in Apps \X Products, NEW st,
           \A y \in Apps \X Products : subs'[y].status = IF y = x THEN st ELSE subs[y].status
    PROVE  Shown' = [Shown EXCEPT ![x] = st]
BY DEF Shown

\* So is the one a statement sets by id.
LEMMA SetAfter ==
    ASSUME IInv, NEW x \in Apps \X Products, NEW id, IsSubscription(x, id), NEW st \in {"active", "rejected"},
           SetSubscriptionStatus(id, st)
    PROVE  Shown' = [Shown EXCEPT ![x] = st]
<1>1. /\ subs[x].id = id /\ id # 0 /\ subs[x] # NoSub
      /\ \A y \in Apps \X Products : subs[y] \in SubRow /\ (IsSubscription(y, id) => y = x)
  BY DEF IInv, RowInv, TypeOK, IsSubscription
<1>2. ASSUME NEW y \in Apps \X Products
      PROVE  subs'[y].status = IF y = x THEN st ELSE subs[y].status
  BY <1>1, <1>2 DEF SetSubscriptionStatus, SubRow
<1>. QED  BY <1>2, ShownAfter

\* Each step of the portal is one step of Admission or none.
LEMMA NextAdmission ==
    ASSUME IInv, IInv', Serial, Serial', Ground, Ground', KeyAuthOnly, ProvisionedInv,
           "deleteProduct" \notin Ops, [Next]_vars
    PROVE  Promise!AdmissionNext \/ UNCHANGED <<Shown, Decided, Admitted>>
<1>1. CASE UNCHANGED <<subs, approvals, routes>>
  BY <1>1 DEF Shown, Decided, Admitted
<1>2. ASSUME NEW r \in Requests, Step(r) \/ Fail(r)
      PROVE  Promise!AdmissionNext \/ UNCHANGED <<Shown, Decided, Admitted>>
  <2>. DEFINE q == req[r]
              z == <<q.app, q.prod>>
  <2>1. /\ RouteMove(r) /\ Held(q) /\ RequestShape(q) /\ Approving(q) /\ TypeOK
        /\ \A x \in Apps \X Products : subs[x] \in SubRow
        /\ NoSub.status = "none" /\ q.op # "deleteProduct"
    BY <1>2, ActivesAfter
    DEF Ground, HeldInv, IInv, ShapeInv, ApprovingInv, TypeOK, OpsInv, NoSub
  <2>2. ASSUME NEW a \in Apps, NEW p \in Products, Approve(r, a, p)
        PROVE  Promise!Decide(<<a, p>>)
    <3>1. /\ UNCHANGED <<subs, routes>> /\ subs[<<a, p>>].status \in {"pending", "active"}
          /\ approvals' = approvals \cup
                {[app |-> a, prod |-> p, sub |-> subs[<<a, p>>].id, plan |-> subs[<<a, p>>].plan]}
      BY <2>2 DEF Approve, subVars, gwVars
    <3>2. Decided' = Decided \cup {<<a, p>>}
      <4>1. PICK new : new.app = a /\ new.prod = p /\ approvals' = approvals \cup {new}
        BY <3>1
      <4>2. Decided' = {<<ap.app, ap.prod>> : ap \in approvals \cup {new}}
        BY <4>1 DEF Decided
      <4>. QED  BY <4>1, <4>2 DEF Decided
    <3>3. UNCHANGED <<Shown, Admitted>>
      BY <3>1 DEF Shown, Admitted
    <3>. QED  BY <3>1, <3>2, <3>3 DEF Promise!Decide, Shown, Decided, Admitted
  <2>3. CASE UNCHANGED approvals
    <3>1. UNCHANGED Decided
      BY <2>3 DEF Decided
    <3>2. UNCHANGED subs => UNCHANGED Shown
      BY DEF Shown
    <3>3. UNCHANGED routes => UNCHANGED Admitted
      BY DEF Admitted
    <3>4. ASSUME NEW x \in Apps \X Products, UNCHANGED routes,
                 \A y \in Apps \X Products : subs'[y].status = IF y = x THEN "none" ELSE subs[y].status
          PROVE  Promise!Revoke(x) \/ UNCHANGED <<Shown, Decided, Admitted>>
      <4>1. CASE subs[x].status = "none"
        BY <3>1, <3>3, <3>4, <4>1 DEF Shown
      <4>2. CASE subs[x].status # "none"
        <5>1. Shown' = [Shown EXCEPT ![x] = "none"]
          BY <3>4, ShownAfter
        <5>2. Shown[x] # "none"
          BY <4>2 DEF Shown
        <5>. QED  BY <3>1, <3>3, <3>4, <5>1, <5>2 DEF Promise!Revoke, Shown, Decided, Admitted
      <4>. QED  BY <4>1, <4>2
    <3>5. CASE UNCHANGED subs /\ (UNCHANGED routes \/ PushesSandbox(r))
      <4>1. UNCHANGED Admitted
        BY <2>1, <3>3, <3>5 DEF PushesSandbox, SetsRoute, Admitted, Envs
      <4>. QED  BY <3>1, <3>2, <3>5, <4>1
    <3>6. CASE Inserts(r)
      <4>1. /\ z \in Apps \X Products /\ UNCHANGED routes
            /\ UNCHANGED subs \/ SavedBy(r, z)
            /\ \A y \in Apps \X Products : y # z => subs'[y] = subs[y]
            /\ q.op = "subscribe"
        BY <2>1, <3>6 DEF Inserts, At, RequestShape, MayBeAt, AdminOps
      <4>2. CASE SavedBy(r, z)
        <5>1. Shown' = [Shown EXCEPT ![z] = "pending"]
          BY <4>1, <4>2, ShownAfter DEF SavedBy
        <5>2. Shown[z] # "active"
          BY <4>1 DEF Ground, StatusHeld, Shown
        <5>3. PICK x \in Apps \X Products : x = z
          BY <4>1
        <5>4. Promise!Request(x)
          BY <3>1, <3>3, <4>1, <5>1, <5>2, <5>3 DEF Promise!Request, Shown, Decided, Admitted
        <5>. QED  BY <5>4 DEF Promise!AdmissionNext, Promise!Pairs
      <4>. QED  BY <3>1, <3>2, <3>3, <4>1, <4>2
    <3>7. CASE Withdraws(r) \/ Undoes(r)
      <4>1. PICK x \in Apps \X Products : Gone(x) /\ UNCHANGED routes
        BY <2>1, <3>7, WhoseStep DEF Withdraws, Undoes, At, DeletePcs, AdminOps, Same, TypeOK, Request, RouteWatch
      <4>2. Promise!Revoke(x) \/ UNCHANGED <<Shown, Decided, Admitted>>
        BY <2>1, <3>4, <4>1 DEF Gone
      <4>. QED  BY <4>1, <4>2 DEF Promise!AdmissionNext, Promise!Pairs
    <3>8. CASE Refuses(r)
      <4>1. /\ IsSubscription(z, q.sub) /\ z \in Apps \X Products /\ UNCHANGED routes
            /\ SetSubscriptionStatus(q.sub, "rejected")
        BY <2>1, <3>8, WhoseStep DEF Refuses, At, Held, WorkHeld, RouteWatch, AdminOps
      <4>2. Shown' = [Shown EXCEPT ![z] = "rejected"] /\ Shown[z] # "none"
        BY <4>1, SetAfter DEF Shown, IInv, RowInv, IsSubscription
      <4>3. PICK x \in Apps \X Products : x = z
        BY <4>1
      <4>4. Promise!Revoke(x)
        BY <3>1, <3>3, <4>1, <4>2, <4>3 DEF Promise!Revoke, Shown, Decided, Admitted
      <4>. QED  BY <4>4 DEF Promise!AdmissionNext, Promise!Pairs
    <3>9. CASE GoesLive(r)
      <4>1. /\ ApprovalHeld(q) /\ ListHeld(q) /\ q.op = "approve" /\ q.pc = "approve.activate"
            /\ z \in Apps \X Products /\ UNCHANGED routes /\ SetSubscriptionStatus(q.sub, "active")
        BY <2>1, <3>9, WhoseStep DEF GoesLive, At, Held, RouteWatch, ApprovePcs, AdminOps
      <4>2. /\ IsSubscription(z, q.sub) /\ z \in Decided /\ z \in Admitted
            /\ subs[z].status \in {"pending", "active"}
        <5>1. q.app \in routes["production"][q.prod].allowed
          BY <4>1 DEF ApprovalHeld, NewcomerHeld, ListHeld, KeyAuthOnly, RouteFor, Route3
        <5>2. z \in Decided
          BY <2>1, <4>1 DEF Approving, Decided
        <5>. QED  BY <4>1, <5>1, <5>2 DEF Admitted, ApprovalHeld, Ground, StatusHeld
      <4>3. Shown' = [Shown EXCEPT ![z] = "active"]
        BY <4>1, <4>2, SetAfter
      <4>4. CASE subs[z].status = "active"
        <5>1. Shown' = Shown
          BY <4>1, <4>3, <4>4 DEF Shown
        <5>. QED  BY <3>1, <3>3, <4>1, <5>1
      <4>5. CASE subs[z].status = "pending"
        <5>1. Shown[z] = "pending"
          BY <4>1, <4>5 DEF Shown
        <5>2. PICK x \in Apps \X Products : x = z
          BY <4>1
        <5>3. Promise!Activate(x)
          BY <3>1, <3>3, <4>1, <4>2, <4>3, <5>1, <5>2 DEF Promise!Activate, Shown, Decided, Admitted
        <5>. QED  BY <5>3 DEF Promise!AdmissionNext, Promise!Pairs
      <4>. QED  BY <4>2, <4>4, <4>5
    <3>10. CASE Leaves(r)
      <4>1. /\ UNCHANGED routes /\ q.pc = "delete.row" /\ q.op = "deleteApp"
            /\ \A x \in Apps \X Products : subs'[x] = IF x[1] = q.app THEN NoSub ELSE subs[x]
        BY <2>1, <3>10, WhoseStep DEF Leaves, At, DeletePcs, RouteWatch
      <4>2. \A x \in Apps \X Products : x[1] = q.app => subs[x] = NoSub
        BY <2>1, <4>1 DEF Held, WorkHeld, RouteWatch, DeletePcs
      <4>3. Shown' = Shown
        BY <4>1, <4>2 DEF Shown
      <4>. QED  BY <3>1, <3>3, <4>1, <4>3
    <3>11. CASE Pushes(r)
      <4>0. PICK p \in Products : p = q.prod
        BY <3>11, PushedList
      <4>1. /\ UNCHANGED subs
            /\ SetsRoute("production", p, RouteFor("key-auth", Subscribers[p] \cup q.extra))
        BY <3>11, <4>0, PushedList DEF Pushes, KeyAuthOnly
      <4>2. PICK S : /\ S = Subscribers[p] \cup q.extra
                     /\ \A o \in Products : routes'["production"][o].allowed =
                                                IF o = p THEN S ELSE routes["production"][o].allowed
        BY <4>1 DEF SetsRoute, RouteFor, NoRoute, Envs
      <4>3. \A i : i \in Subscribers[p] <=> i \in Apps /\ Shown[<<i, p>>] = "active"
        <5>1. Membership(p)
          BY Members
        <5>2. \A a \in Apps : Shown[<<a, p>>] = subs[<<a, p>>].status
          BY DEF Shown
        <5>3. \A a \in Apps : <<a, p>> \in Actives => creds[a].key # 0
          BY DEF ProvisionedInv, ActiveRow, Actives, KeyAuthOnly
        <5>. QED  BY <5>1, <5>2, <5>3 DEF Membership, KeyAuthOnly, Actives
      <4>4. ASSUME NEW i \in q.extra
            PROVE  /\ i \in Apps /\ Shown[<<i, p>>] \in {"pending", "active"}
                   /\ <<i, p>> \in Decided
        <5>1. q.pc = "route.push" /\ q.op = "approve"
          BY <2>1, <3>11, <4>4 DEF Pushes, At, Carries, Held, RouteWatch, Route3, WorkHeld, IInv, CarriedInv
        <5>2. NewcomerHeld(q) /\ IsSubscription(z, q.sub) /\ z \in Apps \X Products
          BY <2>1, <5>1, WhoseStep DEF Held, ApprovalHeld, RouteWatch, Route3, RoutePcs, AdminOps
        <5>3. i = q.app
          BY <4>0, <4>4, <5>2 DEF NewcomerHeld, KeyAuthOnly
        <5>4. subs[z].status \in {"pending", "active"}
          BY <5>1, <5>2 DEF Ground, StatusHeld
        <5>5. z \in Decided
          BY <2>1, <5>1 DEF Approving, Decided
        <5>. QED  BY <4>0, <5>2, <5>3, <5>4, <5>5 DEF Shown
      <4>5. Admitted' = {x \in Admitted : x[2] # p} \cup {<<a, p>> : a \in S}
        <5>1. \A x \in Apps \X Products :
                 x \in Admitted' <=> IF x[2] = p THEN x[1] \in S ELSE x \in Admitted
          BY <4>2 DEF Admitted
        <5>2. Admitted \subseteq Apps \X Products /\ Admitted' \subseteq Apps \X Products /\ S \subseteq Apps
          BY <4>2, <4>3, <4>4 DEF Admitted
        <5>3. \A x : x \in Admitted' <=> (x \in Admitted /\ x[2] # p) \/ \E a \in S : x = <<a, p>>
          BY <5>1, <5>2
        <5>. QED  BY <5>3
      <4>6. Promise!Rebuild(p)
        <5>1. S \in SUBSET Apps
          BY <4>2, <4>3, <4>4
        <5>2. \A a \in Apps : Shown[<<a, p>>] = "active" => a \in S
          BY <4>2, <4>3
        <5>3. \A a \in S : \/ Shown[<<a, p>>] = "active"
                           \/ Shown[<<a, p>>] = "pending" /\ <<a, p>> \in Decided
          BY <4>2, <4>3, <4>4
        <5>4. UNCHANGED <<Shown, Decided>>
          BY <3>1, <3>2, <4>1
        <5>. QED  BY <4>5, <5>1, <5>2, <5>3, <5>4 DEF Promise!Rebuild, Shown, Decided, Admitted
      <4>. QED  BY <4>6 DEF Promise!AdmissionNext
    <3>12. ~Deprovisions(r) /\ ~Discards(r)
      BY <2>1, WhoseStep DEF Deprovisions, Discards, At, RouteWatch
    <3>13. (UNCHANGED routes \/ Pushes(r) \/ PushesSandbox(r))
           /\ (UNCHANGED subs \/ Inserts(r) \/ Withdraws(r) \/ Undoes(r) \/ Refuses(r) \/ GoesLive(r) \/ Leaves(r))
      BY <2>1, <3>12, Writes
    <3>14. Pushes(r) \/ PushesSandbox(r) => UNCHANGED subs
      BY DEF Pushes, PushesSandbox
    <3>. QED  BY <3>5, <3>6, <3>7, <3>8, <3>9, <3>10, <3>11, <3>13, <3>14
  <2>. QED  BY <1>2, <2>2, <2>3, ApprovalsStep DEF Promise!AdmissionNext, Promise!Pairs
<1>. QED  BY <1>1, <1>2, NextByOne

\* For key-auth products, and while none of them is deleted, the portal implements
\* Admission: every statement and every gateway call of every handler, including
\* those of a request that then fails, is one step of what Admission allows or
\* none; as long as requests do not overlap.
THEOREM PortalImplementsAdmission ==
    ASSUME "deleteProduct" \notin Ops
    PROVE  Spec /\ [](Serial /\ KeyAuthOnly) => ImplementsAdmission
<1>. DEFINE Steps == [Promise!AdmissionNext]_(Promise!avars)
<1>1. Init => Promise!AdmissionInit
  <2>. SUFFICES ASSUME Init PROVE Promise!AdmissionInit
    OBVIOUS
  <2>1. /\ Shown = [x \in Apps \X Products |-> "none"]
        /\ Decided = {} /\ Admitted = {}
    BY DEF Init, Shown, Decided, Admitted, NoSub, NoRoute, Envs
  <2>. QED  BY <2>1 DEF Promise!AdmissionInit, Promise!Pairs, Shown, Decided, Admitted
<1>2. IInv /\ KeyAuthOnly => NoMigrationBack
  BY DEF KeyAuthOnly, NoMigrationBack, IInv, ShapeInv, RequestShape, MayBeAt, At
<1>3. IInv /\ IInv' /\ Serial /\ Serial' /\ Ground /\ Ground' /\ KeyAuthOnly
      /\ ProvisionedInv /\ [Next]_vars => ProvisionedInv' /\ Steps
  <2>. SUFFICES ASSUME IInv, IInv', Serial, Serial', Ground, Ground', KeyAuthOnly, ProvisionedInv, [Next]_vars
                PROVE  ProvisionedInv' /\ Steps
    OBVIOUS
  <2>1. ProvisionedInv'
    BY <1>2, NextProvisioned
  <2>2. Promise!AdmissionNext \/ UNCHANGED <<Shown, Decided, Admitted>>
    BY NextAdmission
  <2>3. UNCHANGED <<Shown, Decided, Admitted>> => UNCHANGED (Promise!avars)
    BY DEF Promise!avars, Shown, Decided, Admitted
  <2>. QED  BY <2>1, <2>2, <2>3
<1>4. IInv /\ IInv' /\ Serial /\ Serial' /\ Ground /\ [Next]_vars => Ground'
  BY NextGround
<1>5. Init => ProvisionedInv
  BY DEF Init, ProvisionedInv, ActiveRow, NoSub
<1>. QED
  BY <1>1, <1>3, <1>4, <1>5, InitGround, Invariance, PTL
  DEF Spec, ImplementsAdmission, Promise!AdmissionSpec

-----------------------------------------------------------------------------
(* No route names a consumer the gateway does not hold, however requests overlap *)

\* The applications with a consumer in each gateway.
Holders == [e \in Envs |-> {a \in Apps : consumers[e][a].key # 0}]

\* A key in flight is a key, and stored after it is installed.
KeyReady(q) ==
    /\ q.pc = "approve.consumer" => q.key # 0
    /\ q.pc = "rotate.save" => consumers[RotatedEnv(q)][q.app].key # 0
    /\ q.pc = "enable.save" => consumers["sandbox"][q.app].key # 0
KeysReady == /\ \A r \in Requests : KeyReady(req[r])
             /\ \A a \in Apps : creds[a].sandboxKey # 0 => consumers["sandbox"][a].key # 0

\* Whom a request is about to admit was installed before.
RouteReady(q) ==
    /\ q.op = "approve" /\ q.pc \in {"approve.product", "approve.clientId"} => q.key = 0
    /\ q.op = "approve" /\ q.key # 0 /\ q.pc \in Route3 \cup {"approve.activate"} => q.extra = {q.app}
    /\ q.pc = "approve.sandbox" => q.extra = {q.app}
    /\ q.op = "approve" /\ q.pc \in Route3 \cup {"approve.activate"} /\ products[q.prod].live
       /\ products[q.prod].auth = "key-auth" => q.extra \cup {q.app} \subseteq Holders["production"]
    /\ q.op = "approve" /\ q.pc = "approve.clientId" /\ products[q.prod].live => products[q.prod].auth # "key-auth"
    /\ q.pc \in EnablePcs => q.extra = {q.app}
    /\ q.pc \in Route3 => q.op # "enableSandbox"
    /\ q.pc \in RouteWatch /\ q.op # "updateProduct" => q.work = {}
    /\ q.pc \in {"route.members", "route.push"} =>
           /\ products[q.prod].live => products[q.prod].auth = q.auth
           /\ q.auth = "key-auth" => q.extra \subseteq Holders["production"]
    /\ q.pc = "route.push" /\ q.auth = "key-auth" => q.allowed \subseteq Holders["production"]
    /\ q.pc \in Sandbox3 => q.extra \subseteq Holders["sandbox"]
    /\ q.pc = "sandbox.push" => q.allowed \subseteq Holders["sandbox"]
ReachInv ==
    /\ \A r \in Requests : RouteReady(req[r])
    /\ \A a \in Apps, p \in Products :
           ActiveRow(a, p) /\ products[p].live /\ products[p].auth = "key-auth" => a \in Holders["production"]
    /\ \A e \in Envs, p \in Products :
           routes[e][p].kind = "key-auth" => routes[e][p].allowed \subseteq Holders[e]

\* No product changes its kind.
NoMigration ==
    \A r \in Requests : At(r, "product.save") /\ products[req[r].prod].live =>
        req[r].row.auth = products[req[r].prod].auth

\* While no application is deleted, nobody who has a consumer loses it.
LEMMA ConsumersStay ==
    ASSUME BaseInv, OpsInv, "deleteApp" \notin Ops, KeysReady, [Next]_vars
    PROVE  \A e \in Envs, a \in Apps : consumers[e][a].key # 0 => consumers'[e][a].key # 0
<1>1. CASE UNCHANGED consumers
  BY <1>1
<1>2. ASSUME NEW r \in Requests, Step(r) \/ Fail(r)
      PROVE  \A e \in Envs, a \in Apps : consumers[e][a].key # 0 => consumers'[e][a].key # 0
  <2>. DEFINE q == req[r]
  <2>1. KeyMove(r) /\ KeyReady(q) /\ RequestShape(q) /\ q.op # "deleteApp" /\ nextKey # 0
    BY <1>2, KeyMoves DEF BaseInv, ShapeInv, KeysReady, OpsInv, TypeOK
  <2>2. q.pc \notin DeletePcs
    BY <2>1 DEF RequestShape, MayBeAt
  <2>3. CASE Admits(r)
    BY <2>1, <2>3 DEF Admits, KeyReady, At, SetsConsumer
  <2>4. CASE Rotates(r)
    BY <2>1, <2>4 DEF Rotates, SetsConsumer
  <2>5. CASE Enables(r)
    BY <2>1, <2>5 DEF Enables, SetsConsumer
  <2>6. CASE Reinstalls(r)
    BY <2>6 DEF Reinstalls, SetsConsumer
  <2>7. ~Clears(r)
    BY <2>2 DEF Clears, At, DeletePcs
  <2>8. CASE Quiet(r) \/ Issues(r) \/ Selects(r) \/ Keeps(r) \/ Forgets(r) \/ Lists(r)
    BY <2>8 DEF Quiet, Issues, Selects, Keeps, Forgets, Lists, KeepsKeys
  <2>. QED  BY <2>1, <2>3, <2>4, <2>5, <2>6, <2>7, <2>8 DEF KeyMove
<1>. QED  BY <1>1, <1>2, NextByOne

\* A key in flight stays one, whatever other requests do.
LEMMA NextKeysReady ==
    ASSUME BaseInv, OpsInv, "deleteApp" \notin Ops, KeysReady, [Next]_vars
    PROVE  KeysReady'
<1>1. /\ \A e \in Envs, a \in Apps : consumers[e][a].key # 0 => consumers'[e][a].key # 0
      /\ Envs = {"production", "sandbox"} /\ TypeOK /\ ShapeInv /\ nextKey # 0 /\ NoCred.sandboxKey = 0
      /\ \A a \in Apps : creds[a] \in CredRow
  BY ConsumersStay DEF BaseInv, Envs, TypeOK, NoCred
<1>2. ASSUME NEW o \in Requests PROVE KeyReady(req[o])'
  <2>. DEFINE q == req[o]
  <2>1. KeyReady(q) /\ RequestShape(q)
    BY <1>1 DEF KeysReady, ShapeInv
  <2>2. CASE req'[o] = req[o]
    <3>1. q.pc = "rotate.save" \/ q.pc = "enable.save" => q.app \in Apps
      BY <2>1 DEF RequestShape, MayBeAt, RotatePcs, EnablePcs, AdminOps
    <3>2. RotatedEnv(q) \in Envs /\ RotatedEnv(req[o])' = RotatedEnv(q)
      BY <1>1, <2>2 DEF RotatedEnv
    <3>. QED  BY <1>1, <2>1, <2>2, <3>1, <3>2 DEF KeyReady
  <2>3. CASE Step(o) \/ Fail(o)
    <3>1. KeyMove(o)
      BY <1>1, <2>3, KeyMoves
    <3>2. CASE Rotates(o)
      <4>1. /\ req'[o].pc = "rotate.save" /\ req'[o].op = q.op /\ req'[o].app = q.app
            /\ q.app \in Apps /\ consumers'[RotatedEnv(q)][q.app].key # 0
        BY <1>1, <3>2 DEF Rotates, SetsConsumer, RotatedEnv
      <4>. QED  BY <4>1 DEF KeyReady, RotatedEnv
    <3>3. CASE Enables(o)
      <4>1. /\ req'[o].pc = "enable.save" /\ req'[o].app = q.app /\ req'[o].key # 0
            /\ consumers'["sandbox"][q.app].key = req'[o].key
        BY <1>1, <3>3 DEF Enables, SetsConsumer
      <4>. QED  BY <4>1 DEF KeyReady
    <3>4. CASE Issues(o)
      BY <1>1, <3>4 DEF Issues, StoresKey, KeyReady, KeyPcs
    <3>5. CASE \/ Quiet(o) \/ Admits(o) \/ Selects(o) \/ Keeps(o) \/ Clears(o) \/ Forgets(o) \/ Lists(o)
               \/ Reinstalls(o)
      <4>1. req'[o].pc \notin {"approve.consumer", "rotate.save", "enable.save"}
        BY <3>5 DEF Quiet, Admits, Selects, Keeps, Clears, Forgets, Lists, Listed, Reinstalls, KeyPcs, At
      <4>. QED  BY <4>1 DEF KeyReady
    <3>. QED  BY <3>1, <3>2, <3>3, <3>4, <3>5 DEF KeyMove
  <2>. QED  BY <2>2, <2>3, EachMoves
<1>3. ASSUME NEW a \in Apps, creds'[a].sandboxKey # 0 PROVE consumers'["sandbox"][a].key # 0
  <2>1. CASE creds'[a].sandboxKey = creds[a].sandboxKey
    BY <1>1, <1>3, <2>1 DEF KeysReady
  <2>2. ASSUME NEW r \in Requests, Step(r) \/ Fail(r), creds'[a].sandboxKey # creds[a].sandboxKey
        PROVE  consumers["sandbox"][a].key # 0
    <3>1. KeyMove(r) /\ KeyReady(req[r])
      BY <1>1, <2>2, KeyMoves DEF KeysReady
    <3>2. ~Issues(r) /\ ~Forgets(r)
      BY <1>1, <1>3, <2>2 DEF Issues, StoresKey, Forgets
    <3>3. CASE Keeps(r)
      BY <2>2, <3>1, <3>3 DEF Keeps, StoresKey, StoresSandboxKey, KeyReady, RotatedEnv, At
    <3>. QED
      BY <2>2, <3>1, <3>2, <3>3
      DEF KeyMove, Quiet, Admits, Selects, Rotates, Enables, Clears, Lists, Reinstalls, KeepsKeys
  <2>. QED  BY <1>1, <2>1, <2>2, NextByOne
<1>. QED  BY <1>2, <1>3 DEF KeysReady

\* While no product changes its kind, a live one was live and of that kind.
LEMMA KindsStay ==
    ASSUME IInv, NoMigration, [Next]_vars, NEW p \in Products, products'[p].live
    PROVE  products[p].live /\ products'[p].auth = products[p].auth
<1>1. CASE UNCHANGED products
  BY <1>1
<1>2. ASSUME NEW r \in Requests, Step(r) \/ Fail(r), SavesEdit(r) \/ Discards(r)
      PROVE  products[p].live /\ products'[p].auth = products[p].auth
  <2>1. NoProduct.live = FALSE
    BY DEF NoProduct
  <2>. QED  BY <1>2, <2>1 DEF SavesEdit, Discards, NoMigration, At
<1>3. ASSUME NEW r \in Requests, Step(r) \/ Fail(r)
      PROVE  UNCHANGED products \/ SavesEdit(r) \/ Discards(r)
  BY <1>3, RouteSteps, Writes DEF IInv
<1>. QED  BY <1>1, <1>2, <1>3, NextByOne

\* Whom a request is about to admit stays reached, and a step prepares what the
\* next one needs.
LEMMA NextRouteReady ==
    ASSUME IInv, IInv', Referenced, OpsInv, "deleteApp" \notin Ops, NoMigration, KeysReady, ReachInv, [Next]_vars,
           NEW r \in Requests
    PROVE  RouteReady(req[r])'
<1>. DEFINE q == req[r]
            s == req'[r]
<1>1. /\ BaseInv /\ TypeOK /\ Envs = {"production", "sandbox"}
      /\ \A p \in Products : products'[p].live => products[p].live /\ products'[p].auth = products[p].auth
      /\ RouteReady(q) /\ KeyReady(q) /\ RequestShape(q) /\ RequestShape(s) /\ Carries(q) /\ Carries(req[r])'
      /\ \A p \in Products : products[p].auth \in {"key-auth", "oauth2"}
  BY KindsStay
  DEF IInv, BaseInv, ShapeInv, CarriedInv, KeysReady, ReachInv, Envs, TypeOK, ProductRow, AuthTypes
<1>2. \A e \in Envs : Holders[e] \subseteq Holders'[e]
  BY <1>1, ConsumersStay DEF Holders
<1>3. /\ q.pc \in RoutePcs \cup ApprovePcs => q.prod \in Products
      /\ q.op \in {"approve", "enableSandbox"} => q.app \in Apps
  BY <1>1 DEF RequestShape, MayBeAt, RoutePcs, ApprovePcs, AdminOps
<1>4. CASE req'[r] = req[r]
  BY <1>1, <1>2, <1>3, <1>4 DEF RouteReady, Route3, RoutePcs, ApprovePcs
<1>5. CASE Step(r) \/ Fail(r)
  <2>1. RouteMove(r)
    BY <1>1, <1>5, RouteSteps DEF BaseInv
  <2>2. ASSUME s = NoReq PROVE RouteReady(req[r])'
    BY <2>2, NoReqType DEF RouteReady, Route3, Sandbox3, EnablePcs, RouteWatch, DeletePcs
  <2>3. ASSUME s.pc \notin RouteWatch PROVE RouteReady(req[r])'
    BY <2>3 DEF RouteReady, Route3, Sandbox3, EnablePcs, RouteWatch
  <2>4. /\ q.op \notin {"approve", "enableSandbox"} => q.extra = {}
        /\ s.op \notin {"approve", "enableSandbox"} => s.extra = {}
        /\ q.allowed # {} => q.pc \in {"route.push", "sandbox.push"}
    BY <1>1 DEF Carries, RequestShape
  \* On behalf of others than these two, a subroutine starts carrying nobody.
  <2>5. ASSUME s.op \notin {"approve", "enableSandbox"}, s.work = {} \/ s.op = "updateProduct",
               s.pc \in DeletePcs \cup {"route.product", "sandbox.product", "reject.set", "oidc.products",
                         "product.save", "product.count", "product.delete", "product.deprovision"}
        PROVE  RouteReady(req[r])'
    BY <2>4, <2>5 DEF RouteReady, Route3, Sandbox3, EnablePcs, DeletePcs
  <2>6. CASE Ends(r) \/ Inserts(r) \/ Leaves(r) \/ Deprovisions(r) \/ Passes(r)
    BY <2>2, <2>3, <2>6 DEF Ends, Inserts, Leaves, Deprovisions, Passes
  <2>7. CASE \/ Withdraws(r) \/ Registers(r) \/ Retires(r) \/ Discontinues(r)
             \/ Reviews(r) /\ s.op = "reject"
    BY <2>5, <2>7 DEF Withdraws, Registers, Retires, Discontinues, Reviews, Fresh, DeletePcs
  <2>8. CASE Reviews(r) /\ s.op = "approve"
    BY <2>8 DEF Reviews, Fresh, RouteReady, Route3, Sandbox3, EnablePcs
  <2>9. CASE Opts(r)
    BY <2>9 DEF Opts, Fresh, RouteReady, Route3, Sandbox3
  <2>10. CASE Edited(r)
    BY <2>5, <2>10 DEF Edited
  <2>11. CASE Undoes(r) \/ Cleans(r) \/ Refuses(r) \/ Discards(r) \/ ListsProducts(r)
    <3>1. q.pc \in DeletePcs \cup {"reject.set", "product.delete", "oidc.products"}
      BY <2>11 DEF Undoes, Cleans, Refuses, Discards, ListsProducts, At, DeletePcs
    <3>2. q.op \in {"deleteApp", "reject", "deleteProduct", "setOidc"}
      BY <1>1, <3>1 DEF RequestShape, MayBeAt
    <3>3. q.work = {}
      BY <1>1, <3>1, <3>2 DEF RouteReady, RouteWatch
    <3>4. s = NoReq \/ (s.op = q.op /\ s.work = q.work /\ s.pc \in DeletePcs \cup {"route.product", "product.deprovision"})
      BY <2>11, <3>1 DEF Undoes, Cleans, Refuses, Discards, ListsProducts, SameJob, Same
    <3>. QED  BY <2>2, <2>5, <3>2, <3>3, <3>4
  <2>12. CASE Looks(r) \/ LooksUp(r) \/ Credits(r) \/ Installs(r)
    <3>1. /\ q.op = "approve" /\ q.work = {} /\ s.op = q.op /\ s.work = q.work /\ s.app = q.app /\ s.prod = q.prod
          /\ q.prod \in Products /\ q.app \in Apps
          /\ q.pc \in {"approve.product", "approve.clientId", "approve.credential", "approve.consumer"}
      <4>1. q.pc \in {"approve.product", "approve.clientId", "approve.credential", "approve.consumer"}
        BY <2>12 DEF Looks, LooksUp, Credits, Installs, At
      <4>2. q.op = "approve" /\ q.prod \in Products /\ q.app \in Apps
        BY <1>1, <1>3, <4>1 DEF RequestShape, MayBeAt, ApprovePcs
      <4>3. q.work = {}
        BY <1>1, <4>1, <4>2 DEF RouteReady, RouteWatch
      <4>. QED  BY <2>12, <4>1, <4>2, <4>3 DEF Looks, LooksUp, Credits, Installs, SameApproval
    <3>2. CASE Looks(r)
      BY <1>1, <3>1, <3>2 DEF Looks, At, RouteReady, Route3, Sandbox3, EnablePcs
    <3>3. CASE LooksUp(r)
      BY <1>1, <3>1, <3>3 DEF LooksUp, At, RouteReady, Route3, Sandbox3, EnablePcs
    <3>4. CASE Credits(r)
      BY <1>1, <3>1, <3>4 DEF Credits, At, RouteReady, Route3, Sandbox3, EnablePcs
    <3>5. CASE Installs(r)
      <4>1. q.app \in Holders'["production"]
        BY <1>1, <3>1, <3>5 DEF Installs, At, SetsConsumer, KeyReady, Holders
      <4>. QED  BY <3>1, <3>5, <4>1 DEF Installs, RouteReady, Route3, Sandbox3, EnablePcs
    <3>. QED  BY <2>12, <3>2, <3>3, <3>4, <3>5
  <2>13. CASE GoesLive(r)
    BY <1>1, <2>2, <2>3, <2>13
    DEF GoesLive, At, RouteReady, Route3, Sandbox3, EnablePcs, DeletePcs, RouteWatch, SameJob, Same, RequestShape,
        MayBeAt, ApprovePcs
  <2>14. CASE AsksSandbox(r)
    <3>1. /\ q.op = "approve" /\ q.app \in Apps /\ q.extra = {q.app} /\ q.work = {}
          /\ s.op = "approve" /\ s.extra = q.extra /\ s.work = {}
      BY <1>1, <1>3, <2>14
      DEF AsksSandbox, At, RequestShape, MayBeAt, ApprovePcs, RouteReady, RouteWatch, SameJob, Same
    <3>2. CASE s.pc = "sandbox.product"
      <4>1. q.app \in Holders["sandbox"]
        BY <1>1, <2>14, <3>1, <3>2 DEF AsksSandbox, KeysReady, Holders
      <4>. QED  BY <1>1, <1>2, <3>1, <3>2, <4>1 DEF RouteReady, Route3, Sandbox3, EnablePcs
    <3>. QED  BY <2>3, <2>14, <3>2 DEF AsksSandbox, RouteWatch, Route3, Sandbox3, EnablePcs, DeletePcs
  <2>15. CASE OptsIn(r)
    BY <1>1, <2>15
    DEF OptsIn, At, RouteReady, SameApproval, Route3, Sandbox3, EnablePcs, RequestShape, MayBeAt, RouteWatch
  <2>16. CASE OptedIn(r)
    <3>1. q.app \in Holders["sandbox"] /\ q.op = "enableSandbox" /\ q.extra = {q.app} /\ q.work = {}
      BY <1>1, <1>3, <2>16 DEF OptedIn, At, KeyReady, RequestShape, MayBeAt, EnablePcs, RouteReady, RouteWatch, Holders
    <3>2. CASE TakesNext(r, "sandbox.product")
      BY <1>1, <1>2, <3>1, <3>2 DEF TakesNext, Same, RouteReady, Route3, Sandbox3, EnablePcs
    <3>. QED  BY <2>2, <2>16, <3>2 DEF OptedIn
  <2>17. CASE SavesEdit(r) \/ Counts(r)
    <3>1. q.op = "updateProduct" /\ q.extra = {}
      BY <1>1, <2>4, <2>17 DEF SavesEdit, Counts, At, RequestShape, MayBeAt
    <3>2. s = NoReq \/ (SameJob(q, s) /\ s.pc \in {"product.count", "route.product", "sandbox.product"})
      BY <2>17 DEF SavesEdit, Counts, Remains
    <3>. QED  BY <2>2, <2>5, <3>1, <3>2 DEF SameJob, Same
  <2>18. CASE ReadsProduct(r)
    <3>1. /\ q.pc = "route.product" /\ s.pc = "route.members" /\ SameJob(q, s) /\ q.prod \in Products
          /\ s.auth = products[q.prod].auth /\ products[q.prod].live /\ UNCHANGED products
      BY <1>3, <2>18 DEF ReadsProduct, At, RoutePcs, Lasting
    <3>2. s.auth = "key-auth" => q.extra \subseteq Holders'["production"]
      BY <1>1, <1>2, <2>4, <3>1 DEF RouteReady, Route3
    <3>. QED
      BY <1>1, <1>2, <3>1, <3>2 DEF RouteReady, Route3, Sandbox3, EnablePcs, RouteWatch, SameJob, Same
  <2>19. CASE ListsMembers(r)
    <3>1. /\ q.pc = "route.members" /\ s.pc = "route.push" /\ SameJob(q, s) /\ q.prod \in Products
          /\ s.auth = q.auth /\ s.allowed = RouteAllowed(q) /\ UNCHANGED products
      BY <1>3, <2>19 DEF ListsMembers, At, RoutePcs, Lasting
    <3>2. q.auth = "key-auth" => ConsumersForProduct(q.prod) \subseteq Holders["production"]
      <4>1. ASSUME q.auth = "key-auth", NEW a \in ConsumersForProduct(q.prod) PROVE a \in Holders["production"]
        <5>1. a \in Apps /\ ActiveRow(a, q.prod) /\ subs[<<a, q.prod>>] # NoSub
          BY <4>1 DEF ConsumersForProduct, ActiveApps, ActiveRow, NoSub
        <5>2. products[q.prod].live /\ products[q.prod].auth = "key-auth"
          BY <1>1, <3>1, <4>1, <5>1 DEF Referenced, RouteReady
        <5>. QED  BY <3>1, <5>1, <5>2 DEF ReachInv
      <4>. QED  BY <4>1
    <3>3. s.auth = "key-auth" => s.allowed \subseteq Holders'["production"] /\ q.extra \subseteq Holders'["production"]
      BY <1>1, <1>2, <3>1, <3>2 DEF RouteAllowed, RouteReady
    <3>. QED
      BY <1>1, <1>2, <3>1, <3>3 DEF RouteReady, Route3, Sandbox3, EnablePcs, RouteWatch, SameJob, Same
  <2>20. CASE Pushes(r)
    <3>1. /\ q.pc = "route.push" /\ UNCHANGED products /\ q.prod \in Products
          /\ q.op # "updateProduct" => q.work = {}
      BY <1>1, <1>3, <2>20 DEF Pushes, At, RoutePcs, RouteReady, RouteWatch, Route3
    <3>2. CASE s = NoReq
      BY <2>2, <3>2
    <3>3. CASE /\ SameJob(q, s) /\ s.pc \in {"sandbox.product", "delete.next"}
               /\ q.op \in {"unsubscribe", "reject", "deleteApp", "updateProduct"}
      BY <2>5, <3>1, <3>3 DEF SameJob, Same, DeletePcs
    <3>4. CASE TakesNext(r, "route.product") /\ q.op = "setOidc"
      BY <2>5, <3>1, <3>4 DEF TakesNext, Same
    <3>5. CASE SameJob(q, s) /\ s.pc = "approve.activate" /\ q.op = "approve"
      BY <1>1, <1>2, <3>1, <3>5 DEF RouteReady, Route3, Sandbox3, EnablePcs, RouteWatch, SameJob, Same
    <3>6. "sandbox" \in q.work => q.op = "updateProduct"
      BY <3>1
    <3>. QED  BY <2>20, <3>2, <3>3, <3>4, <3>5, <3>6 DEF Pushes
  <2>21. CASE ReadsSandbox(r) \/ ListsSandbox(r)
    <3>1. /\ q.pc \in {"sandbox.product", "sandbox.members"} /\ s.pc \in {"sandbox.members", "sandbox.push"}
          /\ SameJob(q, s) /\ q.prod \in Products
      BY <1>3, <2>21 DEF ReadsSandbox, ListsSandbox, At, RoutePcs
    <3>2. SandboxConsumersForProduct(q.prod) \subseteq Holders["sandbox"]
      BY <1>1 DEF SandboxConsumersForProduct, ActiveApps, KeysReady, Holders
    <3>3. q.extra \subseteq Holders["sandbox"] /\ q.allowed = {}
      BY <1>1, <2>4, <3>1 DEF RouteReady, Sandbox3
    <3>4. s.allowed \subseteq Holders["sandbox"]
      BY <2>21, <3>2, <3>3 DEF ReadsSandbox, ListsSandbox
    <3>. QED
      BY <1>1, <1>2, <3>1, <3>3, <3>4 DEF RouteReady, Route3, Sandbox3, EnablePcs, RouteWatch, SameJob, Same
  <2>22. CASE PushesSandbox(r)
    <3>1. q.pc = "sandbox.push" /\ (q.op # "updateProduct" => q.work = {}) /\ q.extra \subseteq Holders["sandbox"]
      BY <1>1, <2>22 DEF PushesSandbox, At, RouteReady, RouteWatch, Sandbox3
    <3>2. CASE TakesNext(r, "sandbox.product") /\ q.op = "enableSandbox"
      BY <1>1, <1>2, <3>1, <3>2 DEF RouteReady, Route3, Sandbox3, EnablePcs, RouteWatch, TakesNext, Same
    <3>3. CASE SameJob(q, s) /\ s.pc = "delete.next" /\ q.op = "deleteApp"
      BY <2>5, <3>1, <3>3 DEF SameJob, Same, DeletePcs
    <3>4. CASE s.pc = "bill.pricing"
      BY <2>3, <3>4 DEF RouteWatch, Route3, Sandbox3, EnablePcs, DeletePcs
    <3>. QED  BY <2>2, <2>22, <3>2, <3>3, <3>4 DEF PushesSandbox
  <2>. QED
    BY <2>1, <2>6, <2>7, <2>8, <2>9, <2>10, <2>11, <2>12, <2>13, <2>14, <2>15, <2>16, <2>17, <2>18, <2>19,
       <2>20, <2>21, <2>22 DEF RouteMove, Reviews, Fresh
<1>. QED  BY <1>1, <1>4, <1>5, EachMoves

\* What the routes name stays reached, however requests overlap and fail.
LEMMA NextReach ==
    ASSUME IInv, IInv', Referenced, OpsInv, "deleteApp" \notin Ops, NoMigration, KeysReady, ReachInv, [Next]_vars
    PROVE  ReachInv'
<1>1. /\ BaseInv /\ TypeOK /\ RowInv /\ ApprovalInv /\ ApprovingInv /\ SubsEffect /\ Envs = {"production", "sandbox"}
      /\ \A p \in Products : products'[p].live => products[p].live /\ products'[p].auth = products[p].auth
      /\ \A e \in Envs : Holders[e] \subseteq Holders'[e]
  BY ConsumersStay, KindsStay, NextEffect DEF IInv, BaseInv, Effect, Envs, Holders
<1>2. \A r \in Requests : RouteReady(req[r])'
  BY NextRouteReady
<1>3. ASSUME NEW a \in Apps, NEW p \in Products, subs'[<<a, p>>].status = "active", products'[p].live,
             products'[p].auth = "key-auth"
      PROVE  a \in Holders["production"]
  <2>. DEFINE x == <<a, p>>
  <2>1. products[p].live /\ products[p].auth = "key-auth"
    BY <1>1, <1>3
  <2>2. CASE subs'[x] = subs[x]
    BY <1>3, <2>1, <2>2 DEF ReachInv, ActiveRow
  <2>3. ASSUME NEW r \in Requests, Activates(r), SetTo(x, req[r].sub, "active")
        PROVE  a \in Holders["production"]
    <3>1. a = req[r].app /\ p = req[r].prod
      BY <1>1, <2>3, ApprovedPair DEF Activates, SetTo, IsSubscription
    <3>. QED  BY <2>1, <2>3, <3>1 DEF Activates, At, ReachInv, RouteReady
  <2>. QED  BY <1>1, <1>3, <2>2, <2>3, RowAfter DEF SavedBy, SetTo, NoSub
<1>4. ASSUME NEW e \in Envs, NEW p \in Products, routes'[e][p].kind = "key-auth"
      PROVE  routes'[e][p].allowed \subseteq Holders[e]
  <2>1. CASE UNCHANGED routes
    BY <1>4, <2>1 DEF ReachInv
  <2>2. ASSUME NEW r \in Requests, Step(r) \/ Fail(r)
        PROVE  routes'[e][p].allowed \subseteq Holders[e]
    <3>. DEFINE q == req[r]
    <3>1. RouteMove(r) /\ RouteReady(q) /\ NoRoute.allowed = {}
      BY <1>1, <2>2, RouteSteps DEF ReachInv, BaseInv, NoRoute
    <3>2. CASE Deprovisions(r)
      BY <1>4, <3>1, <3>2 DEF Deprovisions, SetsRoute, ReachInv
    <3>3. CASE Pushes(r)
      BY <1>1, <1>4, <3>1, <3>3 DEF Pushes, At, SetsRoute, RouteFor, ReachInv, RouteReady
    <3>4. CASE PushesSandbox(r)
      BY <1>1, <1>4, <3>1, <3>4 DEF PushesSandbox, At, SetsRoute, RouteFor, ReachInv, RouteReady
    <3>. QED  BY <2>1, <3>1, <3>2, <3>3, <3>4, Writes
  <2>. QED  BY <2>1, <2>2, NextByOne
<1>. QED  BY <1>1, <1>2, <1>3, <1>4 DEF ReachInv, ActiveRow

\* Approve and EnableSandbox install the consumer before any route names it:
\* however many requests overlap and whichever of them fail, a key-auth route
\* never names a consumer the gateway does not hold, as long as no application is
\* deleted and no product changes its kind.
THEOREM ConsumersComeFirst ==
    ASSUME "deleteApp" \notin Ops
    PROVE  Spec /\ []NoMigration => []ConsumerBeforeRoute
<1>. DEFINE Aux == OpsInv /\ EditHeld /\ Referenced /\ KeysReady /\ ReachInv
<1>1. Init => Aux
  <2>. SUFFICES ASSUME Init PROVE Aux
    OBVIOUS
  <2>1. OpsInv /\ EditHeld /\ Referenced
    BY NoReqType DEF Init, OpsInv, EditHeld, Referenced
  <2>2. KeysReady
    BY NoReqType DEF Init, KeysReady, KeyReady, NoCred
  <2>3. ReachInv
    BY NoReqType
    DEF Init, ReachInv, RouteReady, Route3, Sandbox3, EnablePcs, RouteWatch, DeletePcs, ActiveRow, NoSub, NoRoute, Envs
  <2>. QED  BY <2>1, <2>2, <2>3
<1>2. IInv /\ IInv' /\ NoMigration /\ Aux /\ [Next]_vars => Aux'
  BY NextOps, NextEditHeld, NextReferenced, NextKeysReady, NextReach DEF IInv, BaseInv
<1>3. ReachInv => ConsumerBeforeRoute
  BY DEF ReachInv, ConsumerBeforeRoute, Holders, NoConsumer
<1>. HIDE DEF Aux
<1>4. Aux => ReachInv
  BY DEF Aux
<1>. QED  BY <1>1, <1>2, <1>3, <1>4, Invariance, PTL DEF Spec

-----------------------------------------------------------------------------
(* Rate limits *)

\* Which handlers' statements come at these points.
LEMMA StepAt ==
    ASSUME TypeOK, ShapeInv, NEW r \in Requests, Step(r)
    PROVE  /\ At(r, "approve.product") => ApproveProduct(r)
           /\ At(r, "approve.credential") => ApproveCredential(r)
           /\ At(r, "approve.consumer") => ApproveConsumer(r)
           /\ At(r, "rotate.consumer") => RotateConsumer(r)
           /\ req[r].pc \in PlanPcs => PlanNext(r)
<1>. DEFINE pc == req[r].pc
            Points == {"approve.product", "approve.credential", "approve.consumer", "rotate.consumer"} \cup PlanPcs
<1>. SUFFICES ASSUME pc \in Points
              PROVE  \/ pc = "approve.product" /\ ApproveProduct(r)
                     \/ pc = "approve.credential" /\ ApproveCredential(r)
                     \/ pc = "approve.consumer" /\ ApproveConsumer(r)
                     \/ pc = "rotate.consumer" /\ RotateConsumer(r)
                     \/ pc \in PlanPcs /\ PlanNext(r)
  BY DEF At, PlanPcs
<1>1. ~Idle(r) /\ pc # "idle"
  BY NoReqType DEF Idle, ShapeInv, RequestShape, PlanPcs
<1>2. ~RouteNext(r)
  BY DEF At, RouteNext, RouteProduct, RouteMembers, RoutePush, SandboxProduct, SandboxMembers, SandboxPush, PlanPcs
<1>3. ~ProductNext(r)
  BY <1>1
  DEF At, ProductNext, UpdateProduct, DeleteProduct, Begin, ProductSave, ProductCount, ProductDelete,
      ProductDeprovision, PlanPcs
<1>4. ASSUME SubscriptionNext(r)
      PROVE  \/ pc = "approve.product" /\ ApproveProduct(r)
             \/ pc = "approve.credential" /\ ApproveCredential(r)
             \/ pc = "approve.consumer" /\ ApproveConsumer(r)
  <2>1. ApproveProduct(r) \/ ApproveCredential(r) \/ ApproveConsumer(r)
    BY <1>1, <1>4
    DEF At, SubscriptionNext, Subscribe, Unsubscribe, Reject, Approve, Begin, SubscribeCredential, SubscribeSave,
        RejectSet, ApproveClientId, ApproveActivate, ApproveSandbox, BillPricing, BillCreate, PlanPcs
  <2>. QED  BY <2>1 DEF ApproveProduct, ApproveCredential, ApproveConsumer, At
<1>5. ASSUME CredentialsNext(r)
      PROVE  pc = "rotate.consumer" /\ RotateConsumer(r)
  <2>1. RotateConsumer(r)
    BY <1>1, <1>5
    DEF At, CredentialsNext, Rotate, RotateSandbox, EnableSandbox, DeleteApp, SetOidc, Begin, RotateSave,
        EnableConsumer, EnableSave, OidcProducts, DeleteNext, DeleteCredential, DeleteConsumer, DeleteSandboxKey,
        DeleteSandboxConsumer, DeleteRow, PlanPcs
  <2>. QED  BY <2>1 DEF RotateConsumer, At
<1>6. ASSUME PlanNext(r) PROVE pc \in PlanPcs
  BY <1>1, <1>6
  DEF PlanNext, UpdatePlan, DeletePlan, Begin, PlanSave, PlanRead, PlanConsumers, PlanPush, PlanSandboxConsumers,
      PlanSandboxPush, PlanDelete, At, PlanPcs
<1>. QED  BY <1>2, <1>3, <1>4, <1>5, <1>6 DEF Step

\* A rotation and an edit of a plan are started, and gone on with, by their own
\* statements.
LEMMA OwnSteps ==
    ASSUME TypeOK, ShapeInv, NEW r \in Requests, Step(r), req[r].pc \notin RoutePcs
    PROVE  /\ req'[r].op = "updatePlan" => PlanNext(r)
           /\ req'[r].op = "rotate" => \/ \E a \in Apps : Rotate(r, a)
                                       \/ RotateConsumer(r) \/ RotateSave(r)
<1>. DEFINE q == req[r]
            s == req'[r]
<1>1. ~RouteNext(r)
  BY DEF At, RouteNext, RouteProduct, RouteMembers, RoutePush, SandboxProduct, SandboxMembers, SandboxPush, RoutePcs
<1>2. RequestShape(q) /\ TypeOK
  BY DEF ShapeInv
<1>3. Moves(r)
  BY <1>1, SubscriptionMoves, CredentialsMoves, ProductMoves, PlanMoves DEF Step
<1>4. CASE Idle(r)
  <2>1. q.pc = "idle"
    BY <1>2, <1>4, NoReqType DEF Idle, RequestShape
  <2>2. SubscriptionNext(r) => s.op \in {"subscribe", "unsubscribe", "reject", "approve"}
    <3>1. SubscriptionNext(r) =>
              \/ \E a \in Apps, p \in Products, pl \in Plans : Subscribe(r, a, p, pl)
              \/ \E a \in Apps, p \in Products : Unsubscribe(r, a, p) \/ Reject(r, a, p) \/ Approve(r, a, p)
      BY <2>1 DEF At, SubscriptionNext, SubscribeCredential, SubscribeSave, RejectSet, ApproveProduct,
         ApproveClientId, ApproveCredential, ApproveConsumer, ApproveActivate, ApproveSandbox, BillPricing, BillCreate
    <3>2. ASSUME NEW a \in Apps, NEW p \in Products, NEW pl \in Plans, Subscribe(r, a, p, pl) PROVE s.op = "subscribe"
      BY <1>2, <3>2 DEF Subscribe, Begin, TypeOK, NoReq
    <3>3. ASSUME NEW a \in Apps, NEW p \in Products PROVE Unsubscribe(r, a, p) => s.op = "unsubscribe"
      BY <1>2 DEF Unsubscribe, Begin, TypeOK, NoReq
    <3>4. ASSUME NEW a \in Apps, NEW p \in Products PROVE Reject(r, a, p) => s.op = "reject"
      BY <1>2 DEF Reject, Begin, TypeOK, NoReq
    <3>5. ASSUME NEW a \in Apps, NEW p \in Products PROVE Approve(r, a, p) => s.op = "approve"
      BY <1>2 DEF Approve, Begin, TypeOK, NoReq
    <3>. QED  BY <3>1, <3>2, <3>3, <3>4, <3>5
  <2>3. CredentialsNext(r) =>
            (\E a \in Apps : Rotate(r, a)) \/ s.op \in {"rotateSandbox", "enableSandbox", "deleteApp", "setOidc"}
    <3>1. CredentialsNext(r) =>
              \E a \in Apps : \/ Rotate(r, a) \/ RotateSandbox(r, a) \/ EnableSandbox(r, a) \/ DeleteApp(r, a)
                              \/ \E c \in ClientIds \cup {None} : SetOidc(r, a, c)
      BY <2>1 DEF At, CredentialsNext, RotateConsumer, RotateSave, EnableConsumer, EnableSave, OidcProducts,
         DeleteNext, DeleteCredential, DeleteConsumer, DeleteSandboxKey, DeleteSandboxConsumer, DeleteRow
    <3>2. ASSUME NEW a \in Apps PROVE RotateSandbox(r, a) => s.op = "rotateSandbox"
      BY <1>2 DEF RotateSandbox, Begin, TypeOK, NoReq
    <3>3. ASSUME NEW a \in Apps PROVE EnableSandbox(r, a) => s.op = "enableSandbox"
      BY <1>2 DEF EnableSandbox, Begin, TypeOK, NoReq
    <3>4. ASSUME NEW a \in Apps PROVE DeleteApp(r, a) => s.op = "deleteApp"
      BY <1>2 DEF DeleteApp, Begin, TypeOK, NoReq
    <3>5. ASSUME NEW a \in Apps, NEW c PROVE SetOidc(r, a, c) => s.op = "setOidc"
      BY <1>2 DEF SetOidc, Begin, TypeOK, NoReq
    <3>. QED  BY <3>1, <3>2, <3>3, <3>4, <3>5
  <2>4. ProductNext(r) => s.op \in {"updateProduct", "deleteProduct"}
    <3>1. ProductNext(r) =>
              \/ \E p \in Products, row \in Edits, moved \in SUBSET {"upstream", "sandbox"} :
                    UpdateProduct(r, p, row, moved)
              \/ \E p \in Products : DeleteProduct(r, p)
      BY <2>1 DEF At, ProductNext, ProductSave, ProductCount, ProductDelete, ProductDeprovision
    <3>2. ASSUME NEW p \in Products, NEW row \in Edits, NEW moved \in SUBSET {"upstream", "sandbox"}
          PROVE  UpdateProduct(r, p, row, moved) => s.op = "updateProduct"
      BY <1>2 DEF UpdateProduct, Begin, TypeOK, NoReq
    <3>3. ASSUME NEW p \in Products PROVE DeleteProduct(r, p) => s.op = "deleteProduct"
      BY <1>2 DEF DeleteProduct, Begin, TypeOK, NoReq
    <3>. QED  BY <3>1, <3>2, <3>3
  <2>5. PlanNext(r) => s.op \in {"updatePlan", "deletePlan"}
    <3>1. PlanNext(r) => \E pl \in Plans : UpdatePlan(r, pl) \/ DeletePlan(r, pl)
      BY <2>1 DEF At, PlanNext, PlanSave, PlanRead, PlanConsumers, PlanPush, PlanSandboxConsumers, PlanSandboxPush,
         PlanDelete
    <3>2. ASSUME NEW pl \in Plans PROVE UpdatePlan(r, pl) => s.op = "updatePlan"
      BY <1>2 DEF UpdatePlan, Begin, TypeOK, NoReq
    <3>3. ASSUME NEW pl \in Plans PROVE DeletePlan(r, pl) => s.op = "deletePlan"
      BY <1>2 DEF DeletePlan, Begin, TypeOK, NoReq
    <3>. QED  BY <3>1, <3>2, <3>3
  <2>6. s.op = "rotate" => CredentialsNext(r) /\ s.op \notin {"rotateSandbox", "enableSandbox", "deleteApp", "setOidc"}
    BY <1>1, <2>2, <2>4, <2>5 DEF Step
  <2>7. s.op = "updatePlan" => ~CredentialsNext(r) \/ \E a \in Apps : Rotate(r, a)
    BY <2>3
  <2>8. ASSUME NEW a \in Apps, Rotate(r, a) PROVE s.op = "rotate"
    BY <1>2, <2>8 DEF Rotate, Begin, TypeOK, NoReq
  <2>9. s.op = "updatePlan" => PlanNext(r)
    BY <1>1, <2>2, <2>4, <2>7, <2>8 DEF Step
  <2>. QED  BY <2>3, <2>6, <2>9, Zenon
<1>5. CASE ~Idle(r) /\ s.op = q.op /\ q.op = "updatePlan"
  <2>1. ~SubscriptionNext(r)
    BY <1>2, <1>5
    DEF At, SubscriptionNext, Subscribe, Unsubscribe, Reject, Approve, Begin, SubscribeCredential, SubscribeSave,
        RejectSet, ApproveProduct, ApproveClientId, ApproveCredential, ApproveConsumer, ApproveActivate,
        ApproveSandbox, BillPricing, BillCreate, RequestShape, MayBeAt, ApprovePcs
  <2>2. ~CredentialsNext(r)
    BY <1>2, <1>5
    DEF At, CredentialsNext, Rotate, RotateSandbox, EnableSandbox, DeleteApp, SetOidc, Begin, RotateConsumer,
        RotateSave, EnableConsumer, EnableSave, OidcProducts, DeleteNext, DeleteCredential, DeleteConsumer,
        DeleteSandboxKey, DeleteSandboxConsumer, DeleteRow, RequestShape, MayBeAt, RotatePcs, EnablePcs, DeletePcs
  <2>3. ~ProductNext(r)
    BY <1>2, <1>5
    DEF At, ProductNext, UpdateProduct, DeleteProduct, Begin, ProductSave, ProductCount, ProductDelete,
        ProductDeprovision, RequestShape, MayBeAt
  <2>. QED  BY <1>1, <1>5, <2>1, <2>2, <2>3 DEF Step
<1>6. CASE ~Idle(r) /\ s.op = q.op /\ q.op = "rotate"
  <2>1. ~SubscriptionNext(r)
    BY <1>2, <1>6
    DEF At, SubscriptionNext, Subscribe, Unsubscribe, Reject, Approve, Begin, SubscribeCredential, SubscribeSave,
        RejectSet, ApproveProduct, ApproveClientId, ApproveCredential, ApproveConsumer, ApproveActivate,
        ApproveSandbox, BillPricing, BillCreate, RequestShape, MayBeAt, ApprovePcs
  <2>2. CredentialsNext(r) => RotateConsumer(r) \/ RotateSave(r)
    BY <1>2, <1>6
    DEF At, CredentialsNext, Rotate, RotateSandbox, EnableSandbox, DeleteApp, SetOidc, Begin,
        EnableConsumer, EnableSave, OidcProducts, DeleteNext, DeleteCredential, DeleteConsumer,
        DeleteSandboxKey, DeleteSandboxConsumer, DeleteRow, RequestShape, MayBeAt, EnablePcs, DeletePcs
  <2>3. ~ProductNext(r)
    BY <1>2, <1>6
    DEF At, ProductNext, UpdateProduct, DeleteProduct, Begin, ProductSave, ProductCount, ProductDelete,
        ProductDeprovision, RequestShape, MayBeAt
  <2>4. ~PlanNext(r)
    BY <1>2, <1>6
    DEF At, PlanNext, UpdatePlan, DeletePlan, Begin, PlanSave, PlanRead, PlanConsumers, PlanPush,
        PlanSandboxConsumers, PlanSandboxPush, PlanDelete, RequestShape, MayBeAt, PlanPcs
  <2>. QED  BY <1>1, <1>6, <2>1, <2>2, <2>3, <2>4 DEF Step
<1>7. CASE Finish(r)
  BY <1>2, <1>7, FinishFields, NoReqType
<1>. QED  BY <1>3, <1>4, <1>5, <1>6, <1>7 DEF Moves, Continues, Starts

\* A production consumer gets a limit; all keep theirs.
InstallsLimit(a, l) ==
    \A b \in Apps : consumers'["production"][b].limit =
                        IF b = a THEN l ELSE consumers["production"][b].limit
KeepsLimits == \A b \in Apps : consumers'["production"][b].limit = consumers["production"][b].limit

\* What installing a consumer makes of the limits.
LEMMA LimitInstalled ==
    ASSUME TypeOK, NEW a \in Apps, NEW k, NEW l
    PROVE  /\ EnsureConsumer("production", a, k, l) => InstallsLimit(a, l)
           /\ EnsureConsumer("sandbox", a, k, l) => KeepsLimits
<1>. DEFINE c == [key |-> k, limit |-> l]
<1>1. c.limit = l /\ "production" \in Envs /\ "sandbox" \in Envs
  BY DEF Envs
<1>. HIDE DEF c
<1>2. ASSUME NEW e \in Envs, consumers' = [consumers EXCEPT ![e] = [consumers[e] EXCEPT ![a] = c]]
      PROVE  /\ e = "production" => InstallsLimit(a, l)
             /\ e = "sandbox" => KeepsLimits
  <2>1. CASE e = "production"
    BY <1>1, <1>2, <2>1 DEF TypeOK, InstallsLimit
  <2>2. CASE e = "sandbox"
    BY <1>1, <1>2, <2>2 DEF TypeOK, KeepsLimits
  <2>. QED  BY <2>1, <2>2
<1>. QED  BY <1>1, <1>2 DEF EnsureConsumer, c

\* The limits of the production gateway change only where Approve, RotateKey and
\* ReprovisionPlan install a consumer, or one is dropped.
LEMMA LimitsElsewhere ==
    ASSUME TypeOK, ShapeInv, NEW r \in Requests, Step(r),
           req[r].pc \notin {"approve.consumer", "rotate.consumer", "plan.push"},
           NEW a \in Apps, ~(At(r, "delete.consumer") /\ req[r].app = a)
    PROVE  consumers'["production"][a] = consumers["production"][a]
<1>1. KeyMove(r) /\ Envs = {"production", "sandbox"}
  BY KeyMoves DEF Envs
<1>2. CASE Enables(r)
  BY <1>1, <1>2 DEF Enables, SetsConsumer
<1>3. CASE Clears(r)
  BY <1>1, <1>3 DEF Clears, Drops
<1>4. CASE Reinstalls(r)
  BY <1>1, <1>4 DEF Reinstalls, At, SetsConsumer
<1>. QED
  BY <1>1, <1>2, <1>3, <1>4
  DEF KeyMove, Quiet, Issues, Admits, Selects, Rotates, Keeps, Forgets, Lists, KeepsKeys, At

\* A request writes the plan table only where Update saves its row and Delete
\* deletes one, which keeps the limit.
PlanLimitsKept == \A pl \in Plans : plans'[pl].limit = plans[pl].limit
LEMMA PlansWritten ==
    ASSUME TypeOK, ShapeInv, NEW r \in Requests, Step(r)
    PROVE  PlanLimitsKept \/ PlanSave(r)
<1>1. ASSUME PlanDelete(r) PROVE PlanLimitsKept
  <2>. DEFINE q == req[r].plan
              gone == [plans[q] EXCEPT !.state = "gone"]
  <2>1. q \in Plans /\ plans[q] \in PlanRow
    BY <1>1 DEF PlanDelete, At, ShapeInv, RequestShape, MayBeAt, TypeOK
  <2>2. gone.limit = plans[q].limit
    BY <2>1 DEF PlanRow
  <2>3. plans' = plans \/ plans' = [plans EXCEPT ![q] = gone]
    BY <1>1 DEF PlanDelete
  <2>. HIDE DEF gone
  <2>. QED  BY <2>1, <2>2, <2>3 DEF TypeOK, PlanLimitsKept
<1>. QED  BY <1>1, PlanWrites DEF PlanLimitsKept

\* The limits an approval and a rotation read and install.
LEMMA ApprovalLimits ==
    ASSUME TypeOK, ShapeInv, NEW r \in Requests, Step(r)
    PROVE  /\ At(r, "approve.product") /\ req'[r].pc = "approve.credential" =>
                  req'[r].plan = req[r].plan /\ req'[r].limit = plans[req[r].plan].limit /\ UNCHANGED plans
           /\ At(r, "approve.credential") /\ req'[r].pc = "approve.consumer" =>
                  req'[r].plan = req[r].plan /\ req'[r].limit = req[r].limit /\ UNCHANGED plans
           /\ At(r, "approve.consumer") =>
                  /\ req[r].app \in Apps /\ InstallsLimit(req[r].app, req[r].limit)
                  /\ UNCHANGED <<plans, subs, products>>
<1>. DEFINE q == req[r]
            s == req'[r]
<1>1. q \in Request /\ RequestShape(q)
  BY DEF TypeOK, ShapeInv
<1>2. CASE At(r, "approve.product") /\ s.pc = "approve.credential"
  <2>1. ApproveProduct(r)
    BY <1>2, StepAt
  <2>2. ~Finish(r) /\ ~Goto(r, "approve.clientId")
    BY <1>2, FinishFields, GotoFields, NoReqType
  <2>3. s = [q EXCEPT !.pc = "approve.credential", !.limit = plans[q.plan].limit]
    BY <1>1, <2>1, <2>2 DEF ApproveProduct, TypeOK
  <2>. QED  BY <1>1, <1>2, <2>1, <2>3 DEF ApproveProduct, Unprovisioned, adminVars, Request, At
<1>3. CASE At(r, "approve.credential") /\ s.pc = "approve.consumer"
  <2>1. ApproveCredential(r)
    BY <1>3, StepAt
  <2>2. ~Finish(r)
    BY <1>3, FinishFields, NoReqType
  <2>. DEFINE k == creds'[q.app].key
  <2>3. s = [q EXCEPT !.pc = "approve.consumer", !.key = k]
    BY <1>1, <2>1, <2>2 DEF ApproveCredential, TypeOK
  <2>. HIDE DEF k
  <2>4. s.plan = q.plan /\ s.limit = q.limit
    BY <1>1, <2>3 DEF Request
  <2>. QED  BY <1>3, <2>1, <2>4 DEF ApproveCredential, adminVars, At
<1>4. CASE At(r, "approve.consumer")
  <2>1. ApproveConsumer(r) /\ q.app \in Apps
    BY <1>1, <1>4, StepAt DEF At, RequestShape, MayBeAt, ApprovePcs, AdminOps
  <2>. QED  BY <1>4, <2>1, LimitInstalled DEF ApproveConsumer, adminVars, subVars, At
<1>. QED  BY <1>2, <1>3, <1>4
LEMMA RotationLimits ==
    ASSUME TypeOK, ShapeInv, NEW r \in Requests, Step(r)
    PROVE  /\ At(r, "rotate.consumer") =>
                  /\ req[r].app \in Apps /\ UNCHANGED <<plans, subs, products>>
                  /\ IF req[r].op = "rotate" THEN InstallsLimit(req[r].app, req[r].limit) ELSE KeepsLimits
           /\ req[r].pc \notin RoutePcs /\ req'[r].op = "rotate" /\ req'[r].pc = "rotate.consumer" =>
                  /\ req'[r].app \in Apps /\ req'[r].limit \in ActivePlanLimits(req'[r].app)
                  /\ UNCHANGED <<plans, subs>>
<1>. DEFINE q == req[r]
            s == req'[r]
<1>1. q \in Request /\ RequestShape(q)
  BY DEF TypeOK, ShapeInv
<1>2. ASSUME At(r, "rotate.consumer")
      PROVE  /\ q.app \in Apps /\ UNCHANGED <<plans, subs, products>>
             /\ IF q.op = "rotate" THEN InstallsLimit(q.app, q.limit) ELSE KeepsLimits
  <2>1. RotateConsumer(r) /\ q.app \in Apps
    BY <1>1, <1>2, StepAt DEF At, RequestShape, MayBeAt, RotatePcs, AdminOps
  <2>2. CASE q.op = "rotate"
    <3>1. EnsureConsumer("production", q.app, nextKey, q.limit)
      BY <2>1, <2>2 DEF RotateConsumer, EnsureConsumer
    <3>. QED  BY <2>1, <2>2, <3>1, LimitInstalled DEF RotateConsumer, adminVars, subVars
  <2>3. CASE q.op # "rotate"
    <3>1. EnsureConsumer("sandbox", q.app, nextKey, q.limit)
      BY <2>1, <2>3 DEF RotateConsumer, EnsureConsumer
    <3>. QED  BY <2>1, <2>3, <3>1, LimitInstalled DEF RotateConsumer, adminVars, subVars
  <2>. QED  BY <2>2, <2>3
<1>3. ASSUME q.pc \notin RoutePcs, s.op = "rotate", s.pc = "rotate.consumer"
      PROVE  s.app \in Apps /\ s.limit \in ActivePlanLimits(s.app) /\ UNCHANGED <<plans, subs>>
  <2>1. ~RotateSave(r)
    BY <1>3, FinishFields, NoReqType DEF RotateSave
  <2>2. ~RotateConsumer(r)
    <3>1. RotateConsumer(r) => s = [q EXCEPT !.pc = "rotate.save", !.key = nextKey]
      BY DEF RotateConsumer, TypeOK
    <3>. QED  BY <1>1, <1>3, <3>1 DEF Request
  <2>3. PICK a \in Apps : Rotate(r, a)
    BY <1>3, <2>1, <2>2, OwnSteps
  <2>4. PICK l \in ActivePlanLimits(a) :
            Begin(r, "rotate", [NoReq EXCEPT !.pc = "rotate.consumer", !.app = a, !.limit = l])
    BY <2>3 DEF Rotate
  <2>5. s.app = a /\ s.limit = l
    BY <2>4, NoReqType DEF Begin, TypeOK, NoReq
  <2>6. UNCHANGED <<plans, subs>>
    BY <2>3 DEF Rotate, Unprovisioned, adminVars, subVars
  <2>. QED  BY <2>4, <2>5, <2>6
<1>. QED  BY <1>2, <1>3

\* The edit of a plan, up to the sandbox.
EditPcs == {"plan.save", "plan.read", "plan.consumers", "plan.push"}
EditsPlan(r) ==
    LET q == req[r]  s == req'[r] IN
    /\ q.pc = "idle" /\ s.pc = "plan.save" /\ UNCHANGED plans
    /\ plans[s.plan].state = "live" /\ s.limit = plans[s.plan].limit
SavesPlan(r) ==
    LET q == req[r]  s == req'[r] IN
    /\ q.pc = "plan.save"
    /\ \/ /\ plans'[q.plan].state = "live"
          /\ \A pl \in Plans : pl # q.plan => plans'[pl] = plans[pl]
          /\ \/ plans'[q.plan].limit = q.limit /\ s = NoReq
             \/ s.pc = "plan.read" /\ s.plan = q.plan
       \/ plans[q.plan].state # "live"
RereadsPlan(r) ==
    LET q == req[r]  s == req'[r] IN
    /\ q.pc = "plan.read" /\ UNCHANGED plans
    /\ \/ plans[q.plan].state # "live" /\ s = NoReq
       \/ /\ plans[q.plan].state = "live"
          /\ s.pc = "plan.consumers" /\ s.plan = q.plan /\ s.limit = plans[q.plan].limit
GoesOn(r, keys) ==
    LET q == req[r]  s == req'[r] IN
    \/ s.pc = "plan.push" /\ s.plan = q.plan /\ s.limit = q.limit /\ s.keys = keys
    \/ keys = NoKeys /\ s.pc \notin EditPcs
ListsForPlan(r) ==
    /\ req[r].pc = "plan.consumers" /\ UNCHANGED plans
    /\ GoesOn(r, ConsumersForPlan(req[r].plan))
PushesLimit(r) ==
    /\ req[r].pc = "plan.push" /\ UNCHANGED plans
    /\ \E b \in Apps : /\ req[r].keys[b] # 0 /\ InstallsLimit(b, req[r].limit)
                       /\ GoesOn(r, [req[r].keys EXCEPT ![b] = 0])

\* What the admin does with a plan.
LEMMA PlanLimits ==
    ASSUME TypeOK, ShapeInv, NEW r \in Requests, PlanNext(r)
    PROVE  \/ EditsPlan(r) \/ SavesPlan(r) \/ RereadsPlan(r) \/ ListsForPlan(r) \/ PushesLimit(r)
           \/ req[r].pc \notin EditPcs /\ req'[r].pc \notin EditPcs
<1>. DEFINE q == req[r]
            s == req'[r]
<1>1. q \in Request /\ RequestShape(q) /\ NoReq \in Request /\ NoReq.pc = "idle"
  BY NoReqType DEF TypeOK, ShapeInv
<1>2. ASSUME NEW pl \in Plans, UpdatePlan(r, pl) PROVE EditsPlan(r)
  <2>. DEFINE l == plans[pl].limit
  <2>1. s = [[NoReq EXCEPT !.pc = "plan.save", !.plan = pl, !.limit = l] EXCEPT !.op = "updatePlan"]
    BY <1>2 DEF UpdatePlan, Begin, TypeOK
  <2>. HIDE DEF l
  <2>2. s.pc = "plan.save" /\ s.plan = pl /\ s.limit = l
    BY <1>1, <2>1 DEF Request
  <2>3. q.pc = "idle"
    BY <1>1, <1>2 DEF UpdatePlan, Begin, Idle, RequestShape
  <2>. QED  BY <1>2, <2>2, <2>3 DEF EditsPlan, UpdatePlan, Unprovisioned, adminVars, l
<1>3. ASSUME NEW pl \in Plans, DeletePlan(r, pl) PROVE q.pc = "idle" /\ s.pc = "plan.delete"
  <2>1. s = [[NoReq EXCEPT !.pc = "plan.delete", !.plan = pl] EXCEPT !.op = "deletePlan"]
    BY <1>3 DEF DeletePlan, Begin, TypeOK
  <2>2. s.pc = "plan.delete"
    BY <1>1, <2>1 DEF Request
  <2>. QED  BY <1>1, <1>3, <2>2 DEF DeletePlan, Begin, Idle, RequestShape
<1>4. ASSUME PlanSave(r) PROVE SavesPlan(r)
  <2>1. CASE plans[q.plan].state # "live"
    BY <1>4, <2>1 DEF PlanSave, At, SavesPlan
  <2>2. CASE plans[q.plan].state = "live"
    <3>1. PICK row \in PlanEdits :
              /\ plans' = [plans EXCEPT ![q.plan] = row]
              /\ IF row.limit = q.limit THEN Finish(r) ELSE Goto(r, "plan.read")
      BY <1>4, <2>2 DEF PlanSave
    <3>2. q.plan \in Plans /\ row.state = "live"
      BY <1>1, <1>4, PlanEditsType DEF PlanSave, At, RequestShape, MayBeAt, PlanPcs
    <3>3. plans'[q.plan] = row /\ \A pl \in Plans : pl # q.plan => plans'[pl] = plans[pl]
      BY <3>1, <3>2 DEF TypeOK
    <3>4. CASE row.limit = q.limit
      BY <1>4, <3>1, <3>2, <3>3, <3>4, FinishFields DEF PlanSave, At, SavesPlan
    <3>5. CASE row.limit # q.limit
      <4>1. s = [q EXCEPT !.pc = "plan.read"]
        BY <3>1, <3>5 DEF Goto, TypeOK
      <4>2. s.pc = "plan.read" /\ s.plan = q.plan
        BY <1>1, <4>1 DEF Request
      <4>. QED  BY <1>4, <3>2, <3>3, <4>2 DEF PlanSave, At, SavesPlan
    <3>. QED  BY <3>4, <3>5
  <2>. QED  BY <2>1, <2>2
<1>5. ASSUME PlanRead(r) PROVE RereadsPlan(r)
  <2>. DEFINE l == plans[q.plan].limit
  <2>1. q.pc = "plan.read" /\ UNCHANGED plans
    BY <1>5 DEF PlanRead, At, Unprovisioned, adminVars
  <2>2. CASE plans[q.plan].state # "live"
    BY <1>5, <2>1, <2>2, FinishFields DEF PlanRead, RereadsPlan
  <2>3. CASE plans[q.plan].state = "live"
    <3>1. s = [q EXCEPT !.pc = "plan.consumers", !.limit = l]
      BY <1>5, <2>3 DEF PlanRead, TypeOK
    <3>. HIDE DEF l
    <3>2. s.pc = "plan.consumers" /\ s.plan = q.plan /\ s.limit = l
      BY <1>1, <3>1 DEF Request
    <3>. QED  BY <2>1, <2>3, <3>2 DEF RereadsPlan, l
  <2>. QED  BY <2>2, <2>3
<1>6. ASSUME NEW keys, PushRest(r, keys) PROVE GoesOn(r, keys)
  <2>1. CASE s = [q EXCEPT !.pc = "plan.push", !.keys = keys]
    BY <1>1, <2>1 DEF Request, GoesOn
  <2>2. CASE keys = NoKeys /\ s = [q EXCEPT !.pc = "plan.sandboxConsumers", !.keys = keys]
    BY <1>1, <2>2 DEF Request, GoesOn, EditPcs
  <2>3. CASE keys = NoKeys /\ Finish(r)
    BY <1>1, <2>3, FinishFields DEF GoesOn, EditPcs
  <2>. QED  BY <1>6, <2>1, <2>2, <2>3 DEF PushRest, TypeOK
<1>7. ASSUME PlanConsumers(r) PROVE ListsForPlan(r)
  <2>. DEFINE keys == ConsumersForPlan(q.plan)
  <2>1. PushRest(r, keys) /\ q.pc = "plan.consumers" /\ UNCHANGED plans
    BY <1>7 DEF PlanConsumers, At, Unprovisioned, adminVars
  <2>. HIDE DEF keys
  <2>2. GoesOn(r, keys)
    BY <1>6, <2>1
  <2>. QED  BY <2>1, <2>2 DEF ListsForPlan, keys
<1>8. ASSUME PlanPush(r) PROVE PushesLimit(r)
  <2>1. q.pc = "plan.push" /\ UNCHANGED plans
    BY <1>8 DEF PlanPush, At, adminVars
  <2>2. PICK b \in Apps : /\ q.keys[b] # 0
                         /\ EnsureConsumer("production", b, q.keys[b], q.limit)
                         /\ PushRest(r, [q.keys EXCEPT ![b] = 0])
    BY <1>8 DEF PlanPush
  <2>3. InstallsLimit(b, q.limit)
    BY <2>2, LimitInstalled
  <2>4. GoesOn(r, [q.keys EXCEPT ![b] = 0])
    BY <1>6, <2>2
  <2>. QED  BY <2>1, <2>2, <2>3, <2>4 DEF PushesLimit
<1>9. ASSUME NEW keys, SandboxPushRest(r, keys) PROVE s.pc \notin EditPcs
  <2>1. CASE s = [q EXCEPT !.pc = "plan.sandboxPush", !.keys = keys]
    BY <1>1, <2>1 DEF Request, EditPcs
  <2>2. CASE Finish(r)
    BY <1>1, <2>2, FinishFields DEF EditPcs
  <2>. QED  BY <1>9, <2>1, <2>2 DEF SandboxPushRest, TypeOK
<1>10. PlanSandboxConsumers(r) \/ PlanSandboxPush(r) => q.pc \notin EditPcs /\ s.pc \notin EditPcs
  BY <1>9 DEF PlanSandboxConsumers, PlanSandboxPush, At, EditPcs
<1>11. PlanDelete(r) => q.pc \notin EditPcs /\ s.pc \notin EditPcs
  BY <1>1, FinishFields DEF PlanDelete, At, EditPcs
<1>12. q.pc = "idle" /\ s.pc = "plan.delete" => q.pc \notin EditPcs /\ s.pc \notin EditPcs
  BY DEF EditPcs
<1>. QED  BY <1>2, <1>3, <1>4, <1>5, <1>7, <1>8, <1>10, <1>11, <1>12 DEF PlanNext

\* Where a request comes from that is about to use a limit.
LEMMA LimitReaders ==
    ASSUME IInv, IInv', [Next]_vars, NEW r \in Requests, Step(r)
    PROVE  /\ req'[r].pc \in EditPcs => PlanNext(r)
           /\ req'[r].pc = "rotate.consumer" => req[r].pc \notin RoutePcs
           /\ req'[r].pc = "approve.credential" => At(r, "approve.product")
           /\ req'[r].pc = "approve.consumer" => At(r, "approve.credential")
           /\ req'[r].op = "approve" /\ req'[r].pc \in Route3 \cup {"approve.activate"} =>
                  LooksUp(r) \/ Installs(r) \/ ReadsProduct(r) \/ ListsMembers(r) \/ Pushes(r)
<1>. DEFINE q == req[r]
            s == req'[r]
<1>1. /\ RouteMove(r) /\ RequestShape(q) /\ RequestShape(s) /\ TypeOK /\ ShapeInv
      /\ NoReq.pc = "idle" /\ NoReq.op = "none"
  BY RouteSteps, NoReqType DEF IInv, ShapeInv
<1>2. s.pc \in EditPcs \cup {"rotate.consumer"} => q.pc \notin RouteWatch
  BY <1>1
  DEF EditPcs, RouteMove, RouteWatch, Passes, Ends, Inserts, Withdraws, Undoes, Reviews, Refuses, Looks, LooksUp,
      Credits, Installs, GoesLive, AsksSandbox, Registers, ListsProducts, Opts, OptsIn, OptedIn, Retires, Cleans,
      Leaves, Edited, Remains, SavesEdit, Counts, Discontinues, Discards, Deprovisions, ReadsProduct, ListsMembers,
      Pushes, ReadsSandbox, ListsSandbox, PushesSandbox, Fresh, TakesNext, At, DeletePcs
<1>3. RoutePcs \subseteq RouteWatch
  BY DEF RoutePcs, RouteWatch, Route3, Sandbox3
<1>4. s.pc \in EditPcs => PlanNext(r)
  <2>1. s.pc \in EditPcs => s.op = "updatePlan"
    BY <1>1 DEF EditPcs, RequestShape, MayBeAt, PlanPcs
  <2>. QED  BY <1>1, <1>2, <1>3, <2>1, OwnSteps
<1>5. /\ s.pc = "approve.credential" => At(r, "approve.product")
      /\ s.pc = "approve.consumer" => At(r, "approve.credential")
  BY <1>1
  DEF RouteMove, RouteWatch, Passes, Ends, Inserts, Withdraws, Undoes, Reviews, Refuses, Looks, LooksUp,
      Credits, Installs, GoesLive, AsksSandbox, Registers, ListsProducts, Opts, OptsIn, OptedIn, Retires, Cleans,
      Leaves, Edited, Remains, SavesEdit, Counts, Discontinues, Discards, Deprovisions, ReadsProduct, ListsMembers,
      Pushes, ReadsSandbox, ListsSandbox, PushesSandbox, Fresh, TakesNext, At, DeletePcs
<1>6. ASSUME s.op = "approve", s.pc \in Route3 \cup {"approve.activate"}
      PROVE  LooksUp(r) \/ Installs(r) \/ ReadsProduct(r) \/ ListsMembers(r) \/ Pushes(r)
  <2>1. q.pc \notin {"delete.next", "reject.set", "oidc.products", "product.save", "product.count"} \/ s.op # q.op
    BY <1>1, <1>6, WhoseStep DEF RouteWatch, DeletePcs
  <2>. QED
    BY <1>1, <1>6, <2>1
    DEF Route3, RouteMove, RouteWatch, Passes, Ends, Inserts, Withdraws, Undoes, Reviews, Refuses, Looks,
        Credits, GoesLive, AsksSandbox, Registers, ListsProducts, Opts, OptsIn, OptedIn, Retires, Cleans,
        Leaves, Edited, Remains, SavesEdit, Counts, Discontinues, Discards, Deprovisions,
        ReadsSandbox, ListsSandbox, PushesSandbox, Fresh, TakesNext, Same, SameJob, At, DeletePcs
<1>. QED  BY <1>2, <1>3, <1>4, <1>5, <1>6

\* A limit a request holds is the one of the plan, which is in use.
LimitHeld(q) ==
    /\ q.pc \in EditPcs => plans[q.plan].state = "live"
    /\ q.pc \in {"plan.save", "plan.consumers", "plan.push", "approve.credential", "approve.consumer"} =>
           q.limit = plans[q.plan].limit
    /\ q.pc = "plan.push" => \A a \in Apps : q.keys[a] # 0 => ActiveOnPlan(a, q.plan)
    /\ q.op = "approve" /\ q.pc \in Route3 \cup {"approve.activate"} /\ products[q.prod].auth = "key-auth" =>
           consumers["production"][q.app].limit = plans[q.plan].limit
    /\ q.op = "rotate" /\ q.pc = "rotate.consumer" =>
           \A p \in Products : ActiveRow(q.app, p) => q.limit = plans[subs[<<q.app, p>>].plan].limit

\* An edit still has the consumer of a subscriber to install.
Owes(q, a, pl) ==
    /\ q.plan = pl
    /\ q.pc \in {"plan.read", "plan.consumers"} \/ (q.pc = "plan.push" /\ q.keys[a] # 0)

\* The consumers have the limits of the plans, or are about to get them.
LimitInv ==
    /\ \A r \in Requests : LimitHeld(req[r])
    /\ \A a \in Apps, p \in Products : ActiveRow(a, p) /\ products[p].auth = "key-auth" =>
           \/ consumers["production"][a].limit = plans[subs[<<a, p>>].plan].limit
           \/ \E r \in Requests : Owes(req[r], a, subs[<<a, p>>].plan)

\* An application subscribes on one plan: its consumer has one limit, which
\* otherwise follows the plan that was installed last.
OnePlanEach ==
    \A a \in Apps, p, o \in Products :
        subs[<<a, p>>] # NoSub /\ subs[<<a, o>>] # NoSub => subs[<<a, p>>].plan = subs[<<a, o>>].plan

\* The row an approval is about has the plan it read, and that plan is in use.
LEMMA ApprovalRow ==
    ASSUME IInv, Ground, PlanHeld, NEW r \in Requests, req[r].op = "approve", req[r].pc \in RouteWatch
    PROVE  /\ req[r].app \in Apps /\ req[r].prod \in Products
           /\ subs[<<req[r].app, req[r].prod>>] # NoSub
           /\ subs[<<req[r].app, req[r].prod>>].plan = req[r].plan
           /\ req[r].plan \in Plans /\ plans[req[r].plan].state = "live"
           /\ ApprovalHeld(req[r])
<1>. DEFINE q == req[r]
            z == <<req[r].app, req[r].prod>>
<1>1. Held(q) /\ RequestShape(q) /\ RowInv /\ PlanOutlivesSubscriptions
  BY DEF Ground, HeldInv, IInv, ShapeInv
<1>2. ApprovalHeld(q) /\ q.app \in Apps /\ q.prod \in Products
  BY <1>1 DEF Held, RequestShape, AdminOps
<1>3. IsSubscription(z, q.sub) /\ z \in Apps \X Products
  BY <1>2 DEF ApprovalHeld
<1>4. subs[z] # NoSub /\ subs[z].plan = q.plan
  BY <1>3 DEF PlanHeld, IsSubscription
<1>5. q.plan \in Plans /\ plans[q.plan].state = "live"
  BY <1>1, <1>3, <1>4 DEF RowInv, PlanOutlivesSubscriptions
<1>. QED  BY <1>2, <1>4, <1>5

\* What a request holds about limits stays so.
LEMMA NextLimitHeld ==
    ASSUME IInv, IInv', Serial, Serial', Ground, Ground', PlanHeld, PlanHeld', LimitInv,
           OnePlanEach, OnePlanEach', [Next]_vars, NEW r \in Requests, Step(r)
    PROVE  LimitHeld(req[r])'
<1>. DEFINE q == req[r]
            s == req'[r]
<1>1. /\ RouteMove(r) /\ TypeOK /\ TypeOK' /\ ShapeInv /\ LimitHeld(q) /\ BaseInv
      /\ RequestShape(q) /\ RequestShape(s)
  BY RouteSteps DEF IInv, BaseInv, ShapeInv, LimitInv
<1>2. ASSUME s.pc \in EditPcs
      PROVE  /\ plans'[s.plan].state = "live"
             /\ s.pc \in {"plan.save", "plan.consumers", "plan.push"} => s.limit = plans'[s.plan].limit
             /\ s.pc = "plan.push" => \A a \in Apps : s.keys[a] # 0 => \E p \in Products :
                    subs'[<<a, p>>].status = "active" /\ subs'[<<a, p>>].plan = s.plan
  <2>1. PlanNext(r) /\ UNCHANGED subs
    BY <1>1, <1>2, LimitReaders, PlanPasses DEF Passes, Lasting
  <2>2. \/ EditsPlan(r) \/ SavesPlan(r) \/ RereadsPlan(r) \/ ListsForPlan(r) \/ PushesLimit(r)
    BY <1>1, <1>2, <2>1, PlanLimits
  <2>3. NoReq.pc \notin EditPcs
    BY NoReqType DEF EditPcs
  <2>4. CASE EditsPlan(r)
    BY <2>4 DEF EditsPlan
  <2>5. CASE SavesPlan(r)
    BY <1>1, <1>2, <2>3, <2>5 DEF SavesPlan, LimitHeld, EditPcs
  <2>6. CASE RereadsPlan(r)
    BY <1>2, <2>3, <2>6 DEF RereadsPlan
  <2>7. ASSUME NEW keys, GoesOn(r, keys), q.pc \in {"plan.consumers", "plan.push"}, UNCHANGED plans,
               \A a \in Apps : keys[a] # 0 => ActiveOnPlan(a, q.plan)
        PROVE  /\ plans'[s.plan].state = "live" /\ s.limit = plans'[s.plan].limit
               /\ s.pc = "plan.push" /\ \A a \in Apps : s.keys[a] # 0 => \E p \in Products :
                      subs'[<<a, p>>].status = "active" /\ subs'[<<a, p>>].plan = s.plan
    <3>1. s.pc = "plan.push" /\ s.plan = q.plan /\ s.limit = q.limit /\ s.keys = keys
      BY <1>2, <2>7 DEF GoesOn
    <3>. QED  BY <1>1, <2>1, <2>7, <3>1 DEF LimitHeld, EditPcs, ActiveOnPlan, ActiveProducts
  <2>8. CASE ListsForPlan(r)
    <3>. DEFINE keys == ConsumersForPlan(q.plan)
    <3>1. \A a \in Apps : keys[a] # 0 => ActiveOnPlan(a, q.plan)
      BY DEF ConsumersForPlan
    <3>2. GoesOn(r, keys) /\ q.pc = "plan.consumers" /\ UNCHANGED plans
      BY <2>8 DEF ListsForPlan
    <3>. HIDE DEF keys
    <3>. QED  BY <2>7, <3>1, <3>2
  <2>9. CASE PushesLimit(r)
    <3>1. PICK b \in Apps : GoesOn(r, [q.keys EXCEPT ![b] = 0])
      BY <2>9 DEF PushesLimit
    <3>2. q.keys \in [Apps -> Nat] /\ q.pc = "plan.push" /\ UNCHANGED plans
      BY <1>1, <2>9 DEF TypeOK, Request, PushesLimit
    <3>3. \A a \in Apps : [q.keys EXCEPT ![b] = 0][a] # 0 => ActiveOnPlan(a, q.plan)
      BY <1>1, <3>2 DEF LimitHeld
    <3>. QED  BY <2>7, <3>1, <3>2, <3>3
  <2>. QED  BY <2>2, <2>4, <2>5, <2>6, <2>8, <2>9
<1>3. ASSUME s.pc \in {"approve.credential", "approve.consumer"}
      PROVE  s.limit = plans'[s.plan].limit
  <2>1. CASE s.pc = "approve.credential"
    BY <1>1, <2>1, LimitReaders, ApprovalLimits
  <2>2. CASE s.pc = "approve.consumer"
    <3>1. At(r, "approve.credential")
      BY <2>2, LimitReaders
    <3>2. q.limit = plans[q.plan].limit
      BY <1>1, <3>1 DEF LimitHeld, At
    <3>. QED  BY <1>1, <2>2, <3>1, <3>2, ApprovalLimits
  <2>. QED  BY <1>3, <2>1, <2>2
<1>4. ASSUME s.op = "approve", s.pc \in Route3 \cup {"approve.activate"}, products'[s.prod].auth = "key-auth"
      PROVE  consumers'["production"][s.app].limit = plans'[s.plan].limit
  <2>1. LooksUp(r) \/ Installs(r) \/ ReadsProduct(r) \/ ListsMembers(r) \/ Pushes(r)
    BY <1>4, LimitReaders
  <2>2. q.pc \in {"approve.clientId", "approve.consumer"} \cup Route3 /\ UNCHANGED products
    BY <2>1 DEF LooksUp, Installs, ReadsProduct, ListsMembers, Pushes, At, Lasting, Route3
  <2>3. SameRow(q, s)
    <3>1. ASSUME NEW a \in Apps, NEW p \in Products, Approve(r, a, p) PROVE FALSE
      BY <1>1, <2>2, <3>1, NoReqType DEF Approve, Begin, Idle, RequestShape, Route3
    <3>. QED  BY <1>1, <1>4, <3>1, ApprovalMoves
  <2>4. q.op = "approve" /\ q.pc \in RouteWatch /\ s.app = q.app /\ s.prod = q.prod /\ s.plan = q.plan
    BY <1>4, <2>2, <2>3 DEF SameRow, RouteWatch
  <2>5. ApprovalHeld(q) /\ q.app \in Apps /\ q.plan \in Plans
    BY <2>4, ApprovalRow
  <2>6. PlanLimitsKept
    <3>1. ~PlanSave(r)
      BY <2>2 DEF PlanSave, At, Route3
    <3>. QED  BY <1>1, <3>1, PlansWritten
  <2>7. CASE q.pc = "approve.clientId"
    BY <1>4, <2>2, <2>4, <2>5, <2>7 DEF ApprovalHeld
  <2>8. CASE q.pc = "approve.consumer"
    <3>1. InstallsLimit(q.app, q.limit)
      BY <1>1, <2>8, ApprovalLimits DEF At
    <3>2. q.limit = plans[q.plan].limit
      BY <1>1, <2>8 DEF LimitHeld
    <3>. QED  BY <2>4, <2>5, <2>6, <3>1, <3>2 DEF InstallsLimit, PlanLimitsKept
  <2>9. CASE q.pc \in Route3
    <3>1. consumers'["production"][q.app] = consumers["production"][q.app]
      BY <1>1, <2>5, <2>9, LimitsElsewhere DEF At, Route3
    <3>2. consumers["production"][q.app].limit = plans[q.plan].limit
      BY <1>1, <1>4, <2>2, <2>4, <2>9 DEF LimitHeld
    <3>. QED  BY <2>4, <2>5, <2>6, <3>1, <3>2 DEF PlanLimitsKept
  <2>. QED  BY <2>2, <2>7, <2>8, <2>9
<1>5. ASSUME s.op = "rotate", s.pc = "rotate.consumer", NEW p \in Products, subs'[<<s.app, p>>].status = "active"
      PROVE  s.limit = plans'[subs'[<<s.app, p>>].plan].limit
  <2>1. s.app \in Apps /\ s.limit \in ActivePlanLimits(s.app) /\ UNCHANGED <<plans, subs>>
    BY <1>1, <1>5, LimitReaders, RotationLimits
  <2>2. PICK a \in Apps : a = s.app
    BY <2>1
  <2>3. PICK o \in LatestActive(a) : s.limit = plans[subs[<<a, o>>].plan].limit
    BY <2>1, <2>2 DEF ActivePlanLimits
  <2>4. o \in Products /\ subs[<<a, o>>] # NoSub /\ subs[<<a, p>>] # NoSub
    BY <1>5, <2>1, <2>2 DEF LatestActive, ActiveProducts, NoSub
  <2>5. subs[<<a, o>>].plan = subs[<<a, p>>].plan
    BY <2>2, <2>4 DEF OnePlanEach
  <2>. QED  BY <2>1, <2>2, <2>3, <2>5
<1>. QED  BY <1>2, <1>3, <1>4, <1>5 DEF LimitHeld, ActiveRow, EditPcs, ActiveOnPlan, ActiveProducts

\* What a step makes of the limit of a live subscriber's consumer.
LEMMA NextSubscriberLimit ==
    ASSUME IInv, IInv', Serial, Serial', Ground, Ground', NoMigrationBack, PlanHeld, ProvisionedInv,
           LimitInv, OnePlanEach, OnePlanEach', [Next]_vars, NEW r \in Requests, Step(r),
           NEW a \in Apps, NEW p \in Products, ActiveRow(a, p)', products'[p].auth = "key-auth"
    PROVE  \/ consumers'["production"][a].limit = plans'[subs'[<<a, p>>].plan].limit
           \/ Owes(req'[r], a, subs'[<<a, p>>].plan)
<1>. DEFINE q == req[r]
            s == req'[r]
            x == <<a, p>>
            pl == subs[x].plan
<1>1. /\ RouteMove(r) /\ (UNCHANGED Actives \/ Ended(r) \/ WentLive(r))
      /\ TypeOK /\ ShapeInv /\ RowInv /\ PlanOutlivesSubscriptions /\ SubsEffect /\ LimitHeld(q) /\ Held(q)
      /\ RequestShape(q) /\ NoSub.status = "none" /\ x \in Apps \X Products
  BY ActivesAfter, NextEffect DEF IInv, BaseInv, Effect, ShapeInv, LimitInv, NoSub, Ground, HeldInv
<1>2. subs'[x].status = "active" /\ x \in Actives'
  BY <1>1 DEF ActiveRow, Actives
<1>3. PlanLimitsKept \/ PlanSave(r)
  BY <1>1, PlansWritten
<1>4. CASE x \notin Actives
  <2>1. GoesLive(r) /\ a = q.app /\ p = q.prod
    BY <1>1, <1>2, <1>4 DEF Ended, WentLive
  <2>2. UNCHANGED <<products, consumers>> /\ q.pc = "approve.activate"
    BY <2>1, NewcomerJoins DEF GoesLive, At
  <2>3. q.op = "approve" /\ q.pc \in RouteWatch
    BY <1>1, <2>2, WhoseStep DEF RouteWatch, ApprovePcs
  <2>4. pl = q.plan /\ q.plan \in Plans /\ subs[x] # NoSub
    BY <2>1, <2>3, ApprovalRow
  <2>5. subs'[x].plan = pl
    <3>1. subs'[x] = subs[x] \/ subs'[x] = [subs[x] EXCEPT !.status = "active"]
      BY <1>1, <2>1 DEF GoesLive, SetSubscriptionStatus
    <3>. QED  BY <1>1, <3>1 DEF TypeOK, SubRow
  <2>6. PlanLimitsKept
    BY <1>3, <2>2 DEF PlanSave, At
  <2>7. consumers["production"][a].limit = plans[q.plan].limit
    BY <1>1, <2>1, <2>2, <2>3 DEF LimitHeld
  <2>. QED  BY <2>2, <2>4, <2>5, <2>6, <2>7 DEF PlanLimitsKept
<1>5. CASE x \in Actives
  <2>1. subs[x].status = "active" /\ subs[x] # NoSub /\ subs'[x] # NoSub
    BY <1>1, <1>2, <1>5 DEF Actives
  <2>2. subs'[x].plan = pl
    BY <1>1, <1>2, RowAfter DEF SavedBy, SetTo
  <2>3. pl \in Plans /\ plans[pl].state = "live"
    BY <1>1, <2>1 DEF RowInv, PlanOutlivesSubscriptions
  <2>4. products[p].auth = "key-auth"
    <3>1. CASE products'[p] = products[p]
      BY <3>1
    <3>2. CASE products'[p] # products[p]
      <4>1. SavesEdit(r) /\ q.prod = p /\ q.row.auth = "key-auth"
        BY <1>1, <2>1, <3>2, ProductKept DEF ActiveApps
      <4>2. products[p].auth \in {"key-auth", "oauth2"}
        BY <1>1 DEF TypeOK, ProductRow, AuthTypes
      <4>. QED  BY <4>1, <4>2 DEF SavesEdit, NoMigrationBack
    <3>. QED  BY <3>1, <3>2
  <2>5. creds[a].key # 0 /\ (consumers["production"][a].limit = plans[pl].limit \/ Owes(q, a, pl))
    <3>1. ActiveRow(a, p)
      BY <2>1 DEF ActiveRow
    <3>2. creds[a].key # 0
      BY <2>4, <3>1 DEF ProvisionedInv
    <3>3. PICK t \in Requests : consumers["production"][a].limit = plans[pl].limit \/ Owes(req[t], a, pl)
      BY <2>4, <3>1 DEF LimitInv
    <3>4. t # r => ~Owes(req[t], a, pl)
      <4>1. t # r => req[t] = NoReq
        BY Alone DEF IInv, BaseInv
      <4>. QED  BY <4>1, NoReqType DEF Owes
    <3>. QED  BY <3>2, <3>3, <3>4
  <2>6. ~(At(r, "delete.consumer") /\ q.app = a)
    BY <1>1, <2>1, WhoseStep DEF At, RouteWatch, DeletePcs, Held, WorkHeld
  <2>7. CASE PlanSave(r)
    <3>1. q.pc = "plan.save" /\ ~Owes(q, a, pl)
      BY <2>7 DEF PlanSave, At, Owes
    <3>2. consumers'["production"][a] = consumers["production"][a]
      BY <1>1, <2>6, <3>1, LimitsElsewhere
    <3>3. SavesPlan(r)
      <4>1. PlanNext(r)
        BY <2>7 DEF PlanNext
      <4>. QED
        BY <1>1, <3>1, <4>1, PlanLimits DEF EditPcs, EditsPlan, RereadsPlan, ListsForPlan, PushesLimit
    <3>4. plans[q.plan].state = "live" /\ q.limit = plans[q.plan].limit
      BY <1>1, <3>1 DEF LimitHeld, EditPcs
    <3>. QED  BY <2>2, <2>3, <2>5, <3>1, <3>2, <3>3, <3>4 DEF SavesPlan, Owes
  <2>8. CASE ~PlanSave(r) /\ q.pc = "approve.consumer"
    <3>1. PlanLimitsKept /\ InstallsLimit(q.app, q.limit) /\ q.limit = plans[q.plan].limit /\ ~Owes(q, a, pl)
      BY <1>1, <1>3, <2>8, ApprovalLimits DEF At, LimitHeld, Owes
    <3>2. q.app = a => pl = q.plan
      <4>1. q.op = "approve" /\ q.pc \in RouteWatch
        BY <1>1, <2>8, WhoseStep DEF RouteWatch, ApprovePcs
      <4>2. /\ q.app \in Apps /\ q.prod \in Products /\ subs[<<q.app, q.prod>>] # NoSub
            /\ subs[<<q.app, q.prod>>].plan = q.plan
        BY <4>1, ApprovalRow
      <4>. QED  BY <2>1, <4>2 DEF OnePlanEach
    <3>. QED  BY <2>2, <2>3, <2>5, <3>1, <3>2 DEF InstallsLimit, PlanLimitsKept
  <2>9. CASE ~PlanSave(r) /\ q.pc = "rotate.consumer"
    <3>1. /\ PlanLimitsKept /\ ~Owes(q, a, pl)
          /\ IF q.op = "rotate" THEN InstallsLimit(q.app, q.limit) ELSE KeepsLimits
      BY <1>1, <1>3, <2>9, RotationLimits DEF At, Owes
    <3>2. q.op = "rotate" /\ q.app = a => q.limit = plans[pl].limit
      BY <1>1, <2>1, <2>9 DEF LimitHeld, ActiveRow
    <3>. QED  BY <2>2, <2>3, <2>5, <3>1, <3>2 DEF InstallsLimit, KeepsLimits, PlanLimitsKept
  <2>10. ASSUME NEW keys \in [Apps -> Nat], GoesOn(r, keys), keys[a] # 0, q.plan = pl
         PROVE  Owes(s, a, pl)
    BY <2>10 DEF GoesOn, Owes, NoKeys
  <2>11. CASE ~PlanSave(r) /\ q.pc = "plan.push"
    <3>1. PlanNext(r) /\ PlanLimitsKept
      BY <1>1, <1>3, <2>11, StepAt DEF PlanPcs
    <3>2. PICK b \in Apps : /\ q.keys[b] # 0 /\ InstallsLimit(b, q.limit)
                            /\ GoesOn(r, [q.keys EXCEPT ![b] = 0])
      BY <1>1, <2>11, <3>1, PlanLimits DEF EditPcs, EditsPlan, SavesPlan, RereadsPlan, ListsForPlan, PushesLimit
    <3>3. CASE a = b
      <4>1. ActiveOnPlan(b, q.plan) /\ q.limit = plans[q.plan].limit
        BY <1>1, <2>11, <3>2 DEF LimitHeld
      <4>2. PICK o \in Products : subs[<<b, o>>].status = "active" /\ subs[<<b, o>>].plan = q.plan
        BY <4>1 DEF ActiveOnPlan, ActiveProducts
      <4>3. subs[<<b, o>>].plan = pl
        BY <1>1, <2>1, <3>3, <4>2 DEF OnePlanEach
      <4>. QED  BY <2>2, <2>3, <3>1, <3>2, <3>3, <4>1, <4>2, <4>3 DEF InstallsLimit, PlanLimitsKept
    <3>4. CASE a # b
      <4>1. consumers'["production"][a].limit = consumers["production"][a].limit
        BY <3>2, <3>4 DEF InstallsLimit
      <4>2. Owes(q, a, pl) => Owes(s, a, pl)
        <5>1. q.keys \in [Apps -> Nat]
          BY <1>1 DEF TypeOK, Request
        <5>2. [q.keys EXCEPT ![b] = 0] \in [Apps -> Nat] /\ [q.keys EXCEPT ![b] = 0][a] = q.keys[a]
          BY <3>4, <5>1
        <5>. QED  BY <2>10, <2>11, <3>2, <5>2 DEF Owes
      <4>. QED  BY <2>2, <2>3, <2>5, <3>1, <4>1, <4>2 DEF PlanLimitsKept
    <3>. QED  BY <3>3, <3>4
  <2>12. CASE ~PlanSave(r) /\ q.pc \notin {"approve.consumer", "rotate.consumer", "plan.push"}
    <3>1. consumers'["production"][a] = consumers["production"][a] /\ PlanLimitsKept
      BY <1>1, <1>3, <2>6, <2>12, LimitsElsewhere
    <3>2. Owes(q, a, pl) => Owes(s, a, pl)
      <4>1. ASSUME Owes(q, a, pl) PROVE PlanNext(r) /\ q.plan = pl /\ q.pc \in {"plan.read", "plan.consumers"}
        BY <1>1, <2>12, <4>1, StepAt DEF PlanPcs, Owes
      <4>2. CASE Owes(q, a, pl) /\ q.pc = "plan.read"
        <5>1. RereadsPlan(r)
          BY <1>1, <4>1, <4>2, PlanLimits DEF EditPcs, EditsPlan, SavesPlan, ListsForPlan, PushesLimit
        <5>. QED  BY <2>3, <4>1, <4>2, <5>1 DEF RereadsPlan, Owes
      <4>3. CASE Owes(q, a, pl) /\ q.pc = "plan.consumers"
        <5>. DEFINE keys == ConsumersForPlan(pl)
        <5>1. ListsForPlan(r)
          BY <1>1, <4>1, <4>3, PlanLimits DEF EditPcs, EditsPlan, SavesPlan, RereadsPlan, PushesLimit
        <5>2. GoesOn(r, keys)
          BY <4>1, <4>3, <5>1 DEF ListsForPlan
        <5>3. keys \in [Apps -> Nat] /\ keys[a] # 0
          BY <1>1, <2>1, <2>5 DEF ConsumersForPlan, ActiveOnPlan, ActiveProducts, TypeOK, CredRow
        <5>. HIDE DEF keys
        <5>. QED  BY <2>10, <4>1, <4>3, <5>2, <5>3
      <4>. QED  BY <4>1, <4>2, <4>3
    <3>. QED  BY <2>2, <2>3, <2>5, <3>1, <3>2 DEF PlanLimitsKept
  <2>. QED  BY <2>7, <2>8, <2>9, <2>11, <2>12
<1>. QED  BY <1>4, <1>5

\* A step that no request makes leaves the plans in use as they are.
LEMMA PlansMeanwhile ==
    ASSUME [Next]_vars
    PROVE  \/ \E r \in Requests : Step(r) \/ Fail(r)
           \/ /\ UNCHANGED <<products, subs, consumers, req>>
              /\ TypeOK => \A pl \in Plans : plans[pl].state = "live" => plans'[pl] = plans[pl]
<1>1. ASSUME NEW q \in Plans, NEW row, CreatePlan(q, row), TypeOK, NEW pl \in Plans, plans[pl].state = "live"
      PROVE  plans'[pl] = plans[pl]
  BY <1>1 DEF CreatePlan, TypeOK
<1>2. CASE \E q \in Plans, row \in PlanEdits : CreatePlan(q, row)
  BY <1>1, <1>2 DEF CreatePlan, subVars, gwVars
<1>3. CASE UNCHANGED vars \/ BillingNext
  BY <1>3 DEF vars, BillingNext, MarkPaid, Void, Settle, adminVars, subVars, gwVars
<1>. QED  BY <1>2, <1>3 DEF Next

\* The limits follow the plans, or are about to.
LEMMA NextLimits ==
    ASSUME IInv, IInv', Serial, Serial', Ground, Ground', NoMigrationBack, PlanHeld, PlanHeld', ProvisionedInv,
           LimitInv, OnePlanEach, OnePlanEach', MaxFaults = 0, [Next]_vars
    PROVE  LimitInv'
<1>1. TypeOK /\ TypeOK' /\ ShapeInv /\ RowInv /\ PlanOutlivesSubscriptions /\ BaseInv /\ faults = 0
  BY DEF IInv, BaseInv, Ground, HeldInv
<1>2. ASSUME NEW r \in Requests, Step(r)
      PROVE  LimitInv'
  <2>1. ASSUME NEW t \in Requests PROVE LimitHeld(req[t])'
    <3>1. CASE t = r
      BY <1>2, <3>1, NextLimitHeld
    <3>2. CASE t # r
      <4>1. req'[t] = NoReq
        BY <1>1, <1>2, <3>2, Alone
      <4>. QED  BY <4>1, NoReqType DEF LimitHeld, EditPcs, Route3
    <3>. QED  BY <3>1, <3>2
  <2>2. ASSUME NEW a \in Apps, NEW p \in Products, ActiveRow(a, p)', products'[p].auth = "key-auth"
        PROVE  \/ consumers'["production"][a].limit = plans'[subs'[<<a, p>>].plan].limit
               \/ \E t \in Requests : Owes(req'[t], a, subs'[<<a, p>>].plan)
    BY <1>2, <2>2, NextSubscriberLimit
  <2>. QED  BY <2>1, <2>2 DEF LimitInv, Owes
<1>3. ASSUME UNCHANGED <<products, subs, consumers, req>>,
             \A pl \in Plans : plans[pl].state = "live" => plans'[pl] = plans[pl]
      PROVE  LimitInv'
  <2>1. ASSUME NEW x \in Apps \X Products, subs[x] # NoSub
        PROVE  subs[x].plan \in Plans /\ plans'[subs[x].plan] = plans[subs[x].plan]
    BY <1>1, <1>3, <2>1 DEF RowInv, PlanOutlivesSubscriptions
  <2>2. ASSUME NEW t \in Requests PROVE LimitHeld(req[t])'
    <3>. DEFINE q == req[t]
    <3>1. LimitHeld(q) /\ req'[t] = q /\ RequestShape(q)
      BY <1>1, <1>3 DEF LimitInv, ShapeInv
    <3>2. q.pc \in EditPcs => plans'[q.plan] = plans[q.plan]
      BY <1>1, <1>3, <3>1 DEF LimitHeld, RequestShape, MayBeAt, EditPcs, PlanPcs
    <3>3. q.op = "approve" /\ q.pc \in RouteWatch => plans'[q.plan] = plans[q.plan]
      BY <1>3, ApprovalRow
    <3>4. q.pc \in {"approve.credential", "approve.consumer"} => q.op = "approve" /\ q.pc \in RouteWatch
      BY <3>1, WhoseStep DEF RouteWatch, ApprovePcs
    <3>5. q.op = "rotate" => \A p \in Products : ActiveRow(q.app, p) =>
              plans'[subs[<<q.app, p>>].plan] = plans[subs[<<q.app, p>>].plan]
      BY <2>1, <3>1 DEF RequestShape, AdminOps, ActiveRow, NoSub
    <3>6. Route3 \cup {"approve.activate"} \subseteq RouteWatch
      BY DEF RouteWatch
    <3>. QED
      BY <1>3, <3>1, <3>2, <3>3, <3>4, <3>5, <3>6
      DEF LimitHeld, EditPcs, ActiveOnPlan, ActiveProducts, ActiveRow
  <2>3. ASSUME NEW a \in Apps, NEW p \in Products, ActiveRow(a, p), products[p].auth = "key-auth"
        PROVE  \/ consumers'["production"][a].limit = plans'[subs'[<<a, p>>].plan].limit
               \/ \E t \in Requests : Owes(req'[t], a, subs'[<<a, p>>].plan)
    <3>1. plans'[subs[<<a, p>>].plan] = plans[subs[<<a, p>>].plan]
      BY <2>1, <2>3 DEF ActiveRow, NoSub
    <3>. QED  BY <1>3, <2>3, <3>1 DEF LimitInv
  <2>. QED  BY <1>3, <2>2, <2>3 DEF LimitInv, Owes, ActiveRow
<1>. QED  BY <1>1, <1>2, <1>3, PlansMeanwhile DEF Fail

\* The rate limit of a live key-auth subscription is that of its plan whenever
\* no request is in progress; as long as requests neither overlap nor fail half
\* way, no product goes back to key-auth, and an application subscribes on one plan
\* at a time.
THEOREM LimitsFollowPlan ==
    ASSUME MaxFaults = 0
    PROVE  Spec /\ [](Serial /\ NoMigrationBack /\ OnePlanEach) => []LimitFollowsPlan
<1>. DEFINE Aux == Ground /\ ProvisionedInv /\ PlanHeld /\ LimitInv
            Cond == Serial /\ NoMigrationBack /\ OnePlanEach
<1>1. Init => Aux
  BY InitGround, NoReqType
  DEF Init, ProvisionedInv, PlanHeld, LimitInv, LimitHeld, ActiveRow, NoSub, EditPcs, Route3
<1>2. IInv /\ IInv' /\ Cond /\ Cond' /\ Aux /\ [Next]_vars => Aux'
  <2>1. Serial => ResubmissionsApart
    BY DEF Serial, Idle, ResubmissionsApart
  <2>. QED  BY <2>1, NextGround, NextProvisioned, NextPlanHeld, NextLimits
<1>3. IInv /\ Aux => LimitFollowsPlan
  <2>. SUFFICES ASSUME IInv, LimitInv, Quiescent, NEW a \in Apps, NEW p \in Products,
                       ActiveRow(a, p), products[p].auth = "key-auth"
                PROVE  consumers["production"][a].limit = plans[subs[<<a, p>>].plan].limit
    BY DEF LimitFollowsPlan
  <2>1. \A r \in Requests : req[r].pc = "idle"
    BY NoReqType DEF Quiescent, Idle, IInv, ShapeInv, RequestShape
  <2>. QED  BY <2>1 DEF LimitInv, Owes
<1>. HIDE DEF Aux, Cond
<1>4. [](Serial /\ NoMigrationBack /\ OnePlanEach) => []Cond
  BY PTL DEF Cond
<1>. QED  BY <1>1, <1>2, <1>3, <1>4, Invariance, PTL DEF Spec

-----------------------------------------------------------------------------
(* What an approval leaves when it returns *)

\* The steps of an approval from the installed consumer on.
PastConsumer == Route3 \cup {"approve.activate"} \cup Windows

\* The statements and calls of an approval.
ApprovalStep(r) ==
    \/ ApproveProduct(r) \/ ApproveClientId(r) \/ ApproveCredential(r) \/ ApproveConsumer(r)
    \/ RouteProduct(r) \/ RouteMembers(r) \/ RoutePush(r) \/ ApproveActivate(r) \/ ApproveSandbox(r)
    \/ SandboxProduct(r) \/ SandboxMembers(r) \/ SandboxPush(r) \/ BillPricing(r) \/ BillCreate(r)
LEMMA ApprovalSteps ==
    ASSUME TypeOK, ShapeInv, NEW r \in Requests, Step(r), req[r].op = "approve"
    PROVE  ApprovalStep(r)
<1>1. ~Idle(r) /\ RequestShape(req[r])
  BY DEF Idle, ShapeInv
<1>2. ~CredentialsNext(r)
  BY <1>1 DEF At, RequestShape, MayBeAt, RotatePcs, EnablePcs, DeletePcs, CredentialsNext, Rotate, RotateSandbox,
     EnableSandbox, DeleteApp, SetOidc, Begin, RotateConsumer, RotateSave, EnableConsumer, EnableSave, OidcProducts,
     DeleteNext, DeleteCredential, DeleteConsumer, DeleteSandboxKey, DeleteSandboxConsumer, DeleteRow
<1>3. ~ProductNext(r)
  BY <1>1 DEF At, RequestShape, MayBeAt, ProductNext, UpdateProduct, DeleteProduct, Begin, ProductSave, ProductCount,
     ProductDelete, ProductDeprovision
<1>4. ~PlanNext(r)
  BY <1>1 DEF At, RequestShape, MayBeAt, PlanPcs, PlanNext, UpdatePlan, DeletePlan, Begin, PlanSave, PlanRead,
     PlanConsumers, PlanPush, PlanSandboxConsumers, PlanSandboxPush, PlanDelete
<1>5. SubscriptionNext(r) => ApprovalStep(r)
  BY <1>1 DEF At, RequestShape, MayBeAt, SubscriptionNext, Subscribe, Unsubscribe, Reject, Approve, Begin,
     SubscribeCredential, SubscribeSave, RejectSet, ApprovalStep
<1>. QED  BY <1>2, <1>3, <1>4, <1>5 DEF Step, RouteNext, ApprovalStep

\* What an approval reads and installs is the stored key and the limit of its
\* plan; once activated, its row stays active.
SettleHeld(q) == q.op = "approve" =>
    /\ q.pc \in {"approve.credential", "approve.consumer"} => q.limit = plans[q.plan].limit
    /\ q.pc \in PastConsumer /\ products[q.prod].auth = "key-auth" =>
           consumers["production"][q.app] = [key |-> creds[q.app].key, limit |-> plans[q.plan].limit]
    /\ q.pc \in Windows => IsSubscription(<<q.app, q.prod>>, q.sub) /\ RowOf(q).status = "active"
SettleInv == \A r \in Requests : SettleHeld(req[r])

\* The row of an approval, its plan, its product and its application are there,
\* wherever the approval is.
LEMMA ApprovalStands ==
    ASSUME IInv, Ground, PlanHeld, SettleInv, NEW r \in Requests, req[r].op = "approve",
           req[r].pc \in RouteWatch \cup Windows
    PROVE  /\ req[r].app \in apps /\ req[r].prod \in Products /\ products[req[r].prod].live
           /\ IsSubscription(<<req[r].app, req[r].prod>>, req[r].sub)
           /\ req[r].plan \in Plans /\ plans[req[r].plan].state = "live"
<1>. DEFINE q == req[r]
            z == <<req[r].app, req[r].prod>>
<1>1. Held(q) /\ RequestShape(q) /\ RowInv /\ PlanOutlivesSubscriptions /\ SettleHeld(q) /\ Referenced
  BY DEF Ground, HeldInv, IInv, ShapeInv, SettleInv
<1>2. q.app \in Apps /\ q.prod \in Products /\ z \in Apps \X Products
  BY <1>1 DEF RequestShape, AdminOps
<1>3. IsSubscription(z, q.sub)
  BY <1>1 DEF Held, ApprovalHeld, SettleHeld
<1>4. subs[z] # NoSub /\ subs[z].plan = q.plan
  BY <1>2, <1>3 DEF PlanHeld, IsSubscription
<1>5. q.plan \in Plans /\ plans[q.plan].state = "live"
  BY <1>1, <1>2, <1>4 DEF RowInv, PlanOutlivesSubscriptions
<1>6. z[1] \in apps /\ products[z[2]].live
  BY <1>1, <1>2, <1>4 DEF Referenced
<1>. QED  BY <1>2, <1>3, <1>5, <1>6

\* An approval that does not go on returns where it has nothing to bill, or
\* with its invoice.
Concludes(r) ==
    /\ Finish(r)
    /\ \/ BillPricing(r) /\ (~plans[req[r].plan].paid \/ PendingInvoiceExists(req[r].sub))
       \/ /\ BillCreate(r)
          /\ \E n \in DOMAIN invoices' : invoices'[n].sub = req[r].sub /\ invoices'[n].status # "void"

\* What an approval holds of limit, consumer and row stays so, step by step.
LEMMA NextSettleHeld ==
    ASSUME IInv, IInv', Ground, PlanHeld, SettleInv, NEW r \in Requests, Step(r), req[r].op = "approve"
    PROVE  \/ SettleHeld(req[r])' /\ req'[r].op = "approve"
           \/ Concludes(r)
<1>. DEFINE q == req[r]
            s == req'[r]
            z == <<req[r].app, req[r].prod>>
<1>1. /\ TypeOK /\ ShapeInv /\ q \in Request /\ ApprovalStep(r) /\ SettleHeld(q) /\ KeyHeld(q) /\ Held(q)
      /\ "production" \in Envs /\ q.app \in Apps
  BY ApprovalSteps DEF IInv, TypeOK, Envs, SettleInv, Ground, KeyInv, HeldInv, ShapeInv, RequestShape, AdminOps
<1>2. q.pc \in RouteWatch \cup Windows
  BY <1>1 DEF ApprovalStep, ApproveProduct, ApproveClientId, ApproveCredential, ApproveConsumer, RouteProduct,
     RouteMembers, RoutePush, ApproveActivate, ApproveSandbox, SandboxProduct, SandboxMembers, SandboxPush,
     BillPricing, BillCreate, At, RouteWatch, Route3, Sandbox3, Windows
<1>3. /\ q.app \in apps /\ q.prod \in Products /\ products[q.prod].live /\ IsSubscription(z, q.sub)
      /\ z \in Apps \X Products /\ q.plan \in Plans /\ plans[q.plan].state = "live"
  BY <1>1, <1>2, ApprovalStands
<1>4. At(r, "route.push") => q.work = {}
  BY <1>1 DEF At, Held, WorkHeld, RouteWatch, Route3
<1>5. ASSUME SameRow(q, s), q.pc \in PastConsumer, UNCHANGED <<products, plans, creds, consumers>>,
             s.pc \in PastConsumer, UNCHANGED subs,
             s.pc \in Windows => q.pc \in Windows
      PROVE  SettleHeld(req[r])'
  BY <1>1, <1>5 DEF SettleHeld, SameRow, PastConsumer, Windows, Route3, IsSubscription, RowOf
<1>6. CASE ApproveProduct(r)
  <2>1. CASE Goto(r, "approve.clientId")
    BY <1>1, <2>1, GotoFields DEF Same, SettleHeld, PastConsumer, Route3, Windows
  <2>2. CASE req' = [req EXCEPT ![r] = [q EXCEPT !.pc = "approve.credential", !.limit = plans[q.plan].limit]]
    <3>1. s.op = "approve" /\ s.pc = "approve.credential" /\ s.plan = q.plan /\ s.limit = plans[q.plan].limit
      BY <1>1, <2>2 DEF TypeOK, Request
    <3>. QED  BY <1>6, <3>1 DEF SettleHeld, PastConsumer, Route3, Windows, ApproveProduct, Unprovisioned, adminVars
  <2>. QED  BY <1>3, <1>6, <2>1, <2>2 DEF ApproveProduct
<1>7. CASE ApproveClientId(r)
  <2>1. products[q.prod].auth = "oauth2"
    BY <1>1, <1>7 DEF Held, ApprovalHeld, ApproveClientId, At, RouteWatch
  <2>2. SameRow(q, s) /\ s.pc = "route.product"
    <3>1. ASSUME NEW S, req' = [req EXCEPT ![r] = [q EXCEPT !.pc = "route.product", !.extra = S]]
          PROVE  SameRow(q, s) /\ s.pc = "route.product"
      BY <1>1, <3>1 DEF TypeOK, Request, SameRow
    <3>2. ASSUME Goto(r, "route.product") PROVE SameRow(q, s) /\ s.pc = "route.product"
      BY <1>1, <3>2, GotoFields DEF Same, SameRow
    <3>. QED  BY <1>7, <3>1, <3>2 DEF ApproveClientId
  <2>. QED  BY <1>7, <2>1, <2>2 DEF SettleHeld, SameRow, Windows, ApproveClientId, adminVars
<1>8. CASE ApproveCredential(r)
  <2>. DEFINE k == creds'[q.app].key
  <2>1. s = [q EXCEPT !.pc = "approve.consumer", !.key = k]
    BY <1>1, <1>3, <1>8 DEF ApproveCredential, TypeOK
  <2>. HIDE DEF k
  <2>2. s.op = "approve" /\ s.pc = "approve.consumer" /\ s.plan = q.plan /\ s.limit = q.limit
    BY <1>1, <2>1 DEF Request
  <2>3. q.limit = plans[q.plan].limit /\ UNCHANGED plans
    BY <1>1, <1>8 DEF SettleHeld, ApproveCredential, At, adminVars
  <2>. QED  BY <2>2, <2>3 DEF SettleHeld, PastConsumer, Route3, Windows
<1>9. CASE ApproveConsumer(r)
  <2>1. s = [q EXCEPT !.pc = "route.product", !.extra = {q.app}]
    BY <1>1, <1>9 DEF ApproveConsumer, TypeOK
  <2>2. SameRow(q, s) /\ s.pc = "route.product"
    BY <1>1, <2>1 DEF Request, SameRow
  <2>3. q.limit = plans[q.plan].limit /\ q.key = creds[q.app].key
    BY <1>1, <1>9 DEF SettleHeld, KeyHeld, ApproveConsumer, At
  <2>. DEFINE c == [key |-> q.key, limit |-> q.limit]
  <2>4. consumers' = [consumers EXCEPT !["production"] = [consumers["production"] EXCEPT ![q.app] = c]]
    BY <1>9 DEF ApproveConsumer, EnsureConsumer
  <2>5. c = [key |-> creds[q.app].key, limit |-> plans[q.plan].limit]
    BY <2>3
  <2>. HIDE DEF c
  <2>6. consumers'["production"][q.app] = c
    BY <1>1, <2>4 DEF TypeOK
  <2>. QED  BY <1>9, <2>2, <2>5, <2>6 DEF SettleHeld, SameRow, Windows, ApproveConsumer, adminVars, keyVars
<1>10. CASE RouteProduct(r)
  <2>1. s = [q EXCEPT !.pc = "route.members", !.auth = products[q.prod].auth]
    BY <1>1, <1>3, <1>10 DEF RouteProduct, TypeOK
  <2>2. SameRow(q, s) /\ s.pc = "route.members"
    BY <1>1, <2>1 DEF Request, SameRow
  <2>. QED  BY <1>1, <1>5, <1>10, <2>2
       DEF RouteProduct, At, Unprovisioned, adminVars, subVars, keyVars, PastConsumer, Route3, Windows, SameRow
<1>11. CASE RouteMembers(r)
  <2>. DEFINE S == RouteAllowed(q)
  <2>1. s = [q EXCEPT !.pc = "route.push", !.allowed = S]
    BY <1>1, <1>11 DEF RouteMembers, TypeOK
  <2>. HIDE DEF S
  <2>2. SameRow(q, s) /\ s.pc = "route.push"
    BY <1>1, <2>1 DEF Request, SameRow
  <2>. QED  BY <1>1, <1>5, <1>11, <2>2
       DEF RouteMembers, At, Unprovisioned, adminVars, subVars, keyVars, PastConsumer, Route3, Windows, SameRow
<1>12. CASE RoutePush(r)
  <2>1. ReturnTo(r, "approve.activate")
    BY <1>1, <1>4, <1>12 DEF RoutePush, AfterRoute
  <2>2. SameRow(q, s) /\ s.pc = "approve.activate"
    BY <1>1, <2>1, ReturnToFields DEF Same, SameRow
  <2>. QED  BY <1>1, <1>5, <1>12, <2>2
       DEF RoutePush, At, Unprovisioned, adminVars, subVars, keyVars, PastConsumer, Route3, Windows, SameRow
<1>13. CASE ApproveActivate(r)
  <2>1. PICK pc \in {"approve.sandbox", "bill.pricing"} : Goto(r, pc)
    BY <1>3, <1>13 DEF ApproveActivate, HasSubscription
  <2>2. SameRow(q, s) /\ s.pc \in {"approve.sandbox", "bill.pricing"}
    BY <1>1, <2>1, GotoFields DEF Same, SameRow
  <2>3. subs'[z] # NoSub /\ subs'[z].id = q.sub /\ subs'[z].status = "active"
    <3>. DEFINE row == [subs[z] EXCEPT !.status = "active"]
    <3>1. subs'[z] = row
      BY <1>3, <1>13 DEF ApproveActivate, SetSubscriptionStatus
    <3>2. row.status = "active" /\ row.id = subs[z].id
      BY <1>1, <1>3 DEF TypeOK, SubRow
    <3>. QED  BY <1>3, <3>1, <3>2 DEF IsSubscription, NoSub
  <2>. QED  BY <1>1, <1>13, <2>2, <2>3
       DEF ApproveActivate, At, adminVars, keyVars, gwVars, SettleHeld, SameRow, PastConsumer, Windows, RowOf,
           IsSubscription
<1>14. CASE ApproveSandbox(r)
  <2>1. PICK pc \in {"sandbox.product", "bill.pricing"} : Goto(r, pc)
    BY <1>14 DEF ApproveSandbox
  <2>2. SameRow(q, s) /\ s.pc \in {"sandbox.product", "bill.pricing"}
    BY <1>1, <2>1, GotoFields DEF Same, SameRow
  <2>. QED  BY <1>1, <1>5, <1>14, <2>2
       DEF ApproveSandbox, At, adminVars, subVars, keyVars, gwVars, PastConsumer, Windows, SameRow
<1>15. CASE SandboxProduct(r)
  <2>1. PICK pc \in {"sandbox.members", "sandbox.push"} : Goto(r, pc)
    BY <1>3, <1>15 DEF SandboxProduct
  <2>2. SameRow(q, s) /\ s.pc \in {"sandbox.members", "sandbox.push"}
    BY <1>1, <2>1, GotoFields DEF Same, SameRow
  <2>. QED  BY <1>1, <1>5, <1>15, <2>2
       DEF SandboxProduct, At, Unprovisioned, adminVars, subVars, keyVars, PastConsumer, Windows, SameRow
<1>16. CASE SandboxMembers(r)
  <2>. DEFINE S == SandboxConsumersForProduct(q.prod) \cup q.extra
  <2>1. s = [q EXCEPT !.pc = "sandbox.push", !.allowed = S]
    BY <1>1, <1>16 DEF SandboxMembers, TypeOK
  <2>. HIDE DEF S
  <2>2. SameRow(q, s) /\ s.pc = "sandbox.push"
    BY <1>1, <2>1 DEF Request, SameRow
  <2>. QED  BY <1>1, <1>5, <1>16, <2>2
       DEF SandboxMembers, At, Unprovisioned, adminVars, subVars, keyVars, PastConsumer, Windows, SameRow
<1>17. CASE SandboxPush(r)
  <2>1. ReturnTo(r, "bill.pricing")
    BY <1>17 DEF SandboxPush, AfterSandboxRoute
  <2>2. SameRow(q, s) /\ s.pc = "bill.pricing"
    BY <1>1, <2>1, ReturnToFields DEF Same, SameRow
  <2>. QED  BY <1>1, <1>5, <1>17, <2>2
       DEF SandboxPush, At, Unprovisioned, adminVars, subVars, keyVars, PastConsumer, Windows, SameRow
<1>18. CASE BillPricing(r)
  <2>1. CASE Goto(r, "bill.create")
    <3>1. SameRow(q, s) /\ s.pc = "bill.create"
      BY <1>1, <2>1, GotoFields DEF Same, SameRow
    <3>. QED  BY <1>1, <1>5, <1>18, <3>1
         DEF BillPricing, At, Unprovisioned, adminVars, subVars, keyVars, PastConsumer, Windows, SameRow
  <2>. QED  BY <1>3, <1>18, <2>1 DEF BillPricing, Concludes
<1>19. CASE BillCreate(r)
  <2>. DEFINE j == [sub |-> q.sub, plan |-> q.plan, status |-> "pending"]
  <2>1. invoices' = Append(invoices, j)
    BY <1>3, <1>19 DEF BillCreate, HasSubscription
  <2>2. j.sub = q.sub /\ j.status # "void"
    OBVIOUS
  <2>. HIDE DEF j
  <2>3. invoices \in Seq(InvoiceRow)
    BY <1>1 DEF TypeOK
  <2>4. Len(invoices) + 1 \in DOMAIN invoices' /\ invoices'[Len(invoices) + 1] = j
    BY <2>1, <2>3
  <2>. QED  BY <1>19, <2>2, <2>4 DEF BillCreate, Concludes
<1>. QED
  BY <1>1, <1>6, <1>7, <1>8, <1>9, <1>10, <1>11, <1>12, <1>13, <1>14, <1>15, <1>16, <1>17, <1>18, <1>19
  DEF ApprovalStep

\* Nothing is held at first, and nothing is lost.
LEMMA NextSettled ==
    ASSUME IInv, IInv', Serial, Serial', Ground, PlanHeld, SettleInv, [Next]_vars
    PROVE  SettleInv'
<1>1. /\ BaseInv /\ TypeOK /\ ShapeInv /\ NoReq.op = "none" /\ NoReq.pc = "idle"
      /\ PastConsumer \cup {"approve.credential", "approve.consumer"} \subseteq RouteWatch \cup Windows
  BY NoReqType DEF IInv, BaseInv, PastConsumer, RouteWatch
<1>2. ASSUME NEW r \in Requests, Step(r), NEW t \in Requests
      PROVE  SettleHeld(req[t])'
  <2>1. CASE t # r
    <3>1. req'[t] = NoReq
      BY <1>1, <1>2, <2>1, Alone
    <3>. QED  BY <1>1, <3>1 DEF SettleHeld
  <2>2. CASE t = r /\ req[r].op = "approve"
    <3>1. Concludes(r) => req'[r] = NoReq
      BY <1>1, FinishFields DEF Concludes
    <3>. QED  BY <1>1, <1>2, <2>2, <3>1, NextSettleHeld DEF SettleHeld
  <2>3. CASE t = r /\ req[r].op # "approve"
    <3>1. ASSUME NEW a \in Apps, NEW p \in Products, Approve(r, a, p)
          PROVE  req'[r].pc = "approve.product"
      BY <1>1, <3>1 DEF Approve, Begin, TypeOK, NoReq
    <3>2. req'[r].op = "approve" => req'[r].pc = "approve.product"
      BY <1>1, <2>3, <3>1, ApprovalMoves DEF SameRow
    <3>. QED  BY <2>3, <3>2 DEF SettleHeld, PastConsumer, Route3, Windows
  <2>. QED  BY <2>1, <2>2, <2>3
<1>3. ASSUME NEW r \in Requests, Fail(r), NEW t \in Requests
      PROVE  SettleHeld(req[t])'
  <2>1. req'[t] = NoReq
    BY <1>1, <1>3, Alone, FinishFields DEF Fail
  <2>. QED  BY <1>1, <2>1 DEF SettleHeld
<1>4. ASSUME UNCHANGED <<products, subs, creds, consumers, req>>,
             \A pl \in Plans : plans[pl].state = "live" => plans'[pl] = plans[pl],
             NEW t \in Requests
      PROVE  SettleHeld(req[t])'
  <2>1. SettleHeld(req[t]) /\ req'[t] = req[t]
    BY <1>4 DEF SettleInv
  <2>2. req[t].op = "approve" /\ req[t].pc \in PastConsumer \cup {"approve.credential", "approve.consumer"} =>
            plans'[req[t].plan] = plans[req[t].plan]
    BY <1>1, <1>4, ApprovalStands
  <2>. QED  BY <1>4, <2>1, <2>2 DEF SettleHeld, IsSubscription, RowOf
<1>. QED  BY <1>1, <1>2, <1>3, <1>4, PlansMeanwhile, NextByOne DEF SettleInv

\* An approval that returns without an error has settled row, consumer and
\* invoice, as long as no two requests overlap: whatever failed before it and
\* wherever, whatever plan the row was on before, whatever was billed and voided.
THEOREM ApprovalAlwaysSettles == Spec /\ []Serial => ApprovalSettles
<1>. DEFINE Aux == Ground /\ PlanHeld /\ SettleInv
            Settles(r) ==
                LET a == req[r].app  p == req[r].prod  plan == plans[req[r].plan] IN
                /\ subs'[<<a, p>>].status = "active"
                /\ products[p].auth = "key-auth" =>
                       consumers'["production"][a] = [key |-> creds'[a].key, limit |-> plan.limit]
                /\ plan.paid => \E n \in DOMAIN invoices' :
                       invoices'[n].sub = req[r].sub /\ invoices'[n].status # "void"
            Settled == \A r \in Requests : Returned(r, "approve") => Settles(r)
<1>1. Init => Aux
  BY InitGround, NoReqType DEF Init, PlanHeld, SettleInv, SettleHeld
<1>2. IInv /\ IInv' /\ Serial /\ Serial' /\ Aux /\ [Next]_vars => Aux'
  <2>1. Serial => ResubmissionsApart
    BY DEF Serial, Idle, ResubmissionsApart
  <2>. QED  BY <2>1, NextGround, NextPlanHeld, NextSettled
<1>3. ASSUME IInv, IInv', Serial, Serial', Aux, [Next]_vars, NEW r \in Requests, Returned(r, "approve")
      PROVE  Settles(r)
  <2>. DEFINE q == req[r]
  <2>1. TypeOK /\ q.op = "approve" /\ req'[r].op = "none" /\ faults' = faults /\ BaseInv /\ NoReq.op = "none"
    BY <1>3, NoReqType DEF IInv, BaseInv, Returned
  <2>2. Step(r)
    <3>1. ASSUME NEW t \in Requests, Step(t) \/ Fail(t) PROVE t = r
      <4>1. t # r => req[r] = NoReq
        BY <1>3, <2>1, <3>1, Alone
      <4>. QED  BY <2>1, <4>1
    <3>2. \E t \in Requests : Step(t) \/ Fail(t)
      BY <1>3, <2>1, NextByOne
    <3>3. ~Fail(r)
      BY <2>1 DEF Fail, TypeOK
    <3>. QED  BY <3>1, <3>2, <3>3
  <2>3. Concludes(r)
    BY <1>3, <2>1, <2>2, NextSettleHeld
  <2>4. q.pc \in Windows /\ UNCHANGED <<subs, consumers, creds>>
    BY <2>3 DEF Concludes, BillPricing, BillCreate, At, Windows, Unprovisioned, subVars, keyVars, gwVars
  <2>5. SettleHeld(q) /\ q.pc \in PastConsumer
    BY <1>3, <2>4 DEF SettleInv, PastConsumer
  <2>6. q.plan \in Plans /\ (PendingInvoiceExists(q.sub) /\ BillPricing(r) =>
            \E n \in DOMAIN invoices' : invoices'[n].sub = q.sub /\ invoices'[n].status # "void")
    BY <1>3, <2>1, <2>4, ApprovalStands DEF PendingInvoiceExists, BillPricing, Unprovisioned, billVars
  <2>. QED  BY <2>1, <2>3, <2>4, <2>5, <2>6 DEF SettleHeld, RowOf, Concludes
<1>4. IInv /\ IInv' /\ Serial /\ Serial' /\ Aux /\ [Next]_vars => [Settled]_vars
  BY <1>3
<1>5. ApprovalSettles <=> [][Settled]_vars
  BY PTL DEF ApprovalSettles
<1>. HIDE DEF Aux, Settled
<1>. QED  BY <1>1, <1>2, <1>4, <1>5, Invariance, PTL DEF Spec

=============================================================================
