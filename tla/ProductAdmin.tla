---------------------------- MODULE ProductAdmin ----------------------------
(***************************************************************************)
(* The admin edits or deletes a product.  Both first read what the active  *)
(* subscriptions are, then write the product, then touch the gateway.      *)
(***************************************************************************)
EXTENDS RouteProvisioning

\* Mutant: a changed auth_type alone does not rebuild the route.
UpdateProductUpstreamOnly(r, p, row, moved) ==
    /\ products[p].live
    /\ row.sandbox # products[p].sandbox => "sandbox" \in moved
    /\ row.auth = "oauth2" => \A a \in ActiveApps(p) : oidc[a] # None
    /\ Begin(r, "updateProduct",
             [NoReq EXCEPT !.pc = "product.save", !.prod = p, !.row = row,
                !.work = (moved \cap {"sandbox"}) \cup (IF "upstream" \in moved THEN {"count"} ELSE {})])
    /\ Unprovisioned /\ UNCHANGED routes

\* Mutant: a migration to oauth2 does not ask who is ready for it.
UpdateProductUnchecked(r, p, row, moved) ==
    /\ products[p].live
    /\ row.sandbox # products[p].sandbox => "sandbox" \in moved
    /\ Begin(r, "updateProduct",
             [NoReq EXCEPT !.pc = "product.save", !.prod = p, !.row = row,
                !.work = (moved \cap {"sandbox"}) \cup {"count"}])
    /\ Unprovisioned /\ UNCHANGED routes

\* Get, CountActiveSubscriptions and OAuthReadyConsumerCount.  moved names the
\* upstream URLs that change; a sandbox appears or goes by changing its URL.
\* The count is read now only for a migration to oauth2, and then kept.
UpdateProduct(r, p, row, moved) ==
    LET old == products[p]
        migrates == row.auth = "oauth2" /\ old.auth # "oauth2"
        rebuilds == "upstream" \in moved \/ row.auth # old.auth
        counted == migrates /\ ActiveApps(p) # {}
    IN  /\ old.live
        /\ row.sandbox # old.sandbox => "sandbox" \in moved
        /\ migrates => \A a \in ActiveApps(p) : oidc[a] # None
        /\ Begin(r, "updateProduct",
                 [NoReq EXCEPT !.pc = "product.save", !.prod = p, !.row = row,
                    !.work = (moved \cap {"sandbox"})
                             \cup (IF rebuilds /\ ~migrates THEN {"count"} ELSE {})
                             \cup (IF rebuilds /\ counted THEN {"route"} ELSE {})])
        /\ Unprovisioned /\ UNCHANGED routes

\* What is left to do once the row is written, or once it is known that no
\* active subscription needs the route rebuilt.
Remaining(r, work) ==
    \/ "count" \in work /\ Goto(r, "product.count")
    \/ "route" \in work /\ Goto(r, "route.product")
    \/ work = {"sandbox"} /\ SandboxConfigured /\ Goto(r, "sandbox.product")
    \/ work = {"sandbox"} /\ ~SandboxConfigured /\ Finish(r)
    \/ work = {} /\ Finish(r)

ProductSave(r) ==
    /\ At(r, "product.save")
    /\ \/ /\ products[req[r].prod].live
          /\ products' = [products EXCEPT ![req[r].prod] = req[r].row]
          /\ Remaining(r, req[r].work)
       \/ ~products[req[r].prod].live /\ Finish(r) /\ UNCHANGED products
    /\ UNCHANGED <<plans, appVars, subVars, keyVars, billVars, gwVars, faults, histVars>>

ProductCount(r) ==
    /\ At(r, "product.count")
    /\ IF ActiveApps(req[r].prod) # {} THEN Goto(r, "route.product")
                                       ELSE Remaining(r, req[r].work \ {"count"})
    /\ Unprovisioned /\ UNCHANGED routes

-----------------------------------------------------------------------------

\* Mutant: active subscriptions do not refuse the delete.
DeleteProductInUse(r, p) ==
    /\ products[p].live
    /\ Begin(r, "deleteProduct", [NoReq EXCEPT !.pc = "product.delete", !.prod = p])
    /\ Unprovisioned /\ UNCHANGED routes

DeleteProduct(r, p) ==
    /\ products[p].live
    /\ ActiveApps(p) = {}
    /\ Begin(r, "deleteProduct", [NoReq EXCEPT !.pc = "product.delete", !.prod = p])
    /\ Unprovisioned /\ UNCHANGED routes

\* The subscriptions cascade with the product, active ones too; their
\* invoices stay, detached.
ProductDelete(r) ==
    /\ At(r, "product.delete")
    /\ LET p == req[r].prod IN
       \/ /\ products[p].live
          /\ products' = [products EXCEPT ![p] = NoProduct]
          /\ subs' = [x \in Apps \X Products |-> IF x[2] = p THEN NoSub ELSE subs[x]]
          /\ DetachInvoices({subs[<<a, p>>].id : a \in Apps})
          /\ Goto(r, "product.deprovision")
       \/ ~products[p].live /\ Finish(r) /\ UNCHANGED <<products, subs, invoices>>
    /\ UNCHANGED <<plans, appVars, nextSub, keyVars, gwVars, faults, histVars>>

\* Best effort: the product is deleted whether or not this succeeds.
ProductDeprovision(r) ==
    /\ At(r, "product.deprovision")
    /\ DeleteRoute("production", req[r].prod)
    /\ Finish(r)
    /\ Unprovisioned

ProductNext(r) ==
    \/ \E p \in Products, row \in Edits, moved \in SUBSET {"upstream", "sandbox"} :
          UpdateProduct(r, p, row, moved)
    \/ \E p \in Products : DeleteProduct(r, p)
    \/ ProductSave(r) \/ ProductCount(r) \/ ProductDelete(r) \/ ProductDeprovision(r)

=============================================================================
