------------------------------ MODULE Billing ------------------------------
(***************************************************************************)
(* The admin settles invoices.  Invoices are created by the activation of  *)
(* a paid subscription (SubscriptionService), and detached from it when    *)
(* the subscription is deleted.                                            *)
(***************************************************************************)
EXTENDS AppCredentials

\* One conditional UPDATE: only a pending invoice changes.
Settle(n, status) ==
    /\ invoices[n].status = "pending"
    /\ invoices' = [invoices EXCEPT ![n].status = status]
    /\ UNCHANGED <<adminVars, appVars, subVars, keyVars, gwVars, req, faults, histVars>>

MarkPaid(n) == "markPaid" \in Ops /\ Settle(n, "paid")
Void(n) == "void" \in Ops /\ Len(invoices) < MaxInvoices /\ Settle(n, "void")

BillingNext == \E n \in DOMAIN invoices : MarkPaid(n) \/ Void(n)

=============================================================================
