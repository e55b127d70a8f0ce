----------------------------- MODULE PlanAdmin -----------------------------
(***************************************************************************)
(* The admin creates, edits or deletes a plan.  When an edit changes the   *)
(* rate limit, ReprovisionPlan installs every active subscriber's consumer *)
(* again, with the new limit and with the keys of a list it read once.     *)
(***************************************************************************)
EXTENDS RouteProvisioning

\* One INSERT; an id nobody had.
CreatePlan(pl, row) ==
    /\ "createPlan" \in Ops
    /\ plans[pl].state = "unused"
    /\ plans' = [plans EXCEPT ![pl] = row]
    /\ UNCHANGED <<products, appVars, subVars, keyVars, billVars, gwVars, req, faults, histVars>>

-----------------------------------------------------------------------------
(* Update *)

\* GetPlan: the limit is kept, to compare the saved row with.
UpdatePlan(r, pl) ==
    /\ plans[pl].state = "live"
    /\ Begin(r, "updatePlan",
             [NoReq EXCEPT !.pc = "plan.save", !.plan = pl, !.limit = plans[pl].limit])
    /\ Unprovisioned /\ UNCHANGED routes

\* Mutant: the consumers keep the limit they have.
PlanSaveOnly(r) ==
    /\ At(r, "plan.save")
    /\ \E row \in PlanEdits :
          plans' = IF plans[req[r].plan].state = "live"
                   THEN [plans EXCEPT ![req[r].plan] = row] ELSE plans
    /\ Finish(r)
    /\ UNCHANGED <<products, appVars, subVars, keyVars, billVars, gwVars, faults, histVars>>

PlanSave(r) ==
    /\ At(r, "plan.save")
    /\ \/ /\ plans[req[r].plan].state = "live"
          /\ \E row \in PlanEdits :
                /\ plans' = [plans EXCEPT ![req[r].plan] = row]
                /\ IF row.limit = req[r].limit THEN Finish(r) ELSE Goto(r, "plan.read")
       \/ plans[req[r].plan].state # "live" /\ Finish(r) /\ UNCHANGED plans
    /\ UNCHANGED <<products, appVars, subVars, keyVars, billVars, gwVars, faults, histVars>>

\* ReprovisionPlan reads the plan again: another edit may have been saved.
PlanRead(r) ==
    /\ At(r, "plan.read")
    /\ IF plans[req[r].plan].state = "live"
       THEN req' = [req EXCEPT ![r] = [@ EXCEPT !.pc = "plan.consumers",
                                                !.limit = plans[req[r].plan].limit]]
       ELSE Finish(r)
    /\ Unprovisioned /\ UNCHANGED routes

\* Go on with the consumers left of the list, or with what follows the loop.
PushRest(r, keys) ==
    \/ /\ keys # NoKeys
       /\ req' = [req EXCEPT ![r] = [@ EXCEPT !.pc = "plan.push", !.keys = keys]]
    \/ /\ keys = NoKeys /\ SandboxConfigured
       /\ req' = [req EXCEPT ![r] = [@ EXCEPT !.pc = "plan.sandboxConsumers", !.keys = keys]]
    \/ keys = NoKeys /\ ~SandboxConfigured /\ Finish(r)
SandboxPushRest(r, keys) ==
    \/ /\ keys # NoKeys
       /\ req' = [req EXCEPT ![r] = [@ EXCEPT !.pc = "plan.sandboxPush", !.keys = keys]]
    \/ keys = NoKeys /\ Finish(r)

\* The keys are held by value from here on: a rotation may replace them.
PlanConsumers(r) ==
    /\ At(r, "plan.consumers")
    /\ PushRest(r, ConsumersForPlan(req[r].plan))
    /\ Unprovisioned /\ UNCHANGED routes

PlanPush(r) ==
    /\ At(r, "plan.push")
    /\ \E a \in Apps :
          /\ req[r].keys[a] # 0
          /\ EnsureConsumer("production", a, req[r].keys[a], req[r].limit)
          /\ PushRest(r, [req[r].keys EXCEPT ![a] = 0])
    /\ UNCHANGED <<adminVars, appVars, subVars, keyVars, billVars, routes, faults, histVars>>

PlanSandboxConsumers(r) ==
    /\ At(r, "plan.sandboxConsumers")
    /\ SandboxPushRest(r, SandboxConsumersForPlan(req[r].plan))
    /\ Unprovisioned /\ UNCHANGED routes

PlanSandboxPush(r) ==
    /\ At(r, "plan.sandboxPush")
    /\ \E a \in Apps :
          /\ req[r].keys[a] # 0
          /\ EnsureConsumer("sandbox", a, req[r].keys[a], req[r].limit)
          /\ SandboxPushRest(r, [req[r].keys EXCEPT ![a] = 0])
    /\ UNCHANGED <<adminVars, appVars, subVars, keyVars, billVars, routes, faults, histVars>>

-----------------------------------------------------------------------------
(* Delete *)

\* CountSubscriptionsForPlan.
DeletePlan(r, pl) ==
    /\ plans[pl].state = "live"
    /\ ~PlanReferenced(pl)
    /\ Begin(r, "deletePlan", [NoReq EXCEPT !.pc = "plan.delete", !.plan = pl])
    /\ Unprovisioned /\ UNCHANGED routes

\* Mutant: the subscriptions' foreign key does not refuse the delete.
PlanDeleteCounted(r) ==
    /\ At(r, "plan.delete")
    /\ plans' = [plans EXCEPT ![req[r].plan].state = "gone"]
    /\ Finish(r)
    /\ UNCHANGED <<products, appVars, subVars, keyVars, billVars, gwVars, faults, histVars>>

\* A row that refers to the plan since then makes the statement fail.
PlanDelete(r) ==
    /\ At(r, "plan.delete")
    /\ plans' = IF PlanReferenced(req[r].plan) THEN plans
                ELSE [plans EXCEPT ![req[r].plan].state = "gone"]
    /\ Finish(r)
    /\ UNCHANGED <<products, appVars, subVars, keyVars, billVars, gwVars, faults, histVars>>

PlanNext(r) ==
    \/ \E pl \in Plans : UpdatePlan(r, pl) \/ DeletePlan(r, pl)
    \/ PlanSave(r) \/ PlanRead(r) \/ PlanConsumers(r) \/ PlanPush(r)
    \/ PlanSandboxConsumers(r) \/ PlanSandboxPush(r) \/ PlanDelete(r)

=============================================================================
