# Formal specification of the APISIX developer portal

This directory holds TLA+ modules that model the portal in `src/internal`, TLC
configurations that check them on small instances, and TLAPS proofs of the
properties that hold for every instance. `PROJECT.json` is the machine-readable
index: components, runs, the source lines of every definition, hazards, findings
and theorems.

## 1. The system

The portal is a Go HTTP server. It keeps its data in Postgres, and it keeps two
APISIX gateways (production and, optionally, sandbox) in step with that data
through their Admin API. Each HTTP request runs in a goroutine of its own. Most
handlers are sequences of autocommit SQL statements and Admin API calls: no
transaction spans two statements of a subscription handler, no lock is taken, and
nothing reconciles the gateway with the tables afterwards. What can go wrong is
therefore in the order of those steps, in what other requests do in between, and
in what an error half way leaves behind.

### Inventory

| Component (under `src/internal`) | State | Operations | Talks to | Hard part | What makes it correct |
|---|---|---|---|---|---|
| Subscription life cycle (`subscriptions/service.go`, `repo.go`) | tables `subscriptions`, `credentials` | Subscribe, Unsubscribe, Approve, Reject | route provisioning, billing, gateways | an approval is seven steps, any of which may fail or be overtaken | active means approved and provisioned; one approval, one status, one plan |
| Route provisioning (same file) | APISIX routes | `reprovisionRoute`, `reprovisionSandboxRoute`, `DeprovisionRoute` | tables, gateways | the list is read, then pushed: it may be stale | the route admits the active subscribers and nobody unapproved |
| Credentials and application deletion (same file, `handler.go`) | `credentials`, `applications.oidc_client_id`, APISIX consumers | RotateKey, RotateSandboxKey, EnableSandbox, SetOIDCClientID, DeleteApplication | route provisioning, gateways | loops over products; gateway written before the database | stored and installed key agree; nothing of a deleted application is left |
| Invoices (`billing`) | `invoices`, `billing_accounts` | SubscriptionActivated (inside Approve), MarkPaid, Void | subscriptions | check, then insert | one live invoice per subscription, for the approved plan |
| Product administration (`admin/service.go`, `icon.go`, `repo.go`) | `api_products`, `product_icons`, `changelog_entries` | Create, Update, Delete, icon upload, changelog | route provisioning | counts, path and readiness checks made before the write; the icon is a statement of its own | the route follows the product; paths do not collide; nothing refers to a deleted product |
| Plan administration (`admin/plan_service.go`) | `plans` | Create, Update (re-installs consumers), Delete | subscriptions, gateways | a count read before the delete; keys read earlier are re-installed | limits follow the plan; a plan in use stays; no rotated key comes back |
| Runtime settings (`settings`, `server/server.go`, `apisix/swappable.go`) | `portal_settings`, snapshot, what is built from it | Set, Reset, boot | every component that reads a setting | commit, snapshot and hooks are separate; a stop between any two | the running configuration is the stored one and obeys the cross-field rule |
| Accounts and e-mail verification (`auth`) | `users` with their tokens, sessions, mails on their way | register, login, resend, verify | settings, limiter, notifier | the gate, the account and the mails move under a handler | no session without a proven address; only the newest link verifies |
| HTTP rate limiter (`httpx/ratelimit.go`) | token buckets in memory | Allow, with its sweep | login, resend, every public handler | a swept bucket starts full again | the sweep is never noticed |
| Teams and ownership (`teams`, `applications`) | `teams`, `team_members`, `applications.team_id` | create, add, remove, delete; application creation and deletion | accounts | roles, kinds and counts read before the write | a team keeps its one owner; no application without a team |
| Ratings (`ratings`) | `product_ratings`, cached average | rate | products, subscriptions | two recomputations that do not see each other | the average is that of the rows |
| Notifications, activity events, usage metrics, catalogue reads, try-it proxy, translations, web front end | none that a decision reads | | | | out of scope (section 9) |

## 2. Modules

| Module | Models |
|---|---|
| `PortalState` | tables, gateways, requests in progress; every query and statement, every Admin API call |
| `RouteProvisioning` | the two rebuild subroutines and where each caller continues |
| `SubscriptionService` | Subscribe, Unsubscribe, Approve with its billing, Reject |
| `AppCredentials` | rotations, EnableSandbox, SetOIDCClientID, DeleteApplication |
| `Billing` | MarkPaid, Void |
| `ProductAdmin` | product Update and Delete as far as the gateways see them |
| `PlanAdmin` | plan Create, Update with ReprovisionPlan, Delete |
| `Portal` | composes all of these; properties; the inductive invariant |
| `Admission` | the abstract specification: approval, then admission, then active |
| `Settings` | the stored settings, the snapshot, the writers' mutex, the change hook, stops and boots |
| `RateLimiter` | `Allow`, its refill and its sweep, per limiter and key |
| `TokenBucket` | the abstract specification: buckets that are never dropped |
| `Accounts` | register, login, resend, verify, mails, the gate, restarts |
| `Teams` | teams, members and the applications teams own |
| `Community` | composes the last four; properties; the inductive invariant |
| `Catalogue` | products as rows with paths, icons and changelogs; ratings; properties and invariant |
| `MCPortal`, `MCSettings`, `MCCommunity`, `MCCatalogue` | instances for TLC |
| `PortalProofs` | theorems of `Portal` for every interleaving, and what each step does to each table |
| `LifeCycleProofs` | extends it: subscriptions, plans and invoices while named requests about one row stay apart |
| `KeyProofs` | extends it: stored and installed keys, one request at a time |
| `RouteProofs` | extends it: lemmas only, what each step does to lists and routes |
| `ProvisioningProofs` | extends it: what the gateways admit; the refinement of `Admission` |
| `SettingsProofs`, `CommunityProofs`, `CatalogueProofs` | theorems of the other compositions |

`PortalState` is extended by `RouteProvisioning`, that by `SubscriptionService`
(then `AppCredentials`, then `Billing`), by `ProductAdmin` and by `PlanAdmin`;
`Portal` extends the ends of the three chains and instantiates `Admission`.
`RateLimiter` (which instantiates `TokenBucket`) is extended by `Accounts`, that by
`Teams`, that by `Community`. `Settings` and `Catalogue` stand alone.

The four compositions touch where one depends on another's tables: `Portal` takes
what it reads of the settings as constants; `Accounts` has the one setting it reads,
the verification gate, as a variable an admin moves at any time; application
deletion is in `AppCredentials` for what it does to subscriptions and gateways and
in `Teams` for who may ask for it and which team is then empty; a product update is in
`ProductAdmin` for the gateways and in `Catalogue` for the tables; `Catalogue` takes
who is subscribed as a variable that others change at any time.

### How state and actions correspond to the code

* **A request** is a record in `req` or `calls`: the operation, `pc` (the statement
  or call it makes next, named `handler.step`) and the handler's local variables, by
  value, as they were when they were read. `extra` is the variadic
  `extraConsumers`, `todo` the rest of a `for range`, `work` what a product
  update has still to do, `keys` the consumers a plan edit has still to install.
  Between `pc`s any other request may run.
* **An action** is one SQL statement (or one transaction, where the code opens one
  that no reader can look into) or one Admin API call together with the
  local control that follows it. The action that starts a handler makes its first
  statement; where a handler only reads several rows in a row, and nothing of
  another request that an outcome depends on can fall between the reads (the
  first statements of Subscribe, of the rotations and of EnableSandbox, and
  `PlanPricing` with `PendingInvoiceExists`), they are one action. For the pair
  in billing this is a simplification in the model's favour: the race it can lose
  is between the check and the insert, which stay apart.
* **A subroutine** (`reprovisionRoute`) is shared: `AfterRoute` says where each
  caller continues. Its errors are the caller's errors, as in the code.
* **Early returns** that write nothing are guards of the starting action; those
  further on are `Finish` or `Return`.
* **Postgres.** Rows are keyed by what the schema makes unique. Ids come from a
  sequence and are never reused. Foreign keys, `ON CONFLICT`, `ON DELETE CASCADE`
  and `ON DELETE SET NULL` are part of the statement that triggers them, and a
  statement a constraint refuses ends its handler with nothing written. Isolation is
  read committed: the rating transaction, whose second statement computes from a
  snapshot and may then wait for a row lock, has an action for the snapshot and one
  for the write. Waits for a lock that only delay a statement are not modelled
  elsewhere: the statement may then also happen earlier, so the model has more
  behaviours than the code.
* **APISIX.** A PUT replaces the object, a DELETE of an absent route is fine, a
  DELETE of an absent consumer is answered 404, which `client.go:51` makes an
  error.
* **Failure.** `Fail` stops a handler between two steps: an error from Postgres
  or APISIX, a cancelled context (the client left) and a stop of the process all
  leave the same state behind, since nothing is rolled back and no retry is
  queued. A call that took effect and still reported an error is that step
  followed by `Fail`. The two errors the code drops (`GetAppOIDCClientID`,
  `GetSandboxKey` in Approve) have a branch of their own. `MaxFaults` bounds how
  many requests fail in a behaviour of `Portal`; in `Catalogue` any request may
  fail, in `Accounts` the process restarts at any step.
* **Data.** Names, keys' text and URLs are left out. A key is a
  number that grows with each generated key, which makes "older" meaningful; so is a
  verification token. An upstream URL is reduced to whether an update changes it
  (`moved`); a product has or has not a sandbox upstream. A plan is its limit (count
  and window as one number) and whether it costs anything: `validate` in
  `admin/plan.go` only refuses rows, and a taken name is a refused row. A context path is
  a sequence of segments, so that "prefix on a slash boundary" is `IsPrefix`; a
  rating average is a sum over a count.
* **History variables.** `approvals` records what an admin approved, as Approve
  read it; `claims` the client ids each application ever registered; `proved` and
  `lax` who redeemed a link of his own and who stood while the gate was open;
  `doubtful` and `shaky` which paths and averages two requests wrote without seeing
  each other; `overtaken` in a call that another one got between its check and its
  write. No guard reads them.
* **Settings.** `w[i]` is a Set or Reset in progress; its `pc` names what it does
  next: wait for the mutex, probe, run the transaction, store the snapshot, rebuild
  binding `hook`. Statements and commit are one action, since the transaction is all
  or nothing; a COMMIT whose error is mistaken is a branch of it (`CommitMayLie`).
  `Restart` may happen between any two steps, in another environment that
  `config.Validate` accepts, and with an encryption key that no longer reads the
  stored secrets. Values are two wire values, keys are the switch, the SMTP keys and
  a secret; `checkKeys` and the types of values are left out, as a refused body
  changes nothing. A hook step is one of the swaps in `server.go`: production
  gateway, sandbox gateway, OIDC (in both places that hold it), usage reader. Two
  bindings are left out because they do not follow the snapshot by design:
  `TRUSTED_PROXIES` keeps its previous value when it does not parse, and the
  promotion of `ADMIN_EMAIL` is best effort. Audit rows are part of the transaction
  and nothing reads them. One process is assumed, as the code does: a second one
  would not see the first one's hooks.
* **Plans.** The plan table starts as `PlanTable` and may grow, change and shrink. An
  id is unused, then live, then gone. `PlanSave` is the UPDATE and the comparison
  with the limit read before it; `PlanRead` reads the plan again, as
  ReprovisionPlan does, so an edit saved in between is what is installed. The list of
  consumers holds keys by value from `PlanConsumers` on. The delete is refused by the
  foreign key of `subscriptions.plan_id` whatever the count said; the code answers
  500 then and 409 when the count finds a row, which the model does not tell apart.
* **The limiter.** Time is `clock`, in the unit in which `Refill` parts of a token
  come back; `Token` parts make a token, so a fractional rate is a whole number of
  parts and the arithmetic exact where the code's is floating point. `Held` is the
  refill the next `Allow` will compute, `Swept` what its sweep does to a bucket.
  `login` and `resend` are the two limiters keyed by the lower-cased address
  (`Lower` may map several addresses to one key); the middleware keyed by client
  address is the same code and only refuses a request before its handler runs.
* **Accounts.** A mail is in `outbox` while its goroutine sends it and in `inbox`
  once it arrived; one that is never delivered is lost, and `Restart` drops the
  outbox. Whoever has a link may post it (`VerifyEmail`), at any later time. A
  session is a signed token: it outlives whatever happens to its account until it
  expires, so `RequireAuth` is `SignedIn` and only `RequireAdmin` looks at the row
  again. Passwords are a nondeterministic outcome of the read, the language
  preference is left out.
* **Not in a behaviour.** In `Portal` applications exist from the start, products
  come from `Catalogue`'s namesake constant, settings are fixed. A deleted product's
  id does not come back. Product creation is in the module `Catalogue`.

## 3. Properties

They come in groups, by what they assume, because the code promises different
things under different assumptions.

* *Whatever the interleaving and whichever request fails* (proved, section 7):
  `NoGrantWithoutApproval`, `ActiveWasApproved`, `InvoiceForApprovedPlan`,
  `PlanOutlivesSubscriptions`. `ConsumerBeforeRoute` too, while no application is
  deleted and no product changes its auth type (proved). The first says that a route
  admits nobody whom no admin *ever* approved for the product. It does not say that
  one approved once, and rejected or resubmitted since, is kept out: with
  overlapping requests he is not (`RejectedIsExcluded`, `finds_readmitted.cfg`).
* *Requests one at a time, any of which may fail*: `ActiveImpliesProvisioned`
  (the comment on Approve), `ActivePlanApproved`, `OneLiveInvoice`,
  `StoredKeyNotAhead`, `StatusTransitions`, `ApprovalConverges`, `ApprovalSettles`
  (an approval of a key-auth product that returns having activated leaves the stored
  key and the plan's limit in the production consumer and, for a paid plan, a live
  invoice, whatever an earlier request left half done).
* *Requests one at a time, none failing*: `RouteIsActiveSet`, `KeysAgree`,
  `SandboxRouteIsRule`, `RotatedKeyStaysDead`, `OAuthApprovalConverges`,
  `DeletedIsErased`, `DeletedProductUnrouted`, `MigrationStrandsNobody`,
  `PaidIsInvoiced`, `LimitFollowsPlan`.
  Both groups are proved for any constants, from the hypothesis that requests do not
  overlap, or from a weaker one where that is enough (section 7).
* *Liveness*: `EveryRequestReturns`, also while another request adds and removes
  the products it loops over (`overlapping_loops.cfg`); `RevocationTakesEffect`.
* *Refinement*: `ImplementsAdmission`, `ImplementsBuckets`.
* *Settings*: `RunningIsStored` (what handlers read is what a boot would read, with
  no call in progress), `AlwaysSendable` (no sequence of writes and stops ends in a
  configuration that demands mail nobody can send), `ArmedFollows` (what is built
  from the settings was built from the running ones), `EveryCallReturns`.
  The first excepts the time after a commit that took effect and was reported as
  failed, until a Reset or a boot reads the table; the second excepts a change of
  environment and any such commit, since Set checks the rule against the snapshot.
* *Accounts* (whatever interleaves, with restarts and late or lost mails; proved):
  `GateHeld` (nobody is signed in who neither redeemed a link of his own nor stood
  while the gate was open), `TokenIffUnverified` (what the comment on
  `ResetVerifyToken` says, both ways), `NewestLinkVerifies`.
* *Teams* (proved): `OneOwner`, `AppsHaveTeam`.
* *Catalogue* (proved): `PathsDisjoint`, `RatingFresh`, `IconsShown`, `NoOrphans`. The
  first two except, through `doubtful` and `shaky`, exactly the products that two
  overlapping requests wrote; see below.

The second and third groups do not hold when requests overlap, and the
configurations named `finds_*` show how (section 8 says which are runs of the
project and which stand beside it):

* A list read before an activation and pushed after it drops the new subscriber
  (`finds_unprovisioned`); one read before a rejection puts the rejected application back
  (`finds_readmitted`). EnableSandbox does the same with a list of products
  (`finds_stale_sandbox`). Approve activates a row rejected since it looked
  (`finds_approved_rejected`), or bills it twice with another approval of it
  (`finds_double_invoice`).
* Approve and ReprovisionPlan re-install the key a rotation has just replaced
  (`finds_old_key`). Two edits of one plan may leave the older
  limit installed.
* A product update's readiness check is stale when the row is written
  (`finds_stranded`); an approval in progress pushes a route after the product was
  deleted (`finds_late_push`).

The third group needs the absence of faults as well. A failed Unsubscribe leaves the
application admitted, on the sandbox route even after the product is deleted
(`finds_leftover`). Repeating DeleteApplication does not revisit the rows the
first attempt removed (`finds_not_erased`). An approval whose read of the client id
or of the sandbox key failed goes on without it (`finds_unlisted_client`,
`finds_dropped_error`). A plan edit that fails after its UPDATE is not repeated by
saving the same limit again, because the comparison then finds no difference.

Two sentences of the design notes do not hold even of one request at a time without
faults: `finds_sandbox_left_out`, and `finds_dropped_subscriber` (`SubscribersKept`,
which compares a route with the active subscriptions themselves and not, as
`RouteIsActiveSet` does, with what the code's query returns for them).

What the catalogue's exceptions stand for. `ContextPathOverlaps` and the write are
two statements, and the unique index only refuses equal paths: two products created at once
may end up one below the other, until one of them is saved with another path
(`admin/service.go:68`). `PathsDisjoint` excepts such a pair, but two paths are never
equal, excepted or not. The race is one the security notes accept
(`docs/superpowers/specs/2026-06-08-security-hardening-design.md:129`).

Two ratings of one product committed by overlapping transactions each compute the
average without the other, although the comments of `ratings/repo.go` say it is kept
in sync (`AverageInSync`, `finds_stale_average`); the next rating alone repairs it.
That a product is never wrong *except* so is what `PathsDisjoint` and `RatingFresh`
say, and their proofs show that nothing else can make it so.

`IconsShown` says that no
image is kept of a product that does not show it, while no save fails half way; one that
fails before `DeleteIcon` leaves the image (`NoLingeringImage`,
`finds_lingering_image`). The converse, that a row which shows an image has one, is
not claimed (section 8).

## 4. Runs

`settings` and `finds_unsendable` use `MCSettings`, `community` `MCCommunity`,
`catalogue`, `finds_stale_average` and `finds_lingering_image` `MCCatalogue`, all
others `MCPortal`, whose bounds guard only the
*start* of operations, so they never block a handler half way.

| Run | Instance | Question | Distinct states | Time |
|---|---|---|---|---|
| `serial_faults` | 2 applications, 1 key product that may be closed or moved, 2 plans, 1 request, 1 fault | group two, and `Admission` is implemented | 1.55 M | 105 s |
| `serial_exact` | 2 applications, 1 product of any plain kind, every owner operation, a change of the plan's limit, migration and deletion of the product | exactness with no fault | 2.9 M | 140 s |
| `serial_loops` | 1 application, 2 products, a paid plan created on the way, fairness | loops over products, billing, liveness | 190 k | 100 s |
| `concurrent` | 1 application, 1 product, 2 requests at once, 2 paid plans; life cycle, sandbox, deletion of the product and of plans | group one | 557 k | 55 s |
| `community` | 2 addresses, 3 teams, 2 applications, 2 requests at once, 2 limiters | accounts, teams, limiter | 393 k | 120 s |
| `catalogue` | 2 products, 3 paths, 2 slugs, 2 users, 2 requests at once, any failing | catalogue | 415 k | 40 s |
| `settings` | 3 keys, 2 calls at once, 2 environments, mistaken commits, lost secrets, fairness | running = stored, sendable, followed; liveness | 136 k | |
| `finds_unsendable`, `finds_unprovisioned`, `finds_double_invoice`, `finds_undeletable`, `finds_old_key` | section 8 | what a comment promises and the code does not keep | | |

Why these sizes are enough to be interesting:

* Two applications let one subscriber's request rebuild a route the other is on;
  sharing one client id lets an old id survive through the other application.
* Two products with one application give loops with a rest, and a rest that
  others change.
* `MaxSubs` counts inserted rows: with two rows, each application can be
  subscribed, removed and subscribed again under a new id (serial runs) or
  resubmitted on another plan (any number of times, since that inserts nothing).
* `MaxKeys` keys cover the credential and two rotations; `MaxInvoices` lets one
  invoice be voided and billed again.
* One fault is enough to leave any intermediate state; the operations after it
  run to their ends.
* Two requests at a time realise every pairwise race. Larger numbers are covered
  by the proofs, and so are client ids that change while other requests run
  (`concurrent` has none; `serial_exact` and `serial_loops` have).
* `settings` has one key of each role (the switch, a key it needs, a secret), so a
  call can enable, break, reset or lose each; two calls give every contention for
  the mutex, and stops are unbounded.
* `serial_exact` leaves out the oauth2 product that also has a sandbox upstream:
  the oauth2 branch of Approve never rebuilds the sandbox route, so
  `SandboxRouteIsRule` does not hold for it (`PlainCatalogue`). It has one product,
  as a consumer has one limit and `LimitFollowsPlan` speaks of an application with
  one product: with subscriptions on several plans the code installs the approved
  plan's in Approve and the latest's in RotateKey. The theorem needs no more than
  one plan per application.
* The edits of `serial_faults` close a product, change an upstream, or both; that of
  `serial_exact` migrates a product to oauth2 and takes its sandbox away, with
  subscribers on it. A migration back is left out there, because its subscribers may
  have no credential (`finds_dropped_subscriber`), and the theorems leave it out for the
  same reason (`NoMigrationBack`). A sandbox given to a product in use is in no run:
  `SandboxRouteStaysRule` proves that rebuild for every edit that leaves a product plain.
* `community` and `catalogue` have *worlds*: `Init` chooses which operations and
  inputs the clients of a behaviour use, so one run explores several combinations that
  would be too large together. In `community`: the limiters while six units of time pass
  (a bucket empties, refills, idles and is swept); two accounts with three links and
  a gate that moves; one account with links that expire; teams. Three team ids allow
  the two personal teams and a shared one. In `catalogue`: saves against saves
  and deletion; icons against saves; icons and changelogs against deletion and
  failures; ratings against each other, deletion and failures. The paths are one, one
  below it and one that only begins with the same letters. `until` and `links` bound
  time and resends of a world; nothing else is cut.

Symmetry: requests, and applications, plans, team ids, products or users where a
configuration does not tell them apart (two equal plans in `concurrent`), are
permuted. None is ordered, named in a definition or chosen by `CHOOSE`. No run with
a liveness property uses symmetry.

Deadlock is checked where the system can always go on. `CHECK_DEADLOCK FALSE` is
set where applications or products may be deleted, or where bounded operations
run out: the clients then simply have nothing left to do.

Fairness (`FairSpec` of `Portal`): once a handler has started, its next step happens, weakly
fair for each request. Go schedules the goroutine and the HTTP and SQL clients
return or time out. No fairness makes a client start a request, so
`RevocationTakesEffect` speaks of the handler that removed the subscription and
not of a later one that happens to repair the route. In `Settings` each call is
strongly fair: a waiting `Lock` is not enabled while another call holds the mutex,
and Go's mutex hands it over in starvation mode; probe and statements time out.
`Community` and `Catalogue` state no fairness: nothing there is promised to happen.

## 5. Mutants

For every property of a passing run a mutated definition, placed before the
original and marked `\* Mutant:` in its comment, shows that the property notices
a plausible bug in that code. Examples: the allow-list without `extraConsumers`
breaks `ActiveImpliesProvisioned`; a missing `status = 'active'` in the
allow-list query breaks `NoGrantWithoutApproval`; the database written before the
gateway in a rotation breaks `StoredKeyNotAhead`; a loop that does not advance
breaks `EveryRequestReturns`; a sweep that ignores a bucket's age breaks
`ImplementsBuckets`; a team delete that trusts its count breaks `AppsHaveTeam`; an
average computed before the rating is written breaks `RatingFresh`. Mutants are not
part of any specification.

## 6. Refinement

`Admission` has three variables per (application, product): status, approved,
admitted. Its steps say that approval comes first, that the gateway's list always
keeps everybody active and adds only an approved, pending newcomer, that a
subscription becomes active only when it is admitted, and that it stops being
active before it is shut out. `Portal` implements it for key-auth products and
one request at a time, faults included: every statement and every gateway call
maps to one of these steps or to a stutter
(`ImplementsAdmission`, checked in `serial_faults`, proved in
`ProvisioningProofs` for any number of applications, products and faults). This is
the precise form of "active in DB ⇒ provisioned in gateway". With overlapping requests it fails, as
`finds_unprovisioned` shows; oauth2 and migrated products are outside it because
an approval of an application without a client id activates it without admitting
it.

`TokenBucket` has a level per limiter and key, always there, which time refills and
a request takes a token from if it can. `RateLimiter` implements it with
`level <- Held(...)`, the level the next `Allow` will find: a bucket that is not there
counts as full, a bucket not refilled for a while as refilled. The sweep then maps to
a stutter, which is the point: a dropped bucket starts full again, and would have
been full by then (`ImplementsBuckets`, checked in `community`, proved in
`CommunityProofs`). It rests on `RefillsWhileIdle`, which the server's limiters meet
(10 tokens at 0.5/s and 3 at 1/60 s, against ten minutes) and a limiter with a
refill of 0, which the comment on `NewRateLimiter` allows as a quota that never
refills, would not: its buckets would be reset by the sweep.

## 7. Proofs

Five modules of proofs for `Portal` and one for each other composition, each for
every value of the constants that meets the named assumptions: any number of
applications, products, plans, users, teams, keys and concurrent requests, any
operations and any number of faults, but for what a theorem's hypotheses exclude.
No constant is assumed finite or non-empty. Every safety invariant, action
property and refinement that a passing run checks has a theorem. The
type invariant is the first conjunct of each `IInv`. The `IInv`s of
`Portal`, `Community` and `Catalogue` were found with TLC as invariants of the runs
of section 4; now that they are proved, the runs check what they imply.

### Portal (`PortalProofs`)

| Theorem | Says |
|---|---|
| `TypeCorrect` | `Spec => []TypeOK` |
| `Invariance` | `Spec => []IInv` |
| `ActivationIsApproved` | no subscription is active unless an admin approved that very row |
| `GrantIsApproved` | no route of either gateway admits an identity nobody ever approved for the product |
| `InvoiceIsApproved` | an invoice of a live subscription bills a plan an admin approved for it |
| `ReferencedPlanStays` | a plan any subscription refers to is in the table |

Assumptions: `NoneIsNoRow` (NULL is not a row) and the types of the constants.

The argument. `NoGrantWithoutApproval` alone is not inductive: a route takes its
list from a request, and the request took it earlier from the tables or from its
caller. `IInv` therefore follows the list back.

* `ShapeInv`: a request at a given `pc` belongs to the handler that has that
  step, and the locals that step reads are set.
* `RowInv`: a subscription id belongs to one row and is below the sequence.
* `ApprovalInv`: an id in `approvals` never belongs to another pair. This is where
  "ids are not reused" matters: a row deleted and inserted again is not approved.
* `ApprovingInv`: an Approve in progress has its approval on record.
* `CarriedInv`: what a request is about to push, and what it will add for the
  products left in its loop, is vouched for. EnableSandbox lists active
  subscriptions once and admits the application to all of them later, whatever
  became of them; the invariant is what makes that safe with respect to approval.
* `ClaimInv`: the client id an application has is one it registered.
* `PlanOutlivesSubscriptions` is inductive with the types: the count a deletion took
  proves nothing by the time of the delete, so the argument rests on the two foreign-key
  checks alone, the one in `PlanDelete` and the one in `SubscribeSave`, and on no
  other step moving a row to another plan or a plan out of the table (`PlansEffect`).

The proof has three layers. `RequestsPreserved` shows, one lemma per handler
step, that locals stay in shape. `NextEffect` shows that whatever a step does to
tables and gateways is one of a few effects (`SubsEffect`, `InvoicesEffect`,
`RoutesEffect`, `PlansEffect`, `HistoryEffect`), and the `...Preserved` lemmas need
only these. `RequestsFine` shows that a request keeps carrying vouched identities
because approvals and claims only grow.

### Theorems with hypotheses

Sections 3 and 8 show that much of what the portal should keep is lost when requests
overlap. The next three parts prove it under hypotheses that say how far. A hypothesis
is either one on a constant (`MaxFaults = 0`, an operation left out of `Ops`) or a state
predicate on the behaviour, `Spec /\ []H => ...`, that names the overlap it excludes:

| Hypothesis | Excludes | Because |
|---|---|---|
| `ApprovalsApart` | two approvals of one subscription at once | both find no invoice (`finds_double_invoice`) |
| `ResubmissionsApart` | an approval and a resubmission of one row at once | the row changes its plan under the approval |
| `RejectionsApart` | an approval and a rejection of one subscription at once | the approval activates what was rejected (`finds_approved_rejected`) |
| `MigrationsApart` | an update of a product while it is approved, updated, or a client id changes | the readiness check is stale (`finds_stranded`) |
| `Serial` | two requests at once, of any kind | lists and keys are read, then pushed |
| `NoMigrationBack` | oauth2 to key-auth | subscribers may have no credential (`finds_dropped_subscriber`) |
| `NoMigration`, `KeyAuthOnly` | any change of auth type; any oauth2 product | |
| `PlainProducts` | oauth2 products with a sandbox upstream | Approve does not rebuild their sandbox route (`finds_sandbox_left_out`) |
| `OnePlanEach` | an application with subscriptions on two plans | a consumer has one limit |

`[]Serial` holds of every behaviour with one request slot, which is how the serial runs
are configured, and of those of many slots in which requests happen not to overlap.
Everything a hypothesis does not name still interleaves and, without
`MaxFaults = 0`, fails.

### Life cycle (`LifeCycleProofs`)

| Theorem | Property | Under |
|---|---|---|
| `OneInvoiceAtATime` | `OneLiveInvoice` | `ApprovalsApart` |
| `LivePlanIsApproved` | `ActivePlanApproved` | `ResubmissionsApart` |
| `StatusNeverSkips` | `StatusTransitions` | `ResubmissionsApart`, `RejectionsApart` |
| `MigrationIsSafe` | `MigrationStrandsNobody` | `MigrationsApart` |
| `ActivationIsBilled` | `PaidIsInvoiced` | `ResubmissionsApart`, no faults, no plan edits |

None of these needs requests to be serial. Each invariant says that what a handler
read is still so when it writes: there is still no invoice (`BillingInv`), the row is
still on the plan the approval read (`PlanHeld`), it is not rejected, or not yet live
(`StatusHeld`), every active subscriber still has a client id (`ReadyInv`). Plan edits
are out of `ActivationIsBilled` because a plan that becomes paid bills nobody; its
invariant `BilledInv` is that an active subscription to a paid plan has an invoice or an
approval of it is between activation and invoice.

### Keys (`KeyProofs`)

| Theorem | Property | Under |
|---|---|---|
| `StoredKeysBehind` | `StoredKeyNotAhead` | `Serial`, no application deletion |
| `KeysShownAreAccepted` | `KeysAgree` | `Serial`, no faults |
| `RotatedKeysStayDead` | `RotatedKeyStaysDead` | `Serial`, no faults |

`KeyInv`: what a request carries is the key in the table or the one it has just
installed. The first theorem admits faults, which is the point of installing before
saving; a deletion that fails after removing the credential leaves an old consumer
behind, so it is excluded there and not in the other two. `AgreeInv` is agreement
except for the application whose key is being rotated or which is being deleted;
`NextAgree` shows with it that no gateway goes back.

### Gateways (`RouteProofs`, `ProvisioningProofs`)

| Theorem | Property | Under |
|---|---|---|
| `ApprovalAlwaysConverges` | `ApprovalConverges` | `Serial` |
| `ApprovalAlwaysSettles` | `ApprovalSettles` | `Serial` |
| `OAuthApprovalAlwaysConverges` | `OAuthApprovalConverges` | `Serial`, no faults |
| `ActiveIsProvisioned` | `ActiveImpliesProvisioned` | `Serial`, `NoMigrationBack` |
| `ConsumersComeFirst` | `ConsumerBeforeRoute` | `NoMigration`, no application deletion |
| `PortalImplementsAdmission` | `ImplementsAdmission` | `Serial`, `KeyAuthOnly`, no product deletion |
| `DeletedProductStaysUnrouted` | `DeletedProductUnrouted` | `Serial`, no faults |
| `RouteStaysActiveSet` | `RouteIsActiveSet` | `Serial`, `NoMigrationBack`, no faults |
| `SandboxRouteStaysRule` | `SandboxRouteIsRule` | `Serial`, `PlainProducts`, no faults |
| `DeletionErases` | `DeletedIsErased` | `Serial`, no faults, names are not client ids |
| `LimitsFollowPlan` | `LimitFollowsPlan` | `Serial`, `NoMigrationBack`, `OnePlanEach`, no faults |

Those that do not say "no faults" admit any number, and `ConsumersComeFirst` any overlap. A product deletion
removes several subscriptions in one statement, by cascade, where `Admission` shuts one
out at a time; that is why the refinement leaves it out.

The argument. `RouteMove` lists, once, what each of some thirty statements and calls
does to the tables, the routes and the request; every later proof splits on it and not
on `Next`. `HeldInv` says that what a request carries is what the tables say: its
list is `Subscribers` or `SandboxSubscribers` plus the newcomer, its loop has every product
still to visit. It holds, like `KeyInv` and the small `OpsInv`, `EditHeld`, `Referenced` and
`StatusHeld` (together `Ground`), whichever request fails. On that ground:

* `ProvisionedInv` strengthens `ActiveImpliesProvisioned` by the key in the table. With it an
  activation adds to the lists exactly the application the route was just built
  for (`NewcomerJoins`), which is also what convergence says.
* `SettleInv` says what an approval has behind it at each of its steps: the limit it
  read is the plan's, from the second gateway call on the consumer has that limit and
  the stored key, from the activation on the row is active. `Concludes` says that an
  approval which activated returns by one of billing's two steps, with the invoice
  found or made.
* *No faults.* A route is wrong only while a request is about to rebuild it: `DueAt` and
  `SandboxDueAt` say which and at which steps. `AtMost` bounds a route's list by the
  subscribers from above, `Exact` and `SandboxExact` say equal, each "or due".
  Between requests nothing is due. `OwnedInv` adds that identities on routes belong to
  applications that exist, which gives deletion.
* *Limits.* `LimitInv`: an active subscriber's consumer has the plan's limit, or an edit
  of that plan still has that consumer to install (`Owes`), which it finds because the list
  it reads is of the active subscribers of the plan (`PlanWrites` bounds what else moves a plan).
* *Any overlap.* `ReachInv` follows an identity from the moment its consumer exists
  through the locals of a request to the route, and uses that nobody loses a consumer
  while no application is deleted (`ConsumersStay`).
* *Refinement.* Each case of `RouteMove` is one of `Admission`'s steps or a stutter; an
  activation is allowed because `HeldInv` says the newcomer is on the route at that step.

`LimitInv`, the most intricate of these, was checked with TLC on the instance of
`serial_exact` before it was proved.

### Settings (`SettingsProofs`)

| Theorem | Says |
|---|---|
| `SettingsInvariance` | `Spec => []IInv` |
| `SettingsRunningIsStored` | with no call in progress the snapshot is the table over the environment |
| `SettingsAlwaysSendable` | neither the snapshot nor what a boot would read breaks the rule |
| `SettingsArmedFollows` | with no call in progress every binding follows the snapshot |

Assumptions: the null values are not values, the named keys are keys, the rule reads
no secret (`SecretsElsewhere`), the mutex's `Nobody` is no writer. The argument: the
mutex is held by the one call past Lock (`LockInv`), so its candidate is still, at
every step, what the table will say or says (`CandInv`); for a Set that rests on the
snapshot being the table's (`SnapInv`), which is why the doubt after a mistaken
commit is carried as a variable. Between Store and the last hook the bindings
already rebuilt are those below `hook` (`ArmedInv`). `AlwaysSendable` is itself
inductive with these, because a candidate is stored only after the rule was checked
on it, and a lost secret does not enter the rule.

### Community (`CommunityProofs`)

| Theorem | Says |
|---|---|
| `Invariance` | `Spec => []IInv` |
| `GateHolds` | `Spec => []GateHeld` |
| `TokensMatch` | `Spec => []TokenIffUnverified` |
| `NewestVerifies` | `Spec => NewestLinkVerifies` |
| `TeamsHaveOneOwner` | `Spec => []OneOwner` |
| `AppsKeepTheirTeam` | `Spec => []AppsHaveTeam` |
| `LimitersAreBuckets` | `Spec => ImplementsBuckets`: the refinement of section 6 |

Assumptions: the types of the constants, that null values name nothing, and
`RefillsWhileIdle`. The argument has four blocks that meet only in `IInv`.

* *Limiter.* `SweepUnnoticed`: with `RefillsWhileIdle` a bucket the sweep drops held
  its burst, so `Held` is the same before and after. `HeldLater` is the refill
  computed in one step or in two. A step of `Allow` then maps to `Ask`, a tick to `Pass`,
  every other step to a stutter. `LimiterInv`, that no bucket is from the future, is
  what keeps the subtraction of times within the naturals.
* *Calls.* `Sound` says what a call read earlier that still justifies what it does
  next: the team it found exists or is gone (never unused again) and is not
  personal, the account it found is there, the member it is about to remove is not
  the owner. `SoundKept` shows this stable once and for all under any step that
  *grows* the tables (`Grows`: accounts stay, kinds only move on, an owner is an
  owner until his team is gone), and each write step is shown to grow them.
  The count of owners in `RemoveCount` is what keeps "not the owner" true: a team
  has one owner, so an owner never passes it.
* *Accounts.* `GateHeld` needs what login holds by value (`Sound`: a call that read
  a verified account has one in `proved` or `lax`), that verified accounts are
  (`ProvedInv`), and that a link verifies nobody but the account it was mailed to
  (`LinkInv`: tokens are new when made). `NewestLinkVerifies` is an action property
  from `NewestInv`: the token in the row is the largest mailed to it.
* *Teams.* `OneOwner` and `AppsHaveTeam` rest on the foreign keys of the inserts and
  the delete, which read the table of that moment; no role check is used for them.

### Catalogue (`CatalogueProofs`)

| Theorem | Says |
|---|---|
| `Invariance` | `Spec => []IInv` |
| `PathsStayDisjoint` | `Spec => []PathsDisjoint` |
| `RatingsStayFresh` | `Spec => []RatingFresh` |
| `ImagesAreShown` | `Spec => []IconsShown` |
| `NothingOrphaned` | `Spec => []NoOrphans` |

Assumptions: the types of the constants and null values that name nothing. The
argument: unless a call was overtaken, what it saw is still so. `PathFound` says it of
the paths a save compared with, `RateFound` of the ratings an average was computed
from; the step that writes a path or commits a rating marks every call that
looked before (`overtaken`), so the invariant of those is given up and their product
enters `doubtful` or `shaky` when they write. `RateFound` also keeps the product of a rating
transaction in the table, which the lock of its foreign key does in Postgres
and `DeleteRow`'s guard in the model. `IconsShown` holds because only the
transaction of an upload adds an image and the row says so at the same moment.
That ids come from a sequence (`UsedInv`) gives an inserted product no past.

### What is only model-checked

The liveness properties: `EveryRequestReturns` and `RevocationTakesEffect` of `Portal`,
`EveryCallReturns` of `Settings`. Liveness under fairness, and `ENABLED`, are outside
what the installed provers do.

## 8. Findings

Each is a sentence of the repository that the code does not keep, with a
configuration for which TLC prints the steps. Paths are under `src/internal` or,
where they begin with `docs`, in the repository.

### Runs of the project

* `finds_unsendable`: the cross-field rules "must hold in any effective
  configuration, DB-backed or not" (`settings/service.go:253-254`). `NewService`
  does not check them: a boot without SMTP in the environment, which
  `config.Validate` accepts, with `REQUIRE_EMAIL_VERIFICATION` stored, runs with
  verification on and no mail server.
* `finds_unprovisioned`: "active in DB ⇒ provisioned in gateway always holds"
  (`subscriptions/service.go:515-516`). Two approvals for one product overlap; the
  second reads the list before the first activates and pushes it afterwards.
* `finds_double_invoice`: "Idempotent per subscription" (`billing/service.go:29`).
  Two approvals of one row both find no invoice.
* `finds_undeletable`: "DeleteApplication permanently removes an application"
  (`subscriptions/service.go:469`). An application with a key that was never
  approved has no consumer; APISIX answers 404 and the delete ends there, every
  time.
* `finds_old_key`: after a rotation "the old key 401s immediately"
  (`subscriptions/service.go:756-757`). An approval that read it installs it again; so
  does a plan edit, in the same instance.

### Further traces

The same can be seen of these with `tlc -config <name>.cfg` and the module of the
table of section 4. They are kept beside the project's runs, not among them.

| Configuration | The repository says | The code |
|---|---|---|
| `finds_readmitted` | Reject rebuilds the route "so the application is excluded" (`subscriptions/service.go:591-592`) | a list read before the rejection and pushed after it admits it again |
| `finds_approved_rejected` | "a rejected subscription cannot be approved" (`subscriptions/service.go:525`) | the status is read once, at the start |
| `finds_sandbox_left_out` | every lifecycle hook maintains the sandbox rule (`docs/superpowers/specs/2026-06-29-sandbox-environment-design.md:46-49`) | the oauth2 branch of Approve returns before the sandbox route; one request at a time |
| `finds_stale_sandbox` | the same | a resubmission puts a row back to pending after EnableSandbox has listed it |
| `finds_dropped_error` | Approve adds an application with a sandbox key to the sandbox route (same note, 141-142) | a failed read of the key is taken for no key |
| `finds_unlisted_client` | every active subscriber's client id is on the route (`docs/superpowers/specs/2026-06-29-oauth2-consumers-design.md:50-51`) | a failed read of the client id is dropped and the row activated |
| `finds_stranded` | "the migration never strands any of them" (`admin/service.go:116-118`) | an approval runs between the readiness check and the write |
| `finds_dropped_subscriber` | "Existing subscriptions are preserved" by a switch of auth type (`docs/superpowers/specs/2026-06-29-oauth2-consumers-design.md:127`) | only the switch to oauth2 checks them; one request at a time |
| `finds_late_push` | Delete "tears down its APISIX route" (`admin/service.go:188-189`) | an approval that had read the product puts it up again |
| `finds_leftover` | a leftover route "admits no traffic" (`admin/service.go:201-203`) | the sandbox route of a product whose last Unsubscribe failed does |
| `finds_not_erased` | DeleteApplication deprovisions "each affected product's route" (`subscriptions/service.go:469-471`) | a second attempt does not see the rows the first removed |
| `finds_stale_average` | the average is recomputed "atomically", kept "in sync" (`ratings/repo.go:1-2,30-31`) | two transactions each miss the other's rating |
| `finds_lingering_image` | the image is deleted "in the same tx" (`docs/superpowers/specs/2026-07-06-product-icons-design.md:113-114`) | it is a statement of its own, and the one before it may be the last |

`overlapping_loops.cfg` passes (167 k states, 110 s): it checks `EveryRequestReturns` while one
request loops over two oauth2 products and another adds subscriptions to them,
activates them, deletes a product or starts the same loop.

### Met while modelling

No sentence of the repository says otherwise, so they have no trace:

* Approve installs the approved plan's limit in production only; a sandbox consumer
  keeps the limit of the plan it was enabled under until that plan is edited or its key
  is replaced.
* Two overlapping saves may leave one product's path below another's (section 3; accepted
  by the security notes).
* An image uploaded between an update's row and its `DeleteIcon` is removed while the
  row says the product has one.
* A plan delete that the foreign key refuses is answered as an internal error, not
  as the plan in use that it is.

## 9. Not modelled

* A change of settings during a subscription request: `Portal` fixes what it reads
  of the settings for a behaviour, so the swap of the gateway client
  (`apisix/swappable.go:40`) between two calls of one request is not there.
* Renaming a team or an application, the language preference, names and
  descriptions: writes of one row that no decision reads.
* The import of an OpenAPI document (`admin/import.go`): it drafts a form and writes
  nothing.
* The per-address middleware of the limiter: it refuses requests earlier.
* Notifications (`notify`): goroutines that read and send mail. Activity events:
  best-effort appends whose failure is ignored. Neither changes a decision.
* Catalogue reads, listings and paging, usage metrics, try-it proxy: read only.
* Encryption, translations, migrations, wiring, web front end: pure
  functions, generated text, start-up, and a client of the same HTTP API.
* Wall-clock time in `Portal` and `Catalogue`: APISIX's propagation delay and its
  rate limiting itself.

## 10. Plan

Everything planned so far is in place. What would add most from here:

1. The swap of a gateway client inside a request: `Settings`' hook composed with
   `Portal`, with two production gateways of which one is current.
2. A number of the serial groups restated, as in `Catalogue`, with a history variable
   for the requests that overlapped, so that they hold of every interleaving and say
   exactly which products or keys to distrust.
