------------------------------ MODULE Catalogue ------------------------------
(***************************************************************************)
(* The product catalogue as admins edit it and subscribers rate it:        *)
(* products with their context paths, icons and changelogs, and the cached *)
(* average of their ratings.  What saving a product does to the gateways   *)
(* is in ProductAdmin; here it is what it does to the catalogue's tables.  *)
(***************************************************************************)
EXTENDS Naturals, SequencesExt

CONSTANTS
    Products,  \* product ids, each used once
    EntryIds,  \* changelog entry ids, each used once
    Slugs,
    Paths,     \* context paths, as sequences of segments
    Bodies,    \* the product forms admins send
    Users,     \* users who rate
    Stars,     \* the stars they give
    Calls,     \* requests that may be in progress together
    Worlds,    \* which operations the clients of a behaviour call, with which forms
    None

OpNames == {"create", "update", "upload", "changelog", "delete", "rate", "subscribe", "fail"}
PcNames == {"idle", "create.insert", "update.check", "update.save", "update.icon", "delete.row",
            "rate.check", "rate.upsert", "rate.snapshot", "rate.commit"}

\* The form; icon says whether a built-in icon or the uploaded one is shown.
Body == [slug : Slugs, path : Paths, published : BOOLEAN, icon : {"builtin", "upload"}]
World == [ops : SUBSET OpNames, bodies : SUBSET Bodies]

\* What the ratings of a product come to: the average is kept as a sum over
\* a count, and both are 0 without ratings.
NoTotal == [sum |-> 0, count |-> 0]
TotalOf(stars) == LET raters == {u \in Users : stars[u] # 0} IN
    IF raters = {} THEN NoTotal
    ELSE [sum |-> FoldSet(LAMBDA u, n : stars[u] + n, 0, raters), count |-> Cardinality(raters)]
Total == {TotalOf(stars) : stars \in [Users -> Stars \cup {0}]}

Row == [there : BOOLEAN, slug : Slugs \cup {None}, path : Paths \cup {None}, published : BOOLEAN,
        icon : {"builtin", "upload"}, rating : Total \cup {NoTotal}]
NoRow == [there |-> FALSE, slug |-> None, path |-> None, published |-> FALSE,
          icon |-> "builtin", rating |-> NoTotal]

Call == [pc : PcNames, prod : Products \cup {None}, body : Bodies \cup {None}, checked : BOOLEAN,
         user : Users \cup {None}, stars : Nat, total : Total \cup {NoTotal}, overtaken : BOOLEAN]
NoCall == [pc |-> "idle", prod |-> None, body |-> None, checked |-> FALSE,
           user |-> None, stars |-> 0, total |-> NoTotal, overtaken |-> FALSE]

ASSUME PathsType == Paths \subseteq Seq(STRING) \ {<<>>}
ASSUME BodiesType == Bodies \subseteq Body
ASSUME StarsType == Stars \subseteq 1..5
ASSUME WorldsType == Worlds \subseteq World
ASSUME NoneIsNoValue == None \notin Products \cup Slugs \cup Paths \cup Bodies \cup Users \cup EntryIds
ASSUME GoneIsNoProduct == "gone" \notin Products

VARIABLES
    world,       \* the clients of this behaviour, fixed
    rows,        \* table api_products
    used,        \* product ids ever inserted
    icons,       \* table product_icons: the products with an image
    entries,     \* table changelog_entries: the product of an entry
    ratings,     \* table product_ratings: stars per product and user, 0 for none
    subscribers, \* users with an application that is subscribed, per product
    calls,       \* the requests in progress
    doubtful,    \* history: products whose path was saved while another was
    shaky        \* history: products whose last two ratings overlapped

vars == <<world, rows, used, icons, entries, ratings, subscribers, calls, doubtful, shaky>>

TypeOK ==
    /\ world \in Worlds
    /\ rows \in [Products -> Row]
    /\ used \subseteq Products
    /\ icons \subseteq Products
    /\ entries \in [EntryIds -> Products \cup {None, "gone"}]
    /\ ratings \in [Products -> [Users -> Stars \cup {0}]]
    /\ subscribers \in [Products -> SUBSET Users]
    /\ calls \in [Calls -> Call]
    /\ doubtful \subseteq Products
    /\ shaky \subseteq Products

Init ==
    /\ world \in Worlds
    /\ rows = [p \in Products |-> NoRow]
    /\ used = {} /\ icons = {} /\ doubtful = {} /\ shaky = {}
    /\ entries = [e \in EntryIds |-> None]
    /\ ratings = [p \in Products |-> [u \in Users |-> 0]]
    /\ subscribers = [p \in Products |-> {}]
    /\ calls = [c \in Calls |-> NoCall]

-----------------------------------------------------------------------------
(* Requests *)

At(c, pc) == calls[c].pc = pc
Begin(c, op, q) == op \in world.ops /\ At(c, "idle") /\ calls' = [calls EXCEPT ![c] = q]
Goto(c, pc) == calls' = [calls EXCEPT ![c] = [@ EXCEPT !.pc = pc]]
Return(c) == calls' = [calls EXCEPT ![c] = NoCall]

There(p) == rows[p].there
Elsewhere == UNCHANGED <<world, used, icons, entries, ratings, subscribers, doubtful, shaky>>

\* An error, a client that left or the end of the process: a transaction in
\* progress is rolled back, and nothing more happens.
Fail(c) ==
    /\ "fail" \in world.ops /\ ~At(c, "idle")
    /\ Return(c)
    /\ UNCHANGED rows /\ Elsewhere

-----------------------------------------------------------------------------
(* Paths *)

\* Mutant: only products below the new one are looked for.
CollideBelow(a, b) == IsPrefix(a, b)

\* Equal, or one a prefix of the other on a "/" boundary.
Collide(a, b) == IsPrefix(a, b) \/ IsPrefix(b, a)
ContextPathOverlaps(path, except) ==
    \E p \in Products \ {except} : There(p) /\ Collide(path, rows[p].path)

\* What the unique indexes refuse.
Taken(b, except) == \E p \in Products \ {except} :
    There(p) /\ (rows[p].slug = b.slug \/ rows[p].path = b.path)

\* Requests that looked at the paths and have not saved yet.
Looked(q) == q.pc \in {"create.insert", "update.check", "update.save"}

\* Request c wrote the path of p: the others that looked did so too early.
PathWritten(c, p, next) ==
    /\ calls' = [x \in Calls |->
           IF x = c THEN next
           ELSE IF Looked(calls[x]) THEN [calls[x] EXCEPT !.overtaken = TRUE] ELSE calls[x]]
    /\ doubtful' = IF calls[c].overtaken THEN doubtful \cup {p}
                   ELSE IF calls[c].checked THEN doubtful \ {p} ELSE doubtful

-----------------------------------------------------------------------------
(* Saving products *)

Create(c, b) ==
    /\ ~ContextPathOverlaps(b.path, None)
    /\ Begin(c, "create", [NoCall EXCEPT !.pc = "create.insert", !.body = b, !.checked = TRUE])
    /\ UNCHANGED rows /\ Elsewhere

Saved(b, row) == [row EXCEPT !.there = TRUE, !.slug = b.slug, !.path = b.path,
                             !.published = b.published, !.icon = b.icon]

\* An id of its own, taken from the sequence.
InsertProduct(p, b) ==
    /\ rows' = [rows EXCEPT ![p] = Saved(b, NoRow)]
    /\ used' = used \cup {p}

CreateInsert(c) ==
    /\ At(c, "create.insert")
    /\ LET b == calls[c].body IN
       \/ /\ ~Taken(b, None)
          /\ \E p \in Products \ used : InsertProduct(p, b) /\ PathWritten(c, p, NoCall)
       \/ Taken(b, None) /\ Return(c) /\ UNCHANGED <<rows, used, doubtful>>
    /\ UNCHANGED <<world, icons, entries, ratings, subscribers, shaky>>

\* The row as it is now; its path decides whether the new one is checked.
Update(c, p, b) ==
    /\ There(p)
    /\ LET moved == b.path # rows[p].path IN
       Begin(c, "update", [NoCall EXCEPT !.prod = p, !.body = b, !.checked = moved,
                               !.pc = IF moved THEN "update.check" ELSE "update.save"])
    /\ UNCHANGED rows /\ Elsewhere

\* The check is as good as new: what was saved before it is seen.
UpdateCheck(c) ==
    /\ At(c, "update.check")
    /\ IF ContextPathOverlaps(calls[c].body.path, calls[c].prod) THEN Return(c)
       ELSE calls' = [calls EXCEPT ![c] = [@ EXCEPT !.pc = "update.save", !.overtaken = FALSE]]
    /\ UNCHANGED rows /\ Elsewhere

\* Mutant: the image stays.
UpdateSaveKept(c) ==
    /\ At(c, "update.save")
    /\ LET b == calls[c].body  p == calls[c].prod IN
       \/ /\ There(p) /\ ~Taken(b, p)
          /\ rows' = [rows EXCEPT ![p] = Saved(b, rows[p])]
          /\ PathWritten(c, p, NoCall)
       \/ (~There(p) \/ Taken(b, p)) /\ Return(c) /\ UNCHANGED <<rows, doubtful>>
    /\ UNCHANGED <<world, used, icons, entries, ratings, subscribers, shaky>>

\* The row may be gone by now, or its slug or path taken.  Unless the form
\* shows the uploaded image, what is stored of it still has to go.
UpdateSave(c) ==
    /\ At(c, "update.save")
    /\ LET b == calls[c].body  p == calls[c].prod IN
       \/ /\ There(p) /\ ~Taken(b, p)
          /\ rows' = [rows EXCEPT ![p] = Saved(b, rows[p])]
          /\ PathWritten(c, p, IF b.icon = "upload" THEN NoCall
                               ELSE [calls[c] EXCEPT !.pc = "update.icon"])
       \/ (~There(p) \/ Taken(b, p)) /\ Return(c) /\ UNCHANGED <<rows, doubtful>>
    /\ UNCHANGED <<world, used, icons, entries, ratings, subscribers, shaky>>

UpdateIcon(c) ==
    /\ At(c, "update.icon")
    /\ icons' = icons \ {calls[c].prod}
    /\ Return(c)
    /\ UNCHANGED <<world, rows, used, entries, ratings, subscribers, doubtful, shaky>>

\* One transaction: the product shows the image, and the image.
SetUploadedIcon(p) ==
    /\ rows' = [rows EXCEPT ![p].icon = "upload"]
    /\ icons' = icons \cup {p}

UploadIcon(p) ==
    /\ "upload" \in world.ops /\ There(p)
    /\ SetUploadedIcon(p)
    /\ UNCHANGED <<world, used, entries, ratings, subscribers, calls, doubtful, shaky>>

AddChangelog(p) ==
    /\ "changelog" \in world.ops /\ There(p)
    /\ \E e \in EntryIds : entries[e] = None /\ entries' = [entries EXCEPT ![e] = p]
    /\ UNCHANGED <<world, rows, used, icons, ratings, subscribers, calls, doubtful, shaky>>

DeleteChangelog(e) ==
    /\ "changelog" \in world.ops /\ entries[e] \in Products
    /\ entries' = [entries EXCEPT ![e] = "gone"]
    /\ UNCHANGED <<world, rows, used, icons, ratings, subscribers, calls, doubtful, shaky>>

-----------------------------------------------------------------------------
(* Deleting products *)

\* Refused while there are active subscriptions.
Delete(c, p) ==
    /\ There(p) /\ subscribers[p] = {}
    /\ Begin(c, "delete", [NoCall EXCEPT !.pc = "delete.row", !.prod = p])
    /\ UNCHANGED rows /\ Elsewhere

\* Transactions that inserted a rating of p, which locks its row's key.
Rating(p) == {c \in Calls : calls[c].pc \in {"rate.snapshot", "rate.commit"} /\ calls[c].prod = p}

Erased(p) ==
    /\ rows' = [rows EXCEPT ![p] = NoRow]
    /\ icons' = icons \ {p}
    /\ entries' = [e \in EntryIds |-> IF entries[e] = p THEN "gone" ELSE entries[e]]
    /\ ratings' = [ratings EXCEPT ![p] = [u \in Users |-> 0]]
    /\ subscribers' = [subscribers EXCEPT ![p] = {}]

\* Mutant: the delete does not wait for them.
DeleteRowAtOnce(c) ==
    /\ At(c, "delete.row")
    /\ Erased(calls[c].prod)
    /\ Return(c)
    /\ UNCHANGED <<world, used, doubtful, shaky>>

\* It waits for them, and everything that refers to the product goes with
\* it, a subscription approved since the count included.
DeleteRow(c) ==
    /\ At(c, "delete.row")
    /\ Rating(calls[c].prod) = {}
    /\ Erased(calls[c].prod)
    /\ Return(c)
    /\ UNCHANGED <<world, used, doubtful, shaky>>

-----------------------------------------------------------------------------
(* Ratings *)

\* An approval, or the end of a subscription or of a membership.
Subscription(p, u) ==
    /\ "subscribe" \in world.ops /\ There(p)
    /\ subscribers' = [subscribers EXCEPT ![p] = IF u \in @ THEN @ \ {u} ELSE @ \cup {u}]
    /\ UNCHANGED <<world, rows, used, icons, entries, ratings, calls, doubtful, shaky>>

\* Published products are found by their slugs.
Rate(c, s, u, n) ==
    /\ \E p \in Products :
          /\ rows[p].slug = s /\ rows[p].published
          /\ Begin(c, "rate", [NoCall EXCEPT !.pc = "rate.check", !.prod = p, !.user = u, !.stars = n])
    /\ UNCHANGED rows /\ Elsewhere

IsApprovedSubscriber(u, p) == u \in subscribers[p]
RateCheck(c) ==
    /\ At(c, "rate.check")
    /\ IF IsApprovedSubscriber(calls[c].user, calls[c].prod) THEN Goto(c, "rate.upsert") ELSE Return(c)
    /\ UNCHANGED rows /\ Elsewhere

\* The transaction's first statement.  Its row is nobody else's to see before
\* the commit; another one for the same user and product waits for that.
RateUpsert(c) ==
    /\ At(c, "rate.upsert")
    /\ LET p == calls[c].prod IN
       \/ /\ There(p) /\ \A x \in Rating(p) : calls[x].user # calls[c].user
          /\ Goto(c, "rate.snapshot")
       \/ ~There(p) /\ Return(c)
    /\ UNCHANGED rows /\ Elsewhere

\* What the transaction sees: the committed ratings and its own.
Seen(c) == [ratings[calls[c].prod] EXCEPT ![calls[c].user] = calls[c].stars]

\* Mutant: the average is computed before the rating is written.
RateSnapshotBefore(c) ==
    /\ At(c, "rate.snapshot")
    /\ calls' = [calls EXCEPT ![c] = [@ EXCEPT !.pc = "rate.commit",
                                              !.total = TotalOf(ratings[calls[c].prod])]]
    /\ UNCHANGED rows /\ Elsewhere

\* The second statement computes the average when it starts, and may then
\* wait for the lock on the product's row.
RateSnapshot(c) ==
    /\ At(c, "rate.snapshot")
    /\ calls' = [calls EXCEPT ![c] = [@ EXCEPT !.pc = "rate.commit", !.total = TotalOf(Seen(c))]]
    /\ UNCHANGED rows /\ Elsewhere

\* Once it has the lock it writes what it computed, and commits.
RateCommit(c) ==
    /\ At(c, "rate.commit")
    /\ LET p == calls[c].prod IN
       /\ ratings' = [ratings EXCEPT ![p] = Seen(c)]
       /\ rows' = [rows EXCEPT ![p].rating = calls[c].total]
       /\ calls' = [x \in Calls |->
              IF x = c THEN NoCall
              ELSE IF x \in Rating(p) /\ At(x, "rate.commit")
                   THEN [calls[x] EXCEPT !.overtaken = TRUE] ELSE calls[x]]
       /\ shaky' = IF calls[c].overtaken THEN shaky \cup {p} ELSE shaky \ {p}
    /\ UNCHANGED <<world, used, icons, entries, subscribers, doubtful>>

-----------------------------------------------------------------------------

Next ==
    \/ \E c \in Calls, b \in world.bodies : Create(c, b) \/ \E p \in Products : Update(c, p, b)
    \/ \E c \in Calls : CreateInsert(c) \/ UpdateCheck(c) \/ UpdateSave(c) \/ UpdateIcon(c) \/ DeleteRow(c)
    \/ \E p \in Products : UploadIcon(p) \/ AddChangelog(p)
    \/ \E e \in EntryIds : DeleteChangelog(e)
    \/ \E c \in Calls, p \in Products : Delete(c, p)
    \/ \E p \in Products, u \in Users : Subscription(p, u)
    \/ \E c \in Calls, s \in Slugs, u \in Users, n \in Stars : Rate(c, s, u, n)
    \/ \E c \in Calls : RateCheck(c) \/ RateUpsert(c) \/ RateSnapshot(c) \/ RateCommit(c) \/ Fail(c)

Spec == Init /\ [][Next]_vars

-----------------------------------------------------------------------------
(* Properties *)

\* No product's route shadows another's: their paths do not collide, unless
\* one of them was saved while another save was between its check and its
\* write, which the check does not see.  Even then the paths are not equal.
PathsDisjoint == \A p, q \in Products : p # q /\ There(p) /\ There(q) =>
    /\ rows[p].path # rows[q].path
    /\ Collide(rows[p].path, rows[q].path) => p \in doubtful \/ q \in doubtful

\* The average a product shows is that of its ratings, unless the last two to
\* be committed overlapped; a later one alone repairs it.
RatingFresh == \A p \in Products :
    There(p) /\ p \notin shaky => rows[p].rating = TotalOf(ratings[p])

\* The "cached average + count" are "in sync" with the ratings, those of
\* overlapping transactions included.
AverageInSync == \A p \in Products : There(p) => rows[p].rating = TotalOf(ratings[p])

\* Between requests no image is stored of a product that does not show it: "so
\* no orphaned blob lingers".
NoLingeringImage == (\A c \in Calls : At(c, "idle")) => \A p \in icons : rows[p].icon = "upload"

\* While no save stops half way, an image is kept only for a product that
\* shows it, or that a save is about to take it from.
IconsShown == "fail" \notin world.ops => \A p \in icons :
    rows[p].icon = "upload" \/ \E c \in Calls : At(c, "update.icon") /\ calls[c].prod = p

\* Nothing refers to a product that is gone, whatever was in progress when it
\* was deleted.
NoOrphans ==
    /\ icons \subseteq {p \in Products : There(p)}
    /\ \A e \in EntryIds : entries[e] \in Products => There(entries[e])
    /\ \A p \in Products : ~There(p) => subscribers[p] = {} /\ \A u \in Users : ratings[p][u] = 0

-----------------------------------------------------------------------------
(* The inductive invariant *)

\* What each step reads of its request is there.
Shaped(q) ==
    /\ q.pc \in {"create.insert", "update.check", "update.save", "update.icon"} => q.body \in Bodies
    /\ q.pc \notin {"idle", "create.insert"} => q.prod \in Products
    /\ q.pc = "create.insert" => q.prod = None
    /\ q.pc \in {"rate.check", "rate.upsert", "rate.snapshot", "rate.commit"} =>
           q.user \in Users /\ q.stars \in Stars
    /\ q.pc \in {"create.insert", "update.check"} => q.checked

\* What a save that nobody overtook saw of the paths is still so.
PathFound(q) ==
    /\ q.pc = "create.insert" \/ (q.pc = "update.save" /\ q.checked) =>
           \A p \in Products \ {q.prod} : There(p) => ~Collide(q.body.path, rows[p].path)
    /\ q.pc = "update.save" /\ ~q.checked /\ There(q.prod) => q.body.path = rows[q.prod].path

\* A rating in progress keeps its product, and unless another was committed
\* meanwhile, what it computed.
RateFound(q) ==
    /\ q.pc \in {"rate.snapshot", "rate.commit"} => There(q.prod)
    /\ q.pc = "rate.commit" /\ ~q.overtaken =>
           q.total = TotalOf([ratings[q.prod] EXCEPT ![q.user] = q.stars])

CallInv == \A c \in Calls :
    Shaped(calls[c]) /\ (~calls[c].overtaken => PathFound(calls[c])) /\ RateFound(calls[c])
UsedInv == \A p \in Products : There(p) => p \in used

IInv == TypeOK /\ CallInv /\ UsedInv /\ PathsDisjoint /\ RatingFresh /\ IconsShown /\ NoOrphans

=============================================================================
