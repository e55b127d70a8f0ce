--------------------------- MODULE CatalogueProofs ---------------------------
(***************************************************************************)
(* Proofs about Catalogue, for any products, paths, forms, users, calls in *)
(* progress and mixtures of operations.                                    *)
(***************************************************************************)
EXTENDS Catalogue, TLAPS

-----------------------------------------------------------------------------
(* Helpers *)

LEMMA CollideSymmetric == \A a, b : Collide(a, b) <=> Collide(b, a)
BY DEF Collide

LEMMA NoRatersNoTotal ==
    ASSUME NEW stars, \A u \in Users : stars[u] = 0
    PROVE  TotalOf(stars) = NoTotal
<1>1. {u \in Users : stars[u] # 0} = {}
  OBVIOUS
<1> QED
  BY <1>1 DEF TotalOf

LEMMA TotalOfType ==
    ASSUME NEW stars \in [Users -> Stars \cup {0}]
    PROVE  TotalOf(stars) \in Total
BY DEF Total

LEMMA FormsType == \A w \in Worlds : \A b \in w.bodies : b \in Bodies /\ b \in Body
BY WorldsType, BodiesType DEF World

LEMMA NullTypes ==
    /\ NoRow \in Row /\ NoCall \in Call
    /\ Shaped(NoCall) /\ PathFound(NoCall) /\ RateFound(NoCall)
BY NoneIsNoValue DEF NoRow, Row, NoCall, Call, PcNames, Shaped, PathFound, RateFound

-----------------------------------------------------------------------------
(* The initial states *)

LEMMA Initially == Init => IInv
<1> SUFFICES ASSUME Init PROVE IInv
  OBVIOUS
<1>1. TypeOK
  BY NullTypes DEF Init, TypeOK
<1>2. \A p \in Products : ~There(p)
  BY DEF Init, There, NoRow
<1>3. CallInv
  BY NullTypes DEF Init, CallInv
<1>4. UsedInv /\ PathsDisjoint /\ RatingFresh
  BY <1>2 DEF UsedInv, PathsDisjoint, RatingFresh
<1>5. IconsShown
  BY DEF Init, IconsShown
<1>6. NoOrphans
  BY <1>2, NoneIsNoValue DEF Init, NoOrphans
<1> QED
  BY <1>1, <1>3, <1>4, <1>5, <1>6 DEF IInv

-----------------------------------------------------------------------------
(* Steps of a request that change nothing but the request *)

LEMMA LocalStep ==
    ASSUME IInv, NEW c \in Calls, NEW q \in Call, calls' = [calls EXCEPT ![c] = q],
           UNCHANGED rows, Elsewhere,
           Shaped(q), ~q.overtaken => PathFound(q), RateFound(q),
           ~At(c, "update.icon") \/ "fail" \in world.ops
    PROVE  IInv'
<1> USE DEF Elsewhere
<1>1. TypeOK'
  BY DEF IInv, TypeOK
<1>2. CallInv'
  <2> SUFFICES ASSUME NEW x \in Calls
               PROVE  (/\ Shaped(calls[x]) /\ RateFound(calls[x])
                       /\ ~calls[x].overtaken => PathFound(calls[x]))'
    BY DEF CallInv
  <2>1. calls'[x] = IF x = c THEN q ELSE calls[x]
    BY DEF IInv, TypeOK
  <2>2. /\ Shaped(calls'[x]) /\ RateFound(calls'[x])
        /\ ~calls'[x].overtaken => PathFound(calls'[x])
    BY <2>1 DEF IInv, CallInv
  <2> QED
    BY <2>2 DEF Shaped, RateFound, PathFound, There
<1>3. UsedInv' /\ PathsDisjoint' /\ RatingFresh' /\ NoOrphans'
  BY DEF IInv, UsedInv, PathsDisjoint, RatingFresh, NoOrphans, There
<1>4. IconsShown'
  BY DEF IInv, TypeOK, IconsShown, At
<1> QED
  BY <1>1, <1>2, <1>3, <1>4 DEF IInv

LEMMA FormStep ==
    ASSUME IInv, NEW c \in Calls, NEW b \in world.bodies,
           Create(c, b) \/ \E p \in Products : Update(c, p, b)
    PROVE  IInv'
<1>0. b \in Bodies /\ b \in Body
  BY FormsType DEF IInv, TypeOK
<1>1. CASE Create(c, b)
  <2> DEFINE q == [NoCall EXCEPT !.pc = "create.insert", !.body = b, !.checked = TRUE]
  <2>1. /\ q \in Call /\ q.pc = "create.insert" /\ q.body = b /\ q.checked /\ ~q.overtaken
        /\ q.prod = None
    BY <1>0 DEF NoCall, Call, PcNames
  <2>2. Shaped(q) /\ RateFound(q)
    BY <2>1, <1>0 DEF Shaped, RateFound
  <2>3. PathFound(q)
    BY <2>1, <1>1 DEF PathFound, Create, ContextPathOverlaps
  <2>4. calls' = [calls EXCEPT ![c] = q] /\ At(c, "idle") /\ UNCHANGED rows /\ Elsewhere
    BY <1>1 DEF Create, Begin
  <2> HIDE DEF q
  <2> QED
    BY <2>1, <2>2, <2>3, <2>4, LocalStep DEF At
<1>2. ASSUME NEW p \in Products, Update(c, p, b) PROVE IInv'
  <2> DEFINE moved == b.path # rows[p].path
             q == [NoCall EXCEPT !.prod = p, !.body = b, !.checked = moved,
                                 !.pc = IF moved THEN "update.check" ELSE "update.save"]
  <2>1. /\ q \in Call /\ q.body = b /\ ~q.overtaken /\ q.prod = p /\ q.checked = moved
        /\ q.pc = IF moved THEN "update.check" ELSE "update.save"
    BY <1>0 DEF NoCall, Call, PcNames
  <2>4. calls' = [calls EXCEPT ![c] = q] /\ At(c, "idle") /\ UNCHANGED rows /\ Elsewhere
    BY <1>2 DEF Update, Begin
  <2> HIDE DEF q
  <2>2. Shaped(q) /\ RateFound(q)
    BY <2>1, <1>0 DEF Shaped, RateFound
  <2>3. PathFound(q)
    BY <2>1 DEF PathFound
  <2> QED
    BY <2>1, <2>2, <2>3, <2>4, LocalStep DEF At
<1> QED
  BY <1>1, <1>2

\* A request that returns, and one that goes on to a step that reads no more
\* than the last one.
LEMMA ReturnStep ==
    ASSUME IInv, NEW c \in Calls, Return(c), UNCHANGED rows, Elsewhere,
           ~At(c, "update.icon") \/ "fail" \in world.ops
    PROVE  IInv'
BY NullTypes, LocalStep DEF Return

LEMMA UpdateCheckStep ==
    ASSUME IInv, NEW c \in Calls, UpdateCheck(c)
    PROVE  IInv'
<1> DEFINE q == [calls[c] EXCEPT !.pc = "update.save", !.overtaken = FALSE]
<1>0. calls[c] \in Call /\ Shaped(calls[c]) /\ calls[c].pc = "update.check"
  BY DEF IInv, TypeOK, CallInv, UpdateCheck, At
<1>1. CASE Return(c)
  BY <1>0, <1>1, ReturnStep DEF UpdateCheck, At
<1>2. CASE /\ ~ContextPathOverlaps(calls[c].body.path, calls[c].prod)
           /\ calls' = [calls EXCEPT ![c] = [@ EXCEPT !.pc = "update.save", !.overtaken = FALSE]]
  <2>1. /\ q \in Call /\ q.pc = "update.save" /\ q.body = calls[c].body /\ q.prod = calls[c].prod
        /\ q.checked = calls[c].checked
    BY <1>0 DEF Call, PcNames
  <2>2. Shaped(q) /\ RateFound(q) /\ q.checked
    BY <1>0, <2>1 DEF Shaped, RateFound
  <2>3. PathFound(q)
    BY <1>2, <2>1, <2>2 DEF PathFound, ContextPathOverlaps
  <2>4. calls' = [calls EXCEPT ![c] = q] /\ UNCHANGED rows /\ Elsewhere
    BY <1>2 DEF UpdateCheck
  <2> HIDE DEF q
  <2> QED
    BY <1>0, <2>1, <2>2, <2>3, <2>4, LocalStep DEF At
<1> QED
  BY <1>1, <1>2 DEF UpdateCheck

LEMMA DeleteStep ==
    ASSUME IInv, NEW c \in Calls, NEW p \in Products, Delete(c, p)
    PROVE  IInv'
<1> DEFINE q == [NoCall EXCEPT !.pc = "delete.row", !.prod = p]
<1>1. q \in Call /\ q.pc = "delete.row" /\ q.prod = p
  BY DEF NoCall, Call, PcNames
<1>2. Shaped(q) /\ RateFound(q) /\ PathFound(q)
  BY <1>1 DEF Shaped, RateFound, PathFound
<1>3. calls' = [calls EXCEPT ![c] = q] /\ At(c, "idle") /\ UNCHANGED rows /\ Elsewhere
  BY DEF Delete, Begin
<1> HIDE DEF q
<1> QED
  BY <1>1, <1>2, <1>3, LocalStep DEF At

LEMMA RateStep ==
    ASSUME IInv, NEW c \in Calls, NEW s \in Slugs, NEW u \in Users, NEW n \in Stars, Rate(c, s, u, n)
    PROVE  IInv'
<1>1. PICK p \in Products :
          Begin(c, "rate", [NoCall EXCEPT !.pc = "rate.check", !.prod = p, !.user = u, !.stars = n])
  BY DEF Rate
<1> DEFINE q == [NoCall EXCEPT !.pc = "rate.check", !.prod = p, !.user = u, !.stars = n]
<1>2. q \in Call /\ q.pc = "rate.check" /\ q.prod = p /\ q.user = u /\ q.stars = n
  <2>1. n \in Nat
    BY StarsType
  <2> QED
    BY <2>1 DEF NoCall, Call, PcNames
<1>3. Shaped(q) /\ RateFound(q) /\ PathFound(q)
  BY <1>2 DEF Shaped, RateFound, PathFound
<1>4. calls' = [calls EXCEPT ![c] = q] /\ At(c, "idle") /\ UNCHANGED rows /\ Elsewhere
  BY <1>1 DEF Rate, Begin
<1> HIDE DEF q
<1> QED
  BY <1>2, <1>3, <1>4, LocalStep DEF At

\* The steps of a rating up to its commit.
LEMMA RatingStep ==
    ASSUME IInv, NEW c \in Calls, RateCheck(c) \/ RateUpsert(c) \/ RateSnapshot(c)
    PROVE  IInv'
<1> DEFINE old == calls[c]
<1>0. old \in Call /\ Shaped(old) /\ RateFound(old)
  BY DEF IInv, TypeOK, CallInv
<1>1. UNCHANGED rows /\ Elsewhere /\ ~At(c, "update.icon")
  BY DEF RateCheck, RateUpsert, RateSnapshot, At
<1>2. CASE Return(c)
  BY <1>1, <1>2, ReturnStep
<1>3. ASSUME NEW pc \in {"rate.upsert", "rate.snapshot"}, Goto(c, pc),
             old.pc \in {"rate.check", "rate.upsert"}, pc = "rate.snapshot" => There(old.prod)
      PROVE  IInv'
  <2> DEFINE q == [old EXCEPT !.pc = pc]
  <2>1. /\ q \in Call /\ q.pc = pc /\ q.prod = old.prod /\ q.user = old.user /\ q.stars = old.stars
        /\ q.overtaken = old.overtaken
    BY <1>0 DEF Call, PcNames
  <2>2. Shaped(q) /\ RateFound(q) /\ PathFound(q)
    BY <1>0, <1>3, <2>1 DEF Shaped, RateFound, PathFound
  <2>3. calls' = [calls EXCEPT ![c] = q]
    BY <1>3 DEF Goto
  <2> HIDE DEF q, old
  <2> QED
    BY <1>1, <2>1, <2>2, <2>3, LocalStep
<1>4. CASE RateSnapshot(c)
  <2> DEFINE q == [old EXCEPT !.pc = "rate.commit", !.total = TotalOf(Seen(c))]
  <2>0. old.pc = "rate.snapshot"
    BY <1>4 DEF RateSnapshot, At
  <2>1. Seen(c) \in [Users -> Stars \cup {0}]
    BY <1>0, <2>0 DEF IInv, TypeOK, Shaped, Seen
  <2>2. /\ q \in Call /\ q.pc = "rate.commit" /\ q.prod = old.prod /\ q.user = old.user
        /\ q.stars = old.stars /\ q.total = TotalOf(Seen(c))
    BY <1>0, <2>1, TotalOfType DEF Call, PcNames
  <2>3. Shaped(q) /\ PathFound(q)
    BY <1>0, <2>0, <2>2 DEF Shaped, PathFound
  <2>4. RateFound(q)
    BY <1>0, <2>0, <2>2 DEF RateFound, Seen
  <2>5. calls' = [calls EXCEPT ![c] = q]
    BY <1>4 DEF RateSnapshot
  <2> HIDE DEF q, old
  <2> QED
    BY <1>1, <2>2, <2>3, <2>4, <2>5, LocalStep
<1>5. CASE RateCheck(c)
  BY <1>2, <1>3, <1>5 DEF RateCheck, At
<1>6. CASE RateUpsert(c)
  BY <1>2, <1>3, <1>6 DEF RateUpsert, At
<1> QED
  BY <1>4, <1>5, <1>6

LEMMA FailStep ==
    ASSUME IInv, NEW c \in Calls, Fail(c)
    PROVE  IInv'
BY ReturnStep DEF Fail

-----------------------------------------------------------------------------
(* Steps that write the path of a product *)

LEMMA CallsAfterSave ==
    ASSUME IInv, NEW c \in Calls, NEW p \in Products, NEW next \in Call,
           PathWritten(c, p, next), Looked(calls[c])
    PROVE  /\ calls' \in [Calls -> Call] /\ calls'[c] = next
           /\ \A x \in Calls \ {c} :
                 /\ ~Looked(calls[x]) => calls'[x] = calls[x]
                 /\ Looked(calls[x]) => calls'[x] = [calls[x] EXCEPT !.overtaken = TRUE]
BY DEF PathWritten, IInv, TypeOK, Call

LEMMA SaveStep ==
    ASSUME IInv, NEW c \in Calls, NEW p \in Products, NEW row \in Row, NEW next \in Call,
           rows' = [rows EXCEPT ![p] = row], row.there,
           used' = used \cup {p}, UNCHANGED <<world, icons, entries, ratings, subscribers, shaky>>,
           PathWritten(c, p, next), Looked(calls[c]),
           Shaped(next), next.pc \in {"idle", "update.icon"},
           There(p) => row.rating = rows[p].rating,
           ~There(p) => row.rating = NoTotal,
           There(p) /\ row.icon # "upload" => next.pc = "update.icon" /\ next.prod = p,
           \A q \in Products \ {p} : There(q) => row.path # rows[q].path,
           ~calls[c].overtaken /\ calls[c].checked =>
               \A q \in Products \ {p} : There(q) => ~Collide(row.path, rows[q].path),
           ~calls[c].overtaken /\ ~calls[c].checked => There(p) /\ row.path = rows[p].path
    PROVE  IInv'
<1>1. /\ rows \in [Products -> Row] /\ rows' \in [Products -> Row] /\ rows'[p] = row
      /\ \A q \in Products \ {p} : rows'[q] = rows[q]
      /\ \A q \in Products : There(q) => There(q)'
  BY DEF IInv, TypeOK, There
<1>2. /\ calls' \in [Calls -> Call] /\ calls'[c] = next
      /\ \A x \in Calls \ {c} :
            /\ ~Looked(calls[x]) => calls'[x] = calls[x]
            /\ Looked(calls[x]) => calls'[x] = [calls[x] EXCEPT !.overtaken = TRUE]
  BY CallsAfterSave
<1>3. TypeOK'
  BY <1>1, <1>2 DEF IInv, TypeOK, PathWritten
<1>4. CallInv'
  <2> SUFFICES ASSUME NEW x \in Calls
               PROVE  (/\ Shaped(calls[x]) /\ RateFound(calls[x])
                       /\ ~calls[x].overtaken => PathFound(calls[x]))'
    BY DEF CallInv
  <2>1. CASE x = c
    BY <1>2, <2>1 DEF Shaped, RateFound, PathFound
  <2>2. CASE x # c /\ ~Looked(calls[x])
    <3>1. calls'[x] = calls[x] /\ Shaped(calls[x]) /\ RateFound(calls[x])
      BY <1>2, <2>2 DEF IInv, CallInv
    <3>2. Shaped(calls[x])' /\ PathFound(calls[x])'
      BY <3>1, <2>2 DEF Shaped, PathFound, Looked
    <3>3. RateFound(calls[x])'
      BY <3>1, <1>1 DEF Shaped, RateFound
    <3> QED
      BY <3>2, <3>3
  <2>3. CASE x # c /\ Looked(calls[x])
    <3>1. calls'[x] = [calls[x] EXCEPT !.overtaken = TRUE] /\ Shaped(calls[x]) /\ calls[x] \in Call
      BY <1>2, <2>3 DEF IInv, TypeOK, CallInv
    <3>2. /\ calls'[x].overtaken /\ calls'[x].pc = calls[x].pc /\ calls'[x].prod = calls[x].prod
          /\ calls'[x].body = calls[x].body /\ calls'[x].checked = calls[x].checked
      BY <3>1 DEF Call
    <3> QED
      BY <3>1, <3>2, <2>3 DEF Shaped, RateFound, Looked
  <2> QED
    BY <2>1, <2>2, <2>3
<1>5. UsedInv'
  BY <1>1 DEF IInv, UsedInv, There
<1>6. PathsDisjoint'
  <2>0. \A q, r \in Products : q # r /\ There(q)' /\ There(r)' => rows'[q].path # rows'[r].path
    BY <1>1 DEF IInv, PathsDisjoint, There
  <2> SUFFICES ASSUME NEW q \in Products, NEW r \in Products, q # r, There(q)', There(r)',
                      Collide(rows'[q].path, rows'[r].path)
               PROVE  q \in doubtful' \/ r \in doubtful'
    BY <2>0 DEF PathsDisjoint, Collide
  <2>1. CASE calls[c].overtaken
    <3>1. doubtful' = doubtful \cup {p}
      BY <2>1 DEF PathWritten
    <3> QED
      BY <1>1, <3>1 DEF IInv, PathsDisjoint, There
  <2>2. CASE ~calls[c].overtaken /\ calls[c].checked
    <3>1. doubtful' = doubtful \ {p}
      BY <2>2 DEF PathWritten
    <3>2. q # p /\ r # p
      BY <1>1, <2>2, CollideSymmetric DEF There
    <3> QED
      BY <1>1, <3>1, <3>2 DEF IInv, PathsDisjoint, There
  <2>3. CASE ~calls[c].overtaken /\ ~calls[c].checked
    <3>1. doubtful' = doubtful /\ There(p) /\ rows'[p].path = rows[p].path
      BY <2>3, <1>1 DEF PathWritten
    <3> QED
      BY <1>1, <3>1 DEF IInv, PathsDisjoint, There
  <2> QED
    BY <2>1, <2>2, <2>3
<1>7. RatingFresh'
  <2> SUFFICES ASSUME NEW q \in Products, There(q)', q \notin shaky
               PROVE  rows'[q].rating = TotalOf(ratings[q])
    BY DEF RatingFresh
  <2>1. CASE There(q)
    BY <1>1, <2>1 DEF IInv, RatingFresh
  <2>2. CASE ~There(q)
    <3>1. q = p /\ rows'[q].rating = NoTotal
      BY <1>1, <2>2 DEF There
    <3>2. TotalOf(ratings[q]) = NoTotal
      BY <2>2, NoRatersNoTotal DEF IInv, NoOrphans
    <3> QED
      BY <3>1, <3>2
  <2> QED
    BY <2>1, <2>2
<1>8. IconsShown'
  <2> SUFFICES ASSUME "fail" \notin world.ops, NEW q \in icons
               PROVE  rows'[q].icon = "upload"
                      \/ \E x \in Calls : calls'[x].pc = "update.icon" /\ calls'[x].prod = q
    BY DEF IconsShown, At
  <2>1. q \in Products /\ There(q)
    BY DEF IInv, NoOrphans
  <2>2. CASE q = p
    BY <1>1, <1>2, <2>1, <2>2
  <2>3. CASE q # p /\ rows[q].icon = "upload"
    BY <1>1, <2>1, <2>3
  <2>4. ASSUME NEW x \in Calls, At(x, "update.icon"), calls[x].prod = q
        PROVE  calls'[x].pc = "update.icon" /\ calls'[x].prod = q
    BY <1>2, <2>4 DEF At, Looked
  <2> QED
    BY <2>2, <2>3, <2>4 DEF IInv, IconsShown
<1>9. NoOrphans'
  BY <1>1 DEF IInv, NoOrphans, There
<1> QED
  BY <1>3, <1>4, <1>5, <1>6, <1>7, <1>8, <1>9 DEF IInv

LEMMA CreateInsertStep ==
    ASSUME IInv, NEW c \in Calls, CreateInsert(c)
    PROVE  IInv'
<1> DEFINE b == calls[c].body
<1>0. /\ calls[c] \in Call /\ Shaped(calls[c]) /\ calls[c].pc = "create.insert"
      /\ ~calls[c].overtaken => PathFound(calls[c])
  BY DEF IInv, TypeOK, CallInv, CreateInsert, At
<1>1. CASE Return(c) /\ UNCHANGED <<rows, used, doubtful>>
  BY <1>0, <1>1, ReturnStep DEF CreateInsert, Elsewhere, At
<1>2. ASSUME NEW p \in Products \ used, ~Taken(b, None), InsertProduct(p, b), PathWritten(c, p, NoCall)
      PROVE  IInv'
  <2> DEFINE row == Saved(b, NoRow)
  <2>1. b \in Body
    BY <1>0, BodiesType DEF Shaped
  <2>2. row \in Row /\ row.there /\ row.path = b.path /\ row.rating = NoTotal
    BY <2>1, NullTypes DEF Saved, Row, Body, NoRow
  <2>3. ~There(p)
    BY <1>2 DEF IInv, UsedInv
  <2>4. ~calls[c].overtaken => \A q \in Products \ {p} : There(q) => ~Collide(row.path, rows[q].path)
    BY <1>0, <2>2, NoneIsNoValue DEF PathFound, Shaped
  <2>5. rows' = [rows EXCEPT ![p] = row] /\ used' = used \cup {p}
    BY <1>2 DEF InsertProduct
  <2>8. \A q \in Products \ {p} : There(q) => row.path # rows[q].path
    BY <1>2, <2>2, NoneIsNoValue DEF Taken
  <2>6. Looked(calls[c]) /\ calls[c].checked /\ NoCall.pc = "idle"
    BY <1>0 DEF Looked, Shaped, NoCall
  <2>7. UNCHANGED <<world, icons, entries, ratings, subscribers, shaky>>
    BY DEF CreateInsert
  <2> HIDE DEF row, b
  <2> QED
    BY <1>2, <2>2, <2>3, <2>4, <2>5, <2>6, <2>7, <2>8, NullTypes, SaveStep
<1> QED
  BY <1>1, <1>2 DEF CreateInsert

LEMMA UpdateSaveStep ==
    ASSUME IInv, NEW c \in Calls, UpdateSave(c)
    PROVE  IInv'
<1> DEFINE b == calls[c].body
           p == calls[c].prod
           next == IF b.icon = "upload" THEN NoCall ELSE [calls[c] EXCEPT !.pc = "update.icon"]
<1>0. /\ calls[c] \in Call /\ Shaped(calls[c]) /\ calls[c].pc = "update.save"
      /\ ~calls[c].overtaken => PathFound(calls[c])
  BY DEF IInv, TypeOK, CallInv, UpdateSave, At
<1>1. CASE Return(c) /\ UNCHANGED <<rows, doubtful>>
  BY <1>0, <1>1, ReturnStep DEF UpdateSave, Elsewhere, At
<1>2. CASE /\ There(p) /\ ~Taken(b, p)
           /\ rows' = [rows EXCEPT ![p] = Saved(b, rows[p])]
           /\ PathWritten(c, p, next)
  <2> DEFINE row == Saved(b, rows[p])
  <2>1. b \in Bodies /\ b \in Body /\ p \in Products /\ rows[p] \in Row
    BY <1>0, BodiesType DEF Shaped, IInv, TypeOK
  <2>2. row \in Row /\ row.there /\ row.path = b.path /\ row.rating = rows[p].rating /\ row.icon = b.icon
    BY <2>1 DEF Saved, Row, Body
  <2>3. /\ next \in Call /\ next.pc \in {"idle", "update.icon"} /\ Shaped(next)
        /\ b.icon # "upload" => next.pc = "update.icon" /\ next.prod = p
    <3>1. CASE b.icon = "upload"
      BY <3>1, NullTypes DEF NoCall
    <3>2. CASE b.icon # "upload"
      <4> DEFINE q == [calls[c] EXCEPT !.pc = "update.icon"]
      <4>1. q \in Call /\ q.pc = "update.icon" /\ q.prod = p /\ q.body = b
        BY <1>0 DEF Call, PcNames
      <4>2. Shaped(q) /\ next = q
        BY <2>1, <3>2, <4>1 DEF Shaped
      <4> QED
        BY <4>1, <4>2
    <3> QED
      BY <3>1, <3>2
  <2>4. /\ ~calls[c].overtaken /\ calls[c].checked =>
               \A q \in Products \ {p} : There(q) => ~Collide(row.path, rows[q].path)
        /\ ~calls[c].overtaken /\ ~calls[c].checked => row.path = rows[p].path
    BY <1>0, <1>2, <2>2 DEF PathFound
  <2>5. used' = used \cup {p} /\ UNCHANGED <<world, icons, entries, ratings, subscribers, shaky>>
    BY <1>2, <2>1 DEF IInv, UsedInv, UpdateSave
  <2>6. Looked(calls[c])
    BY <1>0 DEF Looked
  <2>8. \A q \in Products \ {p} : There(q) => row.path # rows[q].path
    BY <1>2, <2>2 DEF Taken
  <2> HIDE DEF row, next, b, p
  <2>7. rows' = [rows EXCEPT ![p] = row] /\ There(p) /\ PathWritten(c, p, next)
    BY <1>2 DEF row
  <2> QED
    BY <2>1, <2>2, <2>3, <2>4, <2>5, <2>6, <2>7, <2>8, SaveStep
<1> QED
  BY <1>1, <1>2 DEF UpdateSave

-----------------------------------------------------------------------------
(* Images, changelogs and subscriptions *)

LEMMA UpdateIconStep ==
    ASSUME IInv, NEW c \in Calls, UpdateIcon(c)
    PROVE  IInv'
<1>1. /\ calls' = [calls EXCEPT ![c] = NoCall] /\ icons' = icons \ {calls[c].prod}
      /\ UNCHANGED <<world, rows, used, entries, ratings, subscribers, doubtful, shaky>>
  BY DEF UpdateIcon, Return
<1>2. TypeOK'
  BY <1>1, NullTypes DEF IInv, TypeOK
<1>3. CallInv'
  <2> SUFFICES ASSUME NEW x \in Calls
               PROVE  (/\ Shaped(calls[x]) /\ RateFound(calls[x])
                       /\ ~calls[x].overtaken => PathFound(calls[x]))'
    BY DEF CallInv
  <2>1. calls'[x] = NoCall \/ calls'[x] = calls[x]
    BY <1>1 DEF IInv, TypeOK
  <2>2. /\ Shaped(calls'[x]) /\ RateFound(calls'[x])
        /\ ~calls'[x].overtaken => PathFound(calls'[x])
    BY <2>1, NullTypes DEF IInv, CallInv
  <2> QED
    BY <1>1, <2>2 DEF Shaped, RateFound, PathFound, There
<1>4. UsedInv' /\ PathsDisjoint' /\ RatingFresh' /\ NoOrphans'
  BY <1>1 DEF IInv, UsedInv, PathsDisjoint, RatingFresh, NoOrphans, There
<1>5. IconsShown'
  BY <1>1 DEF IInv, TypeOK, IconsShown, At
<1> QED
  BY <1>2, <1>3, <1>4, <1>5 DEF IInv

LEMMA UploadIconStep ==
    ASSUME IInv, NEW p \in Products, UploadIcon(p)
    PROVE  IInv'
<1>1. /\ rows' = [rows EXCEPT ![p].icon = "upload"] /\ icons' = icons \cup {p} /\ There(p)
      /\ UNCHANGED <<world, used, entries, ratings, subscribers, calls, doubtful, shaky>>
  BY DEF UploadIcon, SetUploadedIcon
<1>2. /\ rows' \in [Products -> Row] /\ rows'[p].icon = "upload"
      /\ \A q \in Products : /\ rows'[q].there = rows[q].there /\ rows'[q].path = rows[q].path
                             /\ rows'[q].rating = rows[q].rating
                             /\ q # p => rows'[q].icon = rows[q].icon
  BY <1>1 DEF IInv, TypeOK, Row
<1>3. TypeOK'
  BY <1>1, <1>2 DEF IInv, TypeOK
<1>4. CallInv'
  <2> SUFFICES ASSUME NEW x \in Calls
               PROVE  (/\ Shaped(calls[x]) /\ RateFound(calls[x])
                       /\ ~calls[x].overtaken => PathFound(calls[x]))'
    BY DEF CallInv
  <2>1. /\ Shaped(calls[x]) /\ RateFound(calls[x])
        /\ ~calls[x].overtaken => PathFound(calls[x])
    BY DEF IInv, CallInv
  <2> QED
    BY <1>1, <1>2, <2>1 DEF Shaped, RateFound, PathFound, There
<1>5. UsedInv' /\ PathsDisjoint' /\ RatingFresh' /\ NoOrphans'
  BY <1>1, <1>2 DEF IInv, UsedInv, PathsDisjoint, RatingFresh, NoOrphans, There
<1>6. IconsShown'
  BY <1>1, <1>2 DEF IInv, IconsShown, NoOrphans, At
<1> QED
  BY <1>3, <1>4, <1>5, <1>6 DEF IInv

\* Steps that leave alone what requests in progress and averages rest on.
LEMMA TableStep ==
    ASSUME IInv, UNCHANGED <<world, rows, used, icons, ratings, calls, doubtful, shaky>>,
           TypeOK', NoOrphans'
    PROVE  IInv'
<1>1. CallInv' /\ UsedInv' /\ PathsDisjoint' /\ RatingFresh' /\ IconsShown'
  BY DEF IInv, CallInv, Shaped, PathFound, RateFound, UsedInv, PathsDisjoint, RatingFresh,
         IconsShown, There, At
<1> QED
  BY <1>1 DEF IInv

LEMMA AddChangelogStep ==
    ASSUME IInv, NEW p \in Products, AddChangelog(p)
    PROVE  IInv'
<1>1. PICK e \in EntryIds : entries' = [entries EXCEPT ![e] = p]
  BY DEF AddChangelog
<1>2. TypeOK' /\ NoOrphans'
  BY <1>1 DEF IInv, TypeOK, NoOrphans, AddChangelog, There
<1> QED
  BY <1>2, TableStep DEF AddChangelog

LEMMA DeleteChangelogStep ==
    ASSUME IInv, NEW e \in EntryIds, DeleteChangelog(e)
    PROVE  IInv'
<1>1. TypeOK' /\ NoOrphans'
  BY GoneIsNoProduct DEF IInv, TypeOK, NoOrphans, DeleteChangelog, There
<1> QED
  BY <1>1, TableStep DEF DeleteChangelog

LEMMA SubscriptionStep ==
    ASSUME IInv, NEW p \in Products, NEW u \in Users, Subscription(p, u)
    PROVE  IInv'
<1>1. TypeOK' /\ NoOrphans'
  BY DEF IInv, TypeOK, NoOrphans, Subscription, There
<1> QED
  BY <1>1, TableStep DEF Subscription

-----------------------------------------------------------------------------
(* Deletions and committed ratings *)

LEMMA DeleteRowStep ==
    ASSUME IInv, NEW c \in Calls, DeleteRow(c)
    PROVE  IInv'
<1> DEFINE p == calls[c].prod
<1>1. p \in Products /\ calls[c].pc = "delete.row" /\ Rating(p) = {}
  BY DEF IInv, CallInv, Shaped, DeleteRow, At
<1> HIDE DEF p
<1>2. /\ rows' = [rows EXCEPT ![p] = NoRow] /\ icons' = icons \ {p}
      /\ entries' = [e \in EntryIds |-> IF entries[e] = p THEN "gone" ELSE entries[e]]
      /\ ratings' = [ratings EXCEPT ![p] = [u \in Users |-> 0]]
      /\ subscribers' = [subscribers EXCEPT ![p] = {}]
      /\ calls' = [calls EXCEPT ![c] = NoCall]
      /\ UNCHANGED <<world, used, doubtful, shaky>>
  BY DEF DeleteRow, Erased, Return, p
<1>3. /\ rows \in [Products -> Row] /\ rows'[p] = NoRow /\ ~rows'[p].there
      /\ \A q \in Products \ {p} : rows'[q] = rows[q] /\ ratings'[q] = ratings[q]
  BY <1>1, <1>2 DEF IInv, TypeOK, NoRow
<1>4. TypeOK'
  BY <1>1, <1>2, NullTypes DEF IInv, TypeOK
<1>5. CallInv'
  <2> SUFFICES ASSUME NEW x \in Calls
               PROVE  (/\ Shaped(calls[x]) /\ RateFound(calls[x])
                       /\ ~calls[x].overtaken => PathFound(calls[x]))'
    BY DEF CallInv
  <2>1. CASE x = c
    <3>1. calls'[x] = NoCall
      BY <1>2, <2>1 DEF IInv, TypeOK
    <3> QED
      BY <3>1 DEF NoCall, Shaped, RateFound, PathFound
  <2>2. CASE x # c
    <3>1. /\ calls'[x] = calls[x] /\ Shaped(calls[x]) /\ RateFound(calls[x])
          /\ ~calls[x].overtaken => PathFound(calls[x])
      BY <1>2, <2>2 DEF IInv, TypeOK, CallInv
    <3>2. Shaped(calls[x])'
      BY <3>1 DEF Shaped
    <3>3. RateFound(calls[x])'
      <4>1. CASE calls[x].pc \in {"rate.snapshot", "rate.commit"}
        <5>1. calls[x].prod \in Products \ {p}
          BY <1>1, <3>1, <4>1 DEF Rating, Shaped
        <5> QED
          BY <1>3, <3>1, <5>1 DEF RateFound, There
      <4>2. CASE calls[x].pc \notin {"rate.snapshot", "rate.commit"}
        BY <3>1, <4>2 DEF RateFound
      <4> QED
        BY <4>1, <4>2
    <3>4. ~calls'[x].overtaken => PathFound(calls[x])'
      BY <1>3, <3>1 DEF PathFound, Shaped, There
    <3> QED
      BY <3>2, <3>3, <3>4
  <2> QED
    BY <2>1, <2>2
<1>6. UsedInv' /\ PathsDisjoint' /\ RatingFresh'
  BY <1>2, <1>3 DEF IInv, UsedInv, PathsDisjoint, RatingFresh, There
<1>7. IconsShown'
  <2> SUFFICES ASSUME "fail" \notin world.ops, NEW q \in icons, q # p
               PROVE  rows'[q].icon = "upload"
                      \/ \E x \in Calls : calls'[x].pc = "update.icon" /\ calls'[x].prod = q
    BY <1>2 DEF IconsShown, At
  <2>1. rows'[q] = rows[q]
    BY <1>3 DEF IInv, TypeOK
  <2>2. \A x \in Calls : At(x, "update.icon") => calls'[x] = calls[x]
    BY <1>1, <1>2 DEF At, IInv, TypeOK
  <2> QED
    BY <2>1, <2>2 DEF IInv, IconsShown, At
<1>8. NoOrphans'
  <2>1. icons' \subseteq {q \in Products : rows'[q].there}
    BY <1>2, <1>3 DEF IInv, NoOrphans, There
  <2>2. \A e \in EntryIds : entries'[e] \in Products => rows'[entries'[e]].there
    BY <1>1, <1>2, <1>3, GoneIsNoProduct DEF IInv, TypeOK, NoOrphans, There
  <2>3. \A q \in Products : ~rows'[q].there => subscribers'[q] = {} /\ \A u \in Users : ratings'[q][u] = 0
    BY <1>1, <1>2, <1>3 DEF IInv, TypeOK, NoOrphans, There
  <2> QED
    BY <2>1, <2>2, <2>3 DEF NoOrphans, There
<1> QED
  BY <1>4, <1>5, <1>6, <1>7, <1>8 DEF IInv

LEMMA RateCommitStep ==
    ASSUME IInv, NEW c \in Calls, RateCommit(c)
    PROVE  IInv'
<1> DEFINE p == calls[c].prod
<1>1. /\ p \in Products /\ calls[c].pc = "rate.commit" /\ There(p)
      /\ calls[c].user \in Users /\ calls[c].stars \in Stars
      /\ ~calls[c].overtaken => calls[c].total = TotalOf(Seen(c))
      /\ calls[c] \in Call
  BY DEF IInv, TypeOK, CallInv, Shaped, RateFound, RateCommit, At, Seen
<1>2. Seen(c) \in [Users -> Stars \cup {0}]
  BY <1>1 DEF IInv, TypeOK, Seen
<1> HIDE DEF p
<1>3. /\ ratings' = [ratings EXCEPT ![p] = Seen(c)]
      /\ rows' = [rows EXCEPT ![p].rating = calls[c].total]
      /\ shaky' = IF calls[c].overtaken THEN shaky \cup {p} ELSE shaky \ {p}
      /\ UNCHANGED <<world, used, icons, entries, subscribers, doubtful>>
  BY DEF RateCommit, p
<1>4. /\ calls'[c] = NoCall
      /\ calls' \in [Calls -> Call]
      /\ \A x \in Calls \ {c} :
            \/ calls'[x] = calls[x] /\ ~(calls[x].pc = "rate.commit" /\ calls[x].prod = p)
            \/ calls'[x] = [calls[x] EXCEPT !.overtaken = TRUE] /\ calls[x].pc = "rate.commit"
  <2>1. calls' = [x \in Calls |->
            IF x = c THEN NoCall
            ELSE IF x \in Rating(p) /\ At(x, "rate.commit")
                 THEN [calls[x] EXCEPT !.overtaken = TRUE] ELSE calls[x]]
    BY DEF RateCommit, p
  <2>2. \A x \in Calls : x \in Rating(p) /\ At(x, "rate.commit")
                         <=> calls[x].pc = "rate.commit" /\ calls[x].prod = p
    BY DEF Rating, At
  <2>3. calls \in [Calls -> Call] /\ NoCall \in Call
    BY NullTypes DEF IInv, TypeOK
  <2>4. \A q \in Call : [q EXCEPT !.overtaken = TRUE] \in Call
    BY DEF Call
  <2> QED
    BY <2>1, <2>2, <2>3, <2>4
<1>5. /\ rows' \in [Products -> Row] /\ rows'[p].rating = calls[c].total /\ ratings'[p] = Seen(c)
      /\ \A q \in Products :
            /\ rows'[q].there = rows[q].there /\ rows'[q].path = rows[q].path
            /\ rows'[q].icon = rows[q].icon
            /\ q # p => rows'[q].rating = rows[q].rating /\ ratings'[q] = ratings[q]
  <2>1. rows \in [Products -> Row] /\ ratings \in [Products -> [Users -> Stars \cup {0}]]
    BY DEF IInv, TypeOK
  <2>2. calls[c].total \in Total \cup {NoTotal}
    BY <1>1 DEF Call
  <2>3. rows' \in [Products -> Row]
    BY <1>1, <1>3, <2>1, <2>2 DEF Row
  <2>4. rows'[p].rating = calls[c].total /\ ratings'[p] = Seen(c)
    BY <1>1, <1>3, <2>1 DEF Row
  <2> QED
    BY <1>3, <2>1, <2>3, <2>4 DEF Row
<1>6. TypeOK'
  BY <1>1, <1>2, <1>3, <1>4, <1>5 DEF IInv, TypeOK
<1>7. CallInv'
  <2> SUFFICES ASSUME NEW x \in Calls
               PROVE  (/\ Shaped(calls[x]) /\ RateFound(calls[x])
                       /\ ~calls[x].overtaken => PathFound(calls[x]))'
    BY DEF CallInv
  <2>0. /\ Shaped(calls[x]) /\ RateFound(calls[x]) /\ calls[x] \in Call
        /\ ~calls[x].overtaken => PathFound(calls[x])
    BY DEF IInv, TypeOK, CallInv
  <2>1. CASE x = c
    BY <1>4, <2>1 DEF NoCall, Shaped, RateFound, PathFound
  <2>2. CASE x # c /\ calls'[x] = calls[x] /\ ~(calls[x].pc = "rate.commit" /\ calls[x].prod = p)
    <3>1. Shaped(calls[x])' /\ (~calls'[x].overtaken => PathFound(calls[x])')
      BY <1>5, <2>0, <2>2 DEF Shaped, PathFound, There
    <3>2. RateFound(calls[x])'
      BY <1>5, <2>0, <2>2 DEF RateFound, Shaped, There
    <3> QED
      BY <3>1, <3>2
  <2>3. CASE x # c /\ calls'[x] = [calls[x] EXCEPT !.overtaken = TRUE] /\ calls[x].pc = "rate.commit"
    <3>1. /\ calls'[x].overtaken /\ calls'[x].pc = "rate.commit" /\ calls'[x].prod = calls[x].prod
          /\ calls'[x].user = calls[x].user /\ calls'[x].stars = calls[x].stars
      BY <2>0, <2>3 DEF Call
    <3> QED
      BY <1>5, <2>0, <2>3, <3>1 DEF Shaped, RateFound, There
  <2> QED
    BY <1>4, <2>1, <2>2, <2>3
<1>8. UsedInv' /\ PathsDisjoint'
  BY <1>3, <1>5 DEF IInv, UsedInv, PathsDisjoint, There
<1>9. RatingFresh'
  BY <1>1, <1>3, <1>5 DEF IInv, RatingFresh, There
<1>10. IconsShown'
  <2>1. \A x \in Calls : At(x, "update.icon") => calls'[x] = calls[x]
    BY <1>1, <1>4 DEF At
  <2> QED
    BY <1>3, <1>5, <2>1 DEF IInv, TypeOK, IconsShown, At
<1>11. NoOrphans'
  BY <1>1, <1>3, <1>5 DEF IInv, NoOrphans, There
<1> QED
  BY <1>6, <1>7, <1>8, <1>9, <1>10, <1>11 DEF IInv

-----------------------------------------------------------------------------
(* The theorems *)

LEMMA Inductive == IInv /\ [Next]_vars => IInv'
<1> SUFFICES ASSUME IInv, [Next]_vars PROVE IInv'
  OBVIOUS
<1>1. CASE \E c \in Calls, b \in world.bodies : Create(c, b) \/ \E p \in Products : Update(c, p, b)
  BY <1>1, FormStep
<1>2. CASE \E c \in Calls : CreateInsert(c) \/ UpdateCheck(c) \/ UpdateSave(c) \/ UpdateIcon(c) \/ DeleteRow(c)
  BY <1>2, CreateInsertStep, UpdateCheckStep, UpdateSaveStep, UpdateIconStep, DeleteRowStep
<1>3. CASE \E p \in Products : UploadIcon(p) \/ AddChangelog(p)
  BY <1>3, UploadIconStep, AddChangelogStep
<1>4. CASE \E e \in EntryIds : DeleteChangelog(e)
  BY <1>4, DeleteChangelogStep
<1>5. CASE \E c \in Calls, p \in Products : Delete(c, p)
  BY <1>5, DeleteStep
<1>6. CASE \E p \in Products, u \in Users : Subscription(p, u)
  BY <1>6, SubscriptionStep
<1>7. CASE \E c \in Calls, s \in Slugs, u \in Users, n \in Stars : Rate(c, s, u, n)
  BY <1>7, RateStep
<1>8. CASE \E c \in Calls : RateCheck(c) \/ RateUpsert(c) \/ RateSnapshot(c) \/ RateCommit(c) \/ Fail(c)
  BY <1>8, RatingStep, RateCommitStep, FailStep
<1>9. CASE UNCHANGED vars
  <2>1. TypeOK' /\ NoOrphans'
    BY <1>9 DEF vars, IInv, TypeOK, NoOrphans, There
  <2> QED
    BY <1>9, <2>1, TableStep DEF vars
<1> QED
  BY <1>1, <1>2, <1>3, <1>4, <1>5, <1>6, <1>7, <1>8, <1>9 DEF Next

\* The inductive invariant of the catalogue: what requests in progress saw of
\* the paths and the ratings is still so unless another one overtook them.
THEOREM Invariance == Spec => []IInv
BY Initially, Inductive, PTL DEF Spec

\* Context paths never collide, except where two saves looked before either
\* wrote (admin Service.checkPathOverlap).
THEOREM PathsStayDisjoint == Spec => []PathsDisjoint
<1>1. IInv => PathsDisjoint
  BY DEF IInv
<1> QED
  BY <1>1, Invariance, PTL

\* The stored average is that of the stored ratings, except where two ratings
\* overlapped (ratings Repository.Upsert).
THEOREM RatingsStayFresh == Spec => []RatingFresh
<1>1. IInv => RatingFresh
  BY DEF IInv
<1> QED
  BY <1>1, Invariance, PTL

\* An image nobody shows is about to be removed (admin Service.Update).
THEOREM ImagesAreShown == Spec => []IconsShown
<1>1. IInv => IconsShown
  BY DEF IInv
<1> QED
  BY <1>1, Invariance, PTL

\* Images, changelog entries, ratings and subscriptions go with their product.
THEOREM NothingOrphaned == Spec => []NoOrphans
<1>1. IInv => NoOrphans
  BY DEF IInv
<1> QED
  BY <1>1, Invariance, PTL

=============================================================================
