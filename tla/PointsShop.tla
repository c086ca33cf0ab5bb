----------------------------- MODULE PointsShop -----------------------------
(***************************************************************************)
(* The points economy of the site: the balance and the ledger of every     *)
(* account, the shop catalog and the redemption queue, and every request   *)
(* that touches them (backend/routers/points_shop.py, the .nick endpoint   *)
(* of plugin_integration.py and the bulk grant of users.py).               *)
(*                                                                         *)
(* A request is an asyncio task with a database session of its own.  It is *)
(* interleaved with the others at every await, so each awaited statement   *)
(* is an action.  The engine is SQLite in WAL mode through Python's sqlite *)
(* driver: a SELECT outside a transaction sees the last committed state    *)
(* ("disk"); the first INSERT/UPDATE/DELETE of a session takes the single  *)
(* writer lock ("writer"); what it writes ("draft") is seen by that        *)
(* session only, until COMMIT installs it.  A request whose statements     *)
(* after the lock read nothing that could turn it back is one action.      *)
(***************************************************************************)
EXTENDS Integers, Sequences, FiniteSets

CONSTANTS
    Users,        \* site accounts (none is deleted here)
    ItemIds,      \* primary keys of shop_items: 1..n
    Requests,     \* the HTTP requests of a behaviour, each made once
    Opening,      \* every account's balance when the behaviour starts
    Bodies,       \* the bodies an admin may create or update an item with
    FirstBody,    \* the item the catalog starts with, under id 1
    ColumnSets,   \* the sets of columns an update may write
    Deltas,       \* amounts an admin grants (never 0: schemas.py)
    NickCost,     \* Setting nickname_change_cost
    Cooldown,     \* Setting nickname_change_cooldown_days
    Window,       \* seven days
    NULL,         \* SQL NULL
    MaxNow,       \* bound: the days a behaviour lasts
    MaxUpdates,   \* bound: catalog updates
    MaxDeletes    \* bound: catalog deletions

Positive == {n \in Nat : n > 0}

Body == [name: STRING, active: BOOLEAN, cost: Positive,
         stock: Nat \cup {NULL}, limit: Positive \cup {NULL}]

Columns == {"name", "active", "cost", "stock", "limit"}

ASSUME ConstantsAssumption ==
    /\ Users # {}
    /\ ItemIds = 1..Cardinality(ItemIds) /\ 1 \in ItemIds
    /\ Opening \in Nat
    /\ Bodies \subseteq Body
    /\ FirstBody \in Body
    /\ ColumnSets \subseteq SUBSET Columns
    /\ Deltas \subseteq Int /\ 0 \notin Deltas
    /\ NickCost \in Positive
    /\ Cooldown \in Nat /\ Window \in Nat
    /\ NULL \notin Int
    /\ MaxNow \in Nat /\ MaxUpdates \in Nat /\ MaxDeletes \in Nat

NoRequest == "none"

ASSUME NoRequestAssumption == NoRequest \notin Requests

VARIABLES
    disk,       \* the committed database
    draft,      \* the database as the session holding the lock sees it
    writer,     \* the request that holds SQLite's writer lock
    req,        \* req[r]: where request r is and what it has read so far
    now,        \* the day
    published,  \* published[i]: every offer the catalog ever made under id i
    edits       \* catalog updates and deletions so far (for the bounds)

vars == <<disk, draft, writer, req, now, published, edits>>

-----------------------------------------------------------------------------
\* The tables.

\* What a purchaser acts on: the columns redeem_shop_item reads from its copy
\* of the item.  "counted" is item.stock is not None.
Offer == [name: STRING, cost: Positive, counted: BOOLEAN,
          limit: Positive \cup {NULL}]

OfferOf(b) == [name |-> b.name, cost |-> b.cost, counted |-> b.stock # NULL,
               limit |-> b.limit]

\* A row of shop_items; "live" tells a row from a hole left by a deletion.
ItemRow == [name: STRING, active: BOOLEAN, cost: Positive,
            stock: Nat \cup {NULL}, limit: Positive \cup {NULL},
            live: BOOLEAN]

RowOf(b) == [name |-> b.name, active |-> b.active, cost |-> b.cost,
             stock |-> b.stock, limit |-> b.limit, live |-> TRUE]

Statuses == {"pending", "fulfilled", "cancelled"}

Order == [user: Users, item: ItemIds, name: STRING, cost: Positive,
          status: Statuses, at: Nat]

\* A row of points_transactions; ref is the redemption it names, or 0.
Reasons == {"redeem", "refund", "grant", "nickname_change"}

Transaction == [delta: Int, after: Int, reason: Reasons, ref: Nat, at: Nat]

Database == [balance: [Users -> Int], items: [ItemIds -> ItemRow],
             orders: Seq(Order), ledger: [Users -> Seq(Transaction)]]

Entry(delta, after, reason, ref, t) ==
    [delta |-> delta, after |-> after, reason |-> reason, ref |-> ref,
     at |-> t]

\* The redemptions weekly_limit_per_user counts for u and id i at time t.
CountedOrders(os, u, i, t) ==
    {k \in DOMAIN os : /\ os[k].user = u
                       /\ os[k].item = i
                       /\ os[k].status # "cancelled"
                       /\ os[k].at >= t - Window}

\* _recent_redemption_count() has reached the limit of the offer in hand.
LimitReached(db, u, i, offer) ==
    /\ offer.limit # NULL
    /\ Cardinality(CountedOrders(db.orders, u, i, now)) >= offer.limit

\* The latest nickname_change row of u is younger than the cooldown.
NickOnCooldown(db, u) ==
    \E k \in DOMAIN db.ledger[u] :
        /\ db.ledger[u][k].reason = "nickname_change"
        /\ now < db.ledger[u][k].at + Cooldown

-----------------------------------------------------------------------------
\* The requests.

Stages == {"idle", "limit", "debit", "stock", "recheck", "record", "nick",
           "refund", "award", "cancel", "fulfill", "done"}

Answers == {"none", "ok", "not_found", "limit_early", "limit", "out_of_stock",
            "no_points", "cooldown", "not_pending", "locked", "crashed"}

Request == [stage: Stages, user: Users, item: ItemIds, offer: Offer,
            order: Nat, delta: Int, targets: SUBSET Users,
            seen: [Users -> Int \cup {NULL}], answer: Answers]

\* A request that has read nothing yet (the other fields stand for "unset").
Idle == [stage |-> "idle", user |-> CHOOSE u \in Users : TRUE, item |-> 1,
         offer |-> OfferOf(FirstBody), order |-> 0, delta |-> 0,
         targets |-> {}, seen |-> [u \in Users |-> NULL], answer |-> "none"]

Init ==
    /\ disk = [balance |-> [u \in Users |-> Opening],
               items |-> [i \in ItemIds |->
                            [RowOf(FirstBody) EXCEPT !.live = (i = 1)]],
               orders |-> <<>>,
               ledger |-> [u \in Users |-> <<>>]]
    /\ draft = disk
    /\ writer = NoRequest
    /\ req = [r \in Requests |-> Idle]
    /\ now = 0
    /\ published = [i \in ItemIds |->
                      IF i = 1 THEN {OfferOf(FirstBody)} ELSE {}]
    /\ edits = [updates |-> 0, deletes |-> 0]

At(r, stage) == req[r].stage = stage

\* Request r goes on to its next awaited statement.
Goes(r, stage) == req' = [req EXCEPT ![r].stage = stage]

\* Request r is answered; its session closes and all it had read is gone.
Closed(answer) == [Idle EXCEPT !.stage = "done", !.answer = answer]

Answered(r, answer) == req' = [req EXCEPT ![r] = Closed(answer)]

\* The balances of the users in S, as the session has them in memory.
Snapshot(db, S) == [u \in Users |-> IF u \in S THEN db.balance[u] ELSE NULL]

\* The statements of a request that commits without having had the lock
\* before: they take the lock, write and commit in one step.
Install(db) ==
    /\ writer = NoRequest
    /\ disk' = db
    /\ draft' = db
    /\ UNCHANGED writer

\* Mutant: the refusal is answered without a rollback, the session not closed.
RollbackForgotten == UNCHANGED <<disk, draft, writer>>

\* The session that holds the lock rolls back (or is closed, which does).
Rollback ==
    /\ writer' = NoRequest
    /\ draft' = disk
    /\ UNCHANGED disk

-----------------------------------------------------------------------------
\* POST /api/shop/redeem.  A 404 changes nothing and is not a step.

RedeemRead(r, u, i) ==
    LET item == disk.items[i] IN
    /\ At(r, "idle")
    /\ item.live /\ item.active
    /\ req' = [req EXCEPT
                 ![r].stage = IF item.limit = NULL THEN "debit" ELSE "limit",
                 ![r].user = u, ![r].item = i, ![r].offer = OfferOf(item)]
    /\ UNCHANGED <<disk, draft, writer, now, published, edits>>

\* The optimistic check of the weekly limit, before the session has the lock.
RedeemLimitEarly(r) ==
    /\ At(r, "limit")
    /\ IF LimitReached(disk, req[r].user, req[r].item, req[r].offer)
         THEN Answered(r, "limit_early")
         ELSE Goes(r, "debit")
    /\ UNCHANGED <<disk, draft, writer, now, published, edits>>

\* Mutant: the WHERE clause of a debit loses its condition on the balance.
CanAffordUnchecked(db, u, cost) == u \in Users

\* points_balance >= cost, the condition of an UPDATE that spends.
CanAfford(db, u, cost) == db.balance[u] >= cost

\* Mutant: no authoritative check of the weekly limit.
AfterStockNoRecheck(offer) == "record"

\* The stage after the debit, and the one after the stock.
AfterStock(offer) == IF offer.limit = NULL THEN "record" ELSE "recheck"

\* Mutant: the stock UPDATE is skipped for an item with a weekly limit.
AfterDebitNoStock(offer) ==
    IF offer.limit # NULL THEN "recheck"
    ELSE IF offer.counted THEN "stock" ELSE "record"

AfterDebit(offer) == IF offer.counted THEN "stock" ELSE AfterStock(offer)

Debited(db, u, cost) == [db EXCEPT !.balance[u] = @ - cost]

\* UPDATE users SET points_balance = points_balance - cost
\*   WHERE id = u AND points_balance >= cost: the session's first write.
RedeemDebit(r) ==
    LET u == req[r].user
        cost == req[r].offer.cost IN
    /\ At(r, "debit")
    /\ writer = NoRequest
    /\ \/ /\ CanAfford(disk, u, cost)
          /\ draft' = Debited(disk, u, cost)
          /\ writer' = r
          /\ Goes(r, AfterDebit(req[r].offer))
       \/ /\ ~CanAfford(disk, u, cost)
          /\ Answered(r, "no_points")
          /\ UNCHANGED <<draft, writer>>
    /\ UNCHANGED <<disk, now, published, edits>>

\* Mutant: "stock >= 0" in the WHERE clause.
StockLeftOffByOne(db, i) == db.items[i].live /\ db.items[i].stock \in Nat

\* UPDATE shop_items SET stock = stock - 1 WHERE id = i AND stock > 0.
StockLeft(db, i) == db.items[i].live /\ db.items[i].stock \in Positive

StockTaken(db, i) == [db EXCEPT !.items[i].stock = @ - 1]

RedeemStock(r) ==
    LET i == req[r].item IN
    /\ At(r, "stock")
    /\ \/ /\ StockLeft(draft, i)
          /\ draft' = StockTaken(draft, i)
          /\ Goes(r, AfterStock(req[r].offer))
          /\ UNCHANGED <<disk, writer>>
       \/ /\ ~StockLeft(draft, i)
          /\ Rollback
          /\ Answered(r, "out_of_stock")
    /\ UNCHANGED <<now, published, edits>>

\* The authoritative check of the weekly limit, under the lock.
RedeemRecheck(r) ==
    /\ At(r, "recheck")
    /\ \/ /\ LimitReached(draft, req[r].user, req[r].item, req[r].offer)
          /\ Rollback
          /\ Answered(r, "limit")
       \/ /\ ~LimitReached(draft, req[r].user, req[r].item, req[r].offer)
          /\ Goes(r, "record")
          /\ UNCHANGED <<disk, draft, writer>>
    /\ UNCHANGED <<now, published, edits>>

\* Mutants: balance_after from the balance the request was authenticated with;
\* the ledger row names the redemption before it has an id.
WithPurchaseOldBalance(db, u, i, offer) ==
    [db EXCEPT
       !.orders = Append(@, [user |-> u, item |-> i, name |-> offer.name,
                             cost |-> offer.cost, status |-> "pending",
                             at |-> now]),
       !.ledger[u] = Append(@, Entry(-offer.cost, db.balance[u] + offer.cost,
                                     "redeem", Len(db.orders) + 1, now))]

WithPurchaseNoFlush(db, u, i, offer) ==
    [db EXCEPT
       !.orders = Append(@, [user |-> u, item |-> i, name |-> offer.name,
                             cost |-> offer.cost, status |-> "pending",
                             at |-> now]),
       !.ledger[u] = Append(@, Entry(-offer.cost, db.balance[u], "redeem",
                                     Len(db.orders), now))]

\* The rows of a purchase, and the balance read back for balance_after.
WithPurchase(db, u, i, offer) ==
    [db EXCEPT
       !.orders = Append(@, [user |-> u, item |-> i, name |-> offer.name,
                             cost |-> offer.cost, status |-> "pending",
                             at |-> now]),
       !.ledger[u] = Append(@, Entry(-offer.cost, db.balance[u], "redeem",
                                     Len(db.orders) + 1, now))]

RedeemRecord(r) ==
    /\ At(r, "record")
    /\ disk' = WithPurchase(draft, req[r].user, req[r].item, req[r].offer)
    /\ draft' = disk'
    /\ writer' = NoRequest
    /\ Answered(r, "ok")
    /\ UNCHANGED <<now, published, edits>>

-----------------------------------------------------------------------------
\* POST /api/plugin/nickname-change.

\* The account, the Settings and the last change; a refusal for the cooldown.
NickRead(r, u) ==
    /\ At(r, "idle")
    /\ \/ /\ NickOnCooldown(disk, u)
          /\ Answered(r, "cooldown")
       \/ /\ ~NickOnCooldown(disk, u)
          /\ req' = [req EXCEPT ![r].stage = "nick", ![r].user = u]
    /\ UNCHANGED <<disk, draft, writer, now, published, edits>>

\* The conditional debit, the balance read back, the ledger row, the commit.
WithNickCharge(db, u) ==
    LET left == db.balance[u] - NickCost IN
    [db EXCEPT !.balance[u] = left,
               !.ledger[u] = Append(@, Entry(-NickCost, left,
                                             "nickname_change", 0, now))]

NickCharge(r) ==
    LET u == req[r].user IN
    /\ At(r, "nick")
    /\ \/ /\ CanAfford(disk, u, NickCost)
          /\ Install(WithNickCharge(disk, u))
          /\ Answered(r, "ok")
       \/ /\ ~CanAfford(disk, u, NickCost)
          /\ writer = NoRequest
          /\ Answered(r, "no_points")
          /\ UNCHANGED <<disk, draft, writer>>
    /\ UNCHANGED <<now, published, edits>>

-----------------------------------------------------------------------------
\* Grants.  _award_points adds to the balance the session has in memory, so
\* what a grant writes is what it read plus the delta.  The requests differ in
\* whose balance was read before the session had the lock ("seen").

StartAward(r, targets, stale, d) ==
    /\ At(r, "idle")
    /\ targets # {}
    /\ req' = [req EXCEPT ![r].stage = "award", ![r].delta = d,
                          ![r].targets = targets,
                          ![r].seen = Snapshot(disk, stale)]
    /\ UNCHANGED <<disk, draft, writer, now, published, edits>>

\* POST /api/admin/points/grant: one account.
GrantPoints(r, u, d) == StartAward(r, {u}, {u}, d)

\* POST /api/admin/points/grant-bulk: the first account's row is flushed, and
\* the lock taken, before the second account is read; the admin's own row is
\* in the session since the request was authenticated.
GrantPointsBulk(r, targets, first, admin, d) ==
    /\ first \in targets
    /\ StartAward(r, targets, {first} \cup ({admin} \cap targets), d)

\* POST /api/admin/users/bulk, grant_points: all accounts in one SELECT.
BulkUserAction(r, targets, d) == StartAward(r, targets, targets, d)

\* The awards and the commit.
Awarded(db, targets, seen, d) ==
    LET new(u) == (IF seen[u] # NULL THEN seen[u] ELSE db.balance[u]) + d
    IN
    [db EXCEPT
       !.balance = [u \in Users |-> IF u \in targets THEN new(u) ELSE @[u]],
       !.ledger = [u \in Users |->
                     IF u \in targets
                       THEN Append(@[u], Entry(d, new(u), "grant", 0, now))
                       ELSE @[u]]]

AwardCommit(r) ==
    /\ At(r, "award")
    /\ Install(Awarded(disk, req[r].targets, req[r].seen, req[r].delta))
    /\ Answered(r, "ok")
    /\ UNCHANGED <<now, published, edits>>

-----------------------------------------------------------------------------
\* The redemption queue.  A redemption that is not pending is a 409, one that
\* does not exist a 404: neither changes anything, so neither is a step.

IsPending(db, k) == k \in DOMAIN db.orders /\ db.orders[k].status = "pending"

FulfillRead(r, k) ==
    /\ At(r, "idle")
    /\ IsPending(disk, k)
    /\ req' = [req EXCEPT ![r].stage = "fulfill", ![r].order = k]
    /\ UNCHANGED <<disk, draft, writer, now, published, edits>>

WithStatus(db, k, s) == [db EXCEPT !.orders[k].status = s]

FulfillCommit(r) ==
    /\ At(r, "fulfill")
    /\ Install(WithStatus(disk, req[r].order, "fulfilled"))
    /\ Answered(r, "ok")
    /\ UNCHANGED <<now, published, edits>>

CancelRead(r, k) ==
    /\ At(r, "idle")
    /\ IsPending(disk, k)
    /\ req' = [req EXCEPT ![r].stage = "refund", ![r].order = k,
                          ![r].user = disk.orders[k].user]
    /\ UNCHANGED <<disk, draft, writer, now, published, edits>>

\* The buyer's row: the balance the refund will be added to.
CancelReadUser(r) ==
    /\ At(r, "refund")
    /\ req' = [req EXCEPT ![r].stage = "cancel",
                          ![r].seen = Snapshot(disk, {req[r].user})]
    /\ UNCHANGED <<disk, draft, writer, now, published, edits>>

\* The refund, the status and the commit.
WithRefund(db, k, u, seen) ==
    LET cost == db.orders[k].cost IN
    [WithStatus(db, k, "cancelled") EXCEPT
       !.balance[u] = seen + cost,
       !.ledger[u] = Append(@, Entry(cost, seen + cost, "refund", k, now))]

CancelCommit(r) ==
    LET u == req[r].user IN
    /\ At(r, "cancel")
    /\ Install(WithRefund(disk, req[r].order, u, req[r].seen[u]))
    /\ Answered(r, "ok")
    /\ UNCHANGED <<now, published, edits>>

-----------------------------------------------------------------------------
\* The catalog.

WithItem(db, i, row) == [db EXCEPT !.items[i] = row]

LiveIds == {i \in ItemIds : disk.items[i].live}

\* SQLite gives a new row the largest primary key in use plus one.
NextId == IF LiveIds = {} THEN 1
          ELSE 1 + (CHOOSE i \in LiveIds : \A j \in LiveIds : j <= i)

Publish(i, row) ==
    published' = [published EXCEPT ![i] = @ \cup {OfferOf(row)}]

CreateShopItem(b) ==
    /\ NextId \in ItemIds
    /\ Install(WithItem(disk, NextId, RowOf(b)))
    /\ Publish(NextId, b)
    /\ UNCHANGED <<req, now, edits>>

\* The columns an update writes: those its body names, without those whose
\* value is the one it read.
Patched(row, cols, b) ==
    [name   |-> IF "name" \in cols THEN b.name ELSE row.name,
     active |-> IF "active" \in cols THEN b.active ELSE row.active,
     cost   |-> IF "cost" \in cols THEN b.cost ELSE row.cost,
     stock  |-> IF "stock" \in cols THEN b.stock ELSE row.stock,
     limit  |-> IF "limit" \in cols THEN b.limit ELSE row.limit,
     live   |-> row.live]

UpdateShopItem(i, cols, b) ==
    /\ edits.updates < MaxUpdates
    /\ i \in LiveIds
    /\ Install(WithItem(disk, i, Patched(disk.items[i], cols, b)))
    /\ Publish(i, Patched(disk.items[i], cols, b))
    /\ edits' = [edits EXCEPT !.updates = @ + 1]
    /\ UNCHANGED <<req, now>>

DeleteShopItem(i) ==
    /\ edits.deletes < MaxDeletes
    /\ i \in LiveIds
    /\ Install(WithItem(disk, i, [disk.items[i] EXCEPT !.live = FALSE]))
    /\ edits' = [edits EXCEPT !.deletes = @ + 1]
    /\ UNCHANGED <<req, now, published>>

-----------------------------------------------------------------------------
\* The environment.

\* Stages at which the next statement needs the writer lock.
NeedsLock == {"debit", "nick", "award", "fulfill", "cancel"}

\* The driver gives up waiting: "database is locked", a 500, nothing written.
LockTimeout(r) ==
    /\ req[r].stage \in NeedsLock
    /\ writer # NoRequest
    /\ Answered(r, "locked")
    /\ UNCHANGED <<disk, draft, writer, now, published, edits>>

InFlight == {r \in Requests : ~At(r, "idle") /\ ~At(r, "done")}

\* The process dies and is restarted: the open transaction is rolled back.
Crash ==
    /\ InFlight # {}
    /\ Rollback
    /\ req' = [r \in Requests |->
                 IF r \in InFlight
                   THEN Closed("crashed") ELSE req[r]]
    /\ UNCHANGED <<now, published, edits>>

Tick ==
    /\ now < MaxNow
    /\ now' = now + 1
    /\ UNCHANGED <<disk, draft, writer, req, published, edits>>

-----------------------------------------------------------------------------
Begin(r) ==
    \/ \E u \in Users, i \in ItemIds : RedeemRead(r, u, i)
    \/ \E u \in Users : NickRead(r, u)
    \/ \E u \in Users, d \in Deltas : GrantPoints(r, u, d)
    \/ \E targets \in SUBSET Users, first, admin \in Users, d \in Deltas :
          GrantPointsBulk(r, targets, first, admin, d)
    \/ \E targets \in SUBSET Users, d \in Deltas :
          BulkUserAction(r, targets, d)
    \/ \E k \in DOMAIN disk.orders : FulfillRead(r, k)
    \/ \E k \in DOMAIN disk.orders : CancelRead(r, k)

Step(r) ==
    \/ RedeemLimitEarly(r)
    \/ RedeemDebit(r)
    \/ RedeemStock(r)
    \/ RedeemRecheck(r)
    \/ RedeemRecord(r)
    \/ NickCharge(r)
    \/ AwardCommit(r)
    \/ FulfillCommit(r)
    \/ CancelReadUser(r)
    \/ CancelCommit(r)

Catalog ==
    \/ \E b \in Bodies : CreateShopItem(b)
    \/ \E i \in ItemIds, cols \in ColumnSets, b \in Bodies :
          UpdateShopItem(i, cols, b)
    \/ \E i \in ItemIds : DeleteShopItem(i)

Next ==
    \/ \E r \in Requests : Begin(r) \/ Step(r) \/ LockTimeout(r)
    \/ Catalog
    \/ Crash
    \/ Tick

Spec == Init /\ [][Next]_vars

\* The event loop runs every ready task and the database answers every
\* statement: a request that can take its next step does so sooner or later.
FairSpec == Spec /\ \A r \in Requests : WF_vars(Step(r))

-----------------------------------------------------------------------------
\* Properties.

\* Every variable has its type.  Not idle: the stock of an item is a natural
\* number whatever edits, deletions and purchases overlap (stock > 0 in the
\* UPDATE of redeem_shop_item).
TypeOK ==
    /\ disk \in Database
    /\ draft \in Database
    /\ writer \in Requests \cup {NoRequest}
    /\ req \in [Requests -> Request]
    /\ now \in 0..MaxNow
    /\ published \in [ItemIds -> SUBSET Offer]
    /\ edits \in [updates: 0..MaxUpdates, deletes: 0..MaxDeletes]

\* The stages of a redemption at which its session holds the writer lock.
Holding == {"stock", "recheck", "record"}

\* The lock is held by the one redemption between its debit and its commit or
\* rollback, and by nobody else: no path out of redeem_shop_item keeps it.
LockHeldByHolder == \A r \in Requests : req[r].stage \in Holding <=> writer = r

\* What a redemption that holds the lock will commit, on top of the committed
\* state, is the debit of the price it read and, once its stock UPDATE went
\* through, one unit of a counted item: nothing another request committed in
\* between is in it, and nothing it checked can have gone stale.
DraftIsDebit ==
    /\ writer = NoRequest => draft = disk
    /\ \A r \in Requests :
          LET u == req[r].user
              i == req[r].item
              offer == req[r].offer
              paid == Debited(disk, u, offer.cost) IN
          /\ req[r].stage \in Holding => CanAfford(disk, u, offer.cost)
          /\ req[r].stage = "stock" => offer.counted /\ draft = paid
          /\ req[r].stage \in {"recheck", "record"} =>
                draft = IF offer.counted THEN StockTaken(paid, i) ELSE paid
          /\ req[r].stage \in {"recheck", "record"} /\ offer.counted =>
                StockLeft(disk, i)
          /\ req[r].stage = "record" => ~LimitReached(disk, u, i, offer)

\* What a request has read of the queue and is about to write exists.
ReadsStand ==
    /\ DOMAIN draft.orders = DOMAIN disk.orders
    /\ \A r \in Requests :
          /\ req[r].stage \in {"refund", "cancel", "fulfill"} =>
                req[r].order \in DOMAIN disk.orders
          /\ req[r].stage = "cancel" => req[r].seen[req[r].user] \in Int

\* The offer a redemption acts on is one the catalog made under that id, even
\* if it has been edited or deleted since.
Buying == {"limit", "debit"} \cup Holding

OffersPublished ==
    /\ \A i \in ItemIds :
          disk.items[i].live => OfferOf(disk.items[i]) \in published[i]
    /\ \A r \in Requests :
          req[r].stage \in Buying => req[r].offer \in published[req[r].item]

\* What holds between the statements of the requests in flight.
TransactionInv ==
    /\ LockHeldByHolder
    /\ DraftIsDebit
    /\ ReadsStand
    /\ OffersPublished

\* balance_after of an account's newest ledger row is its balance, the opening
\* balance if it has none: "a snapshot taken right after the balance change"
\* (PointsTransaction).  A grant that overwrites a purchase, a refused
\* redemption that leaves its debit behind or a crash may not break it.
BalanceIsLastSnapshot ==
    \A u \in Users :
        LET l == disk.ledger[u] IN
        disk.balance[u] = IF l = <<>> THEN Opening ELSE l[Len(l)].after

IsDebitFor(entry, k, cost) ==
    entry.reason = "redeem" /\ entry.ref = k /\ entry.delta = -cost

\* Every redemption is paid by exactly one ledger row of its buyer, of its
\* cost_snapshot, and every redeem row pays an existing redemption of that
\* account: no free item, no charge without an item, no row that names
\* another one's redemption.
RedemptionsArePaidOnce ==
    /\ \A k \in DOMAIN disk.orders :
          \E n \in DOMAIN disk.ledger[disk.orders[k].user] :
              IsDebitFor(disk.ledger[disk.orders[k].user][n], k,
                         disk.orders[k].cost)
    /\ \A u \in Users : \A n \in DOMAIN disk.ledger[u] :
          LET entry == disk.ledger[u][n] IN
          entry.reason = "redeem" =>
              /\ entry.ref \in DOMAIN disk.orders
              /\ disk.orders[entry.ref].user = u
              /\ \A m \in DOMAIN disk.ledger[u] :
                    /\ disk.ledger[u][m].reason = "redeem"
                    /\ disk.ledger[u][m].ref = entry.ref
                    => m = n

\* No purchase and no nickname change, however many overlap, takes a balance
\* below zero: the balance recorded after a spend is never negative (only an
\* admin's negative grant can make it so).
SpendsNeverOverdraw ==
    \A u \in Users : \A n \in DOMAIN disk.ledger[u] :
        disk.ledger[u][n].reason \in {"redeem", "nickname_change"} =>
            disk.ledger[u][n].after >= 0

\* Every step of the economy is, seen from the committed tables, one purchase
\* of the contract or a step that leaves the set of orders alone: the two
\* checks of the weekly limit, the two conditional UPDATEs and the lock make
\* a redemption of seven statements behave as one.
Contract == INSTANCE ShopContract
              WITH balance <- disk.balance,
                   shelf   <- [i \in ItemIds |-> disk.items[i].stock],
                   orders  <- disk.orders

ImplementsContract == Contract!Spec

\* Every request is answered: no refusal, no failed stock update and no lock
\* left behind makes another request wait for ever.
EveryRequestAnswered ==
    \A r \in Requests : r \in InFlight ~> At(r, "done")
=============================================================================
