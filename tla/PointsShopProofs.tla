-------------------------- MODULE PointsShopProofs --------------------------
(***************************************************************************)
(* Theorems of the points economy, for every set of users, items and       *)
(* requests, every catalog and every bound: the types; what holds while a  *)
(* redemption is between its statements, and from it the refinement of     *)
(* ShopContract; and the ledger's rows against the balances, the queue and *)
(* each other.                                                             *)
(***************************************************************************)
EXTENDS PointsShop, FiniteSetTheorems, TLAPS

-----------------------------------------------------------------------------
\* What the operators on a database return.

LEMMA BodyTypes ==
    ASSUME NEW b \in Body
    PROVE  RowOf(b) \in ItemRow /\ OfferOf(b) \in Offer
BY DEF Body, RowOf, ItemRow, OfferOf, Offer

LEMMA OfferOfRowType ==
    ASSUME NEW row \in ItemRow
    PROVE  OfferOf(row) \in Offer
BY DEF ItemRow, OfferOf, Offer

LEMMA PatchedType ==
    ASSUME NEW row \in ItemRow, NEW cols, NEW b \in Body
    PROVE  Patched(row, cols, b) \in ItemRow
BY DEF Patched, ItemRow, Body

LEMMA EntryType ==
    ASSUME NEW delta \in Int, NEW after \in Int, NEW reason \in Reasons,
           NEW ref \in Nat, NEW t \in Nat
    PROVE  Entry(delta, after, reason, ref, t) \in Transaction
BY DEF Entry, Transaction

LEMMA DebitedType ==
    ASSUME NEW db \in Database, NEW u \in Users, NEW cost \in Int
    PROVE  Debited(db, u, cost) \in Database
<1>1. [db.balance EXCEPT ![u] = db.balance[u] - cost] \in [Users -> Int]
  BY DEF Database
<1>2. Debited(db, u, cost) =
        [db EXCEPT !.balance = [db.balance EXCEPT ![u] = db.balance[u] - cost]]
  BY DEF Debited, Database
<1> QED
  BY <1>1, <1>2 DEF Database

LEMMA StockTakenType ==
    ASSUME NEW db \in Database, NEW i \in ItemIds, StockLeft(db, i)
    PROVE  StockTaken(db, i) \in Database
<1>1. db.items[i] \in ItemRow
  BY DEF Database
<1>2. db.items[i].stock - 1 \in Nat
  BY DEF StockLeft, Positive
<1> DEFINE row == [db.items[i] EXCEPT !.stock = db.items[i].stock - 1]
<1>3. row \in ItemRow
  BY <1>1, <1>2 DEF ItemRow
<1>4. [db.items EXCEPT ![i] = row] \in [ItemIds -> ItemRow]
  BY <1>3 DEF Database
<1>5. StockTaken(db, i) = [db EXCEPT !.items = [db.items EXCEPT ![i] = row]]
  BY DEF StockTaken, Database
<1> QED
  BY <1>4, <1>5 DEF Database

\* Appending a row to the ledger of one account.
LEMMA LedgerType ==
    ASSUME NEW ledger \in [Users -> Seq(Transaction)], NEW u \in Users,
           NEW entry \in Transaction
    PROVE  [ledger EXCEPT ![u] = Append(@, entry)]
             \in [Users -> Seq(Transaction)]
OBVIOUS

LEMMA WithPurchaseType ==
    ASSUME NEW db \in Database, NEW u \in Users, NEW i \in ItemIds,
           NEW offer \in Offer, now \in Nat
    PROVE  WithPurchase(db, u, i, offer) \in Database
<1> DEFINE order == [user |-> u, item |-> i, name |-> offer.name,
                     cost |-> offer.cost, status |-> "pending", at |-> now]
           entry == Entry(-offer.cost, db.balance[u], "redeem",
                          Len(db.orders) + 1, now)
<1>1. order \in Order
  BY DEF Offer, Order, Statuses
<1>2. /\ db.orders \in Seq(Order)
      /\ db.balance[u] \in Int
      /\ db.ledger \in [Users -> Seq(Transaction)]
  BY DEF Database
<1>3. Append(db.orders, order) \in Seq(Order)
  BY <1>1, <1>2
<1>4. -offer.cost \in Int /\ Len(db.orders) + 1 \in Nat
  BY <1>2 DEF Offer, Positive
<1>5. entry \in Transaction
  BY <1>2, <1>4, EntryType DEF Reasons
<1>6. [db.ledger EXCEPT ![u] = Append(@, entry)]
        \in [Users -> Seq(Transaction)]
  BY <1>2, <1>5, LedgerType
<1> QED
  BY <1>3, <1>6 DEF WithPurchase, Database

LEMMA WithNickChargeType ==
    ASSUME NEW db \in Database, NEW u \in Users, now \in Nat
    PROVE  WithNickCharge(db, u) \in Database
<1> DEFINE left == db.balance[u] - NickCost
           entry == Entry(-NickCost, left, "nickname_change", 0, now)
<1>1. /\ left \in Int
      /\ -NickCost \in Int
      /\ db.balance \in [Users -> Int]
      /\ db.ledger \in [Users -> Seq(Transaction)]
  BY ConstantsAssumption DEF Database, Positive
<1>2. entry \in Transaction
  BY <1>1, EntryType DEF Reasons
<1>3. [db.ledger EXCEPT ![u] = Append(@, entry)]
        \in [Users -> Seq(Transaction)]
  BY <1>1, <1>2, LedgerType
<1>4. [db.balance EXCEPT ![u] = left] \in [Users -> Int]
  BY <1>1
<1> QED
  BY <1>3, <1>4 DEF WithNickCharge, Database

LEMMA AwardedType ==
    ASSUME NEW db \in Database, NEW targets \in SUBSET Users,
           NEW seen \in [Users -> Int \cup {NULL}], NEW d \in Int, now \in Nat
    PROVE  Awarded(db, targets, seen, d) \in Database
<1> DEFINE new(u) == (IF seen[u] # NULL THEN seen[u] ELSE db.balance[u]) + d
           entry(u) == Entry(d, new(u), "grant", 0, now)
<1>1. /\ db.balance \in [Users -> Int]
      /\ db.ledger \in [Users -> Seq(Transaction)]
  BY DEF Database
<1>2. \A u \in Users : new(u) \in Int
  BY <1>1
<1>3. \A u \in Users : entry(u) \in Transaction
  BY <1>2, EntryType DEF Reasons
<1> HIDE DEF new, entry
<1>4. [u \in Users |-> IF u \in targets THEN new(u) ELSE db.balance[u]]
        \in [Users -> Int]
  BY <1>1, <1>2
<1>5. [u \in Users |-> IF u \in targets THEN Append(db.ledger[u], entry(u))
                                        ELSE db.ledger[u]]
        \in [Users -> Seq(Transaction)]
  BY <1>1, <1>3
<1> QED
  BY <1>4, <1>5 DEF Awarded, Database, new, entry

\* The status of one redemption is all that changes of the queue.
LEMMA StatusType ==
    ASSUME NEW os \in Seq(Order), NEW k \in DOMAIN os, NEW s \in Statuses
    PROVE  /\ [os EXCEPT ![k].status = s] \in Seq(Order)
           /\ DOMAIN [os EXCEPT ![k].status = s] = DOMAIN os
<1>1. os[k] \in Order
  OBVIOUS
<1>2. [os[k] EXCEPT !.status = s] \in Order
  BY <1>1 DEF Order
<1> QED
  BY <1>2

LEMMA WithStatusType ==
    ASSUME NEW db \in Database, NEW k \in DOMAIN db.orders, NEW s \in Statuses
    PROVE  /\ WithStatus(db, k, s) \in Database
           /\ DOMAIN WithStatus(db, k, s).orders = DOMAIN db.orders
<1> DEFINE os == [db.orders EXCEPT ![k].status = s]
<1>1. db.orders \in Seq(Order)
  BY DEF Database
<1>2. os \in Seq(Order) /\ DOMAIN os = DOMAIN db.orders
  BY <1>1, StatusType
<1>3. WithStatus(db, k, s) = [db EXCEPT !.orders = os]
  BY DEF WithStatus, Database
<1> QED
  BY <1>2, <1>3 DEF Database

LEMMA WithItemType ==
    ASSUME NEW db \in Database, NEW i \in ItemIds, NEW row \in ItemRow
    PROVE  WithItem(db, i, row) \in Database
<1>1. [db.items EXCEPT ![i] = row] \in [ItemIds -> ItemRow]
  BY DEF Database
<1> QED
  BY <1>1 DEF WithItem, Database

LEMMA WithRefundType ==
    ASSUME NEW db \in Database, NEW k \in DOMAIN db.orders,
           NEW u \in Users, NEW seen \in Int, now \in Nat
    PROVE  WithRefund(db, k, u, seen) \in Database
<1> DEFINE cost == db.orders[k].cost
           entry == Entry(cost, seen + cost, "refund", k, now)
<1>1. /\ db.orders \in Seq(Order)
      /\ db.balance \in [Users -> Int]
      /\ db.ledger \in [Users -> Seq(Transaction)]
  BY DEF Database
<1>2. db.orders[k] \in Order /\ k \in Nat
  BY <1>1
<1>2a. cost \in Int
  BY <1>2 DEF Order, Positive
<1>3. entry \in Transaction
  BY <1>2, <1>2a, EntryType DEF Reasons
<1>4. [db.ledger EXCEPT ![u] = Append(@, entry)]
        \in [Users -> Seq(Transaction)]
  BY <1>1, <1>3, LedgerType
<1>5. [db.balance EXCEPT ![u] = seen + cost] \in [Users -> Int]
  BY <1>1, <1>2a
<1>6. WithStatus(db, k, "cancelled") \in Database
  BY WithStatusType DEF Statuses
<1>7. WithStatus(db, k, "cancelled").ledger = db.ledger
  BY DEF WithStatus, Database
<1> QED
  BY <1>4, <1>5, <1>6, <1>7 DEF WithRefund, Database, WithStatus

-----------------------------------------------------------------------------
\* Where a request stands.

LEMMA IdleType == Idle \in Request
<1>1. OfferOf(FirstBody) \in Offer
  BY ConstantsAssumption, BodyTypes
<1>2. (CHOOSE u \in Users : TRUE) \in Users
  BY ConstantsAssumption
<1> QED
  BY <1>1, <1>2, ConstantsAssumption DEF Idle, Request, Stages, Answers

LEMMA ClosedType ==
    ASSUME NEW answer \in Answers
    PROVE  /\ Closed(answer) \in Request
           /\ Closed(answer).stage = "done"
<1>1. Idle \in Request
  BY IdleType
<1> QED
  BY <1>1 DEF Closed, Request, Stages

LEMMA AnsweredType ==
    ASSUME req \in [Requests -> Request], NEW r \in Requests,
           NEW answer \in Answers, Answered(r, answer)
    PROVE  /\ req' \in [Requests -> Request]
           /\ req'[r].stage = "done"
           /\ \A q \in Requests \ {r} : req'[q] = req[q]
BY ClosedType DEF Answered

LEMMA GoesType ==
    ASSUME req \in [Requests -> Request], NEW r \in Requests,
           NEW stage \in Stages, Goes(r, stage)
    PROVE  /\ req' \in [Requests -> Request]
           /\ req'[r] = [req[r] EXCEPT !.stage = stage]
           /\ req'[r].stage = stage
           /\ \A q \in Requests \ {r} : req'[q] = req[q]
<1>1. [req[r] EXCEPT !.stage = stage] \in Request
  BY DEF Request
<1>2. req' = [req EXCEPT ![r] = [req[r] EXCEPT !.stage = stage]]
  BY DEF Goes
<1>3. req'[r] = [req[r] EXCEPT !.stage = stage]
  BY <1>2
<1> QED
  BY <1>1, <1>2, <1>3 DEF Request

-----------------------------------------------------------------------------
\* Type correctness.

TypeInv == TypeOK /\ ReadsStand

\* A step of one request r that leaves the queue's rows in place.
LEMMA RequestStep ==
    ASSUME TypeInv, NEW r \in Requests,
           disk' \in Database, draft' \in Database,
           writer' \in Requests \cup {NoRequest},
           DOMAIN disk.orders \subseteq DOMAIN disk'.orders,
           DOMAIN draft'.orders = DOMAIN disk'.orders,
           req' \in [Requests -> Request],
           \A q \in Requests \ {r} : req'[q] = req[q],
           req'[r].stage \in {"refund", "cancel", "fulfill"} =>
               req'[r].order \in DOMAIN disk'.orders,
           req'[r].stage = "cancel" => req'[r].seen[req'[r].user] \in Int,
           UNCHANGED <<now, published, edits>>
    PROVE  TypeInv'
BY DEF TypeInv, TypeOK, ReadsStand

LEMMA TypeInvInit ==
    ASSUME Init
    PROVE  TypeInv
<1>1. 1 \in ItemIds /\ FirstBody \in Body /\ Opening \in Nat
  BY ConstantsAssumption
<1>2. RowOf(FirstBody) \in ItemRow /\ OfferOf(FirstBody) \in Offer
  BY <1>1, BodyTypes
<1>3. \A i \in ItemIds : [RowOf(FirstBody) EXCEPT !.live = (i = 1)] \in ItemRow
  BY <1>2 DEF ItemRow
<1>4. [i \in ItemIds |-> [RowOf(FirstBody) EXCEPT !.live = (i = 1)]]
        \in [ItemIds -> ItemRow]
  BY <1>3
<1>5. disk \in Database
  BY <1>1, <1>4 DEF Init, Database
<1>6. req \in [Requests -> Request]
  BY IdleType DEF Init
<1>7. published \in [ItemIds -> SUBSET Offer]
  BY <1>2 DEF Init
<1>8. TypeOK
  BY <1>5, <1>6, <1>7, ConstantsAssumption DEF Init, TypeOK
<1>9. ReadsStand
  BY DEF Init, ReadsStand, Idle
<1> QED
  BY <1>8, <1>9 DEF TypeInv

\* The steps of a redemption.
LEMMA RedeemTypes ==
    ASSUME TypeInv, NEW r \in Requests,
           \/ \E u \in Users, i \in ItemIds : RedeemRead(r, u, i)
           \/ RedeemLimitEarly(r) \/ RedeemDebit(r) \/ RedeemStock(r)
           \/ RedeemRecheck(r) \/ RedeemRecord(r)
    PROVE  TypeInv'
<1>1. /\ disk \in Database /\ draft \in Database
      /\ writer \in Requests \cup {NoRequest}
      /\ req \in [Requests -> Request]
      /\ now \in Nat
      /\ DOMAIN draft.orders = DOMAIN disk.orders
  BY ConstantsAssumption DEF TypeInv, TypeOK, ReadsStand
<1>2. /\ req[r].user \in Users
      /\ req[r].item \in ItemIds
      /\ req[r].offer \in Offer
      /\ req[r].offer.cost \in Nat
  BY <1>1 DEF Request, Offer, Positive
<1>3. ASSUME NEW u \in Users, NEW i \in ItemIds, RedeemRead(r, u, i)
      PROVE  TypeInv'
  <2>1. disk.items[i] \in ItemRow
    BY <1>1 DEF Database
  <2>2. OfferOf(disk.items[i]) \in Offer
    BY <2>1, OfferOfRowType
  <2>3. PICK s \in {"debit", "limit"} :
          req' = [req EXCEPT ![r].stage = s, ![r].user = u, ![r].item = i,
                             ![r].offer = OfferOf(disk.items[i])]
    BY <1>3 DEF RedeemRead
  <2> DEFINE new == [req[r] EXCEPT !.stage = s, !.user = u, !.item = i,
                                   !.offer = OfferOf(disk.items[i])]
  <2>4. new \in Request /\ new.stage = s
    BY <1>1, <2>2 DEF Request, Stages
  <2>5. req' = [req EXCEPT ![r] = new]
    BY <1>1, <2>3 DEF Request
  <2> HIDE DEF new
  <2>6. /\ req' \in [Requests -> Request]
        /\ req'[r].stage = s
        /\ \A q \in Requests \ {r} : req'[q] = req[q]
    BY <1>1, <2>4, <2>5
  <2> QED
    BY <1>1, <1>3, <2>6, RequestStep DEF RedeemRead
<1>4. CASE RedeemLimitEarly(r)
  <2>1. CASE Answered(r, "limit_early")
    BY <1>1, <1>4, <2>1, AnsweredType, RequestStep
       DEF RedeemLimitEarly, Answers
  <2>2. CASE Goes(r, "debit")
    BY <1>1, <1>4, <2>2, GoesType, RequestStep
       DEF RedeemLimitEarly, Stages, Request
  <2> QED
    BY <1>4, <2>1, <2>2 DEF RedeemLimitEarly
<1>5. CASE RedeemDebit(r)
  <2>1. CASE Answered(r, "no_points") /\ UNCHANGED <<draft, writer>>
    BY <1>1, <1>5, <2>1, AnsweredType, RequestStep DEF RedeemDebit, Answers
  <2>2. CASE /\ draft' = Debited(disk, req[r].user, req[r].offer.cost)
             /\ writer' = r
             /\ Goes(r, AfterDebit(req[r].offer))
    <3>1. draft' \in Database
      BY <1>1, <1>2, <2>2, DebitedType
    <3>2. draft'.orders = disk.orders
      BY <1>1, <2>2 DEF Debited, Database
    <3>3. AfterDebit(req[r].offer) \in {"stock", "recheck", "record"}
      BY DEF AfterDebit, AfterStock
    <3>4. /\ req' \in [Requests -> Request]
          /\ req'[r].stage \in {"stock", "recheck", "record"}
          /\ \A q \in Requests \ {r} : req'[q] = req[q]
      BY <1>1, <2>2, <3>3, GoesType DEF Stages
    <3> QED
      BY <1>1, <1>5, <2>2, <3>1, <3>2, <3>4, RequestStep DEF RedeemDebit
  <2> QED
    BY <1>5, <2>1, <2>2 DEF RedeemDebit
<1>6. CASE RedeemStock(r)
  <2>1. CASE Rollback /\ Answered(r, "out_of_stock")
    BY <1>1, <1>6, <2>1, AnsweredType, RequestStep
       DEF RedeemStock, Rollback, Answers
  <2>2. CASE /\ StockLeft(draft, req[r].item)
             /\ draft' = StockTaken(draft, req[r].item)
             /\ Goes(r, AfterStock(req[r].offer))
             /\ UNCHANGED <<disk, writer>>
    <3>1. draft' \in Database
      BY <1>1, <1>2, <2>2, StockTakenType
    <3>2. draft'.orders = draft.orders
      BY <1>1, <2>2 DEF StockTaken, Database
    <3>3. AfterStock(req[r].offer) \in {"recheck", "record"}
      BY DEF AfterStock
    <3>4. /\ req' \in [Requests -> Request]
          /\ req'[r].stage \in {"recheck", "record"}
          /\ \A q \in Requests \ {r} : req'[q] = req[q]
      BY <1>1, <2>2, <3>3, GoesType DEF Stages
    <3> QED
      BY <1>1, <1>6, <2>2, <3>1, <3>2, <3>4, RequestStep DEF RedeemStock
  <2> QED
    BY <1>6, <2>1, <2>2 DEF RedeemStock
<1>7. CASE RedeemRecheck(r)
  <2>1. CASE Rollback /\ Answered(r, "limit")
    BY <1>1, <1>7, <2>1, AnsweredType, RequestStep
       DEF RedeemRecheck, Rollback, Answers
  <2>2. CASE Goes(r, "record") /\ UNCHANGED <<disk, draft, writer>>
    BY <1>1, <1>7, <2>2, GoesType, RequestStep
       DEF RedeemRecheck, Stages, Request
  <2> QED
    BY <1>7, <2>1, <2>2 DEF RedeemRecheck
<1>8. CASE RedeemRecord(r)
  <2>1. disk' \in Database
    BY <1>1, <1>2, <1>8, WithPurchaseType DEF RedeemRecord
  <2>2. DOMAIN draft.orders \subseteq DOMAIN disk'.orders
    <3>1. PICK order : disk'.orders = Append(draft.orders, order)
      BY <1>1, <1>8 DEF RedeemRecord, WithPurchase, Database
    <3> QED
      BY <1>1, <3>1 DEF Database
  <2> QED
    BY <1>1, <1>8, <2>1, <2>2, AnsweredType, RequestStep
       DEF RedeemRecord, Answers
<1> QED
  BY <1>3, <1>4, <1>5, <1>6, <1>7, <1>8

\* A request that writes and commits in one step.
LEMMA InstallStep ==
    ASSUME TypeInv, NEW r \in Requests, NEW db \in Database,
           DOMAIN db.orders = DOMAIN disk.orders,
           Install(db), Answered(r, "ok"), UNCHANGED <<now, published, edits>>
    PROVE  TypeInv'
BY AnsweredType, RequestStep DEF TypeInv, TypeOK, Install, Answers

\* A request that reads only.
LEMMA ReadStep ==
    ASSUME TypeInv, NEW r \in Requests, NEW new \in Request,
           req' = [req EXCEPT ![r] = new],
           new.stage \in {"refund", "cancel", "fulfill"} =>
               new.order \in DOMAIN disk.orders,
           new.stage = "cancel" => new.seen[new.user] \in Int,
           UNCHANGED <<disk, draft, writer, now, published, edits>>
    PROVE  TypeInv'
BY RequestStep DEF TypeInv, TypeOK, ReadsStand

LEMMA SnapshotType ==
    ASSUME NEW db \in Database, NEW S \in SUBSET Users
    PROVE  /\ Snapshot(db, S) \in [Users -> Int \cup {NULL}]
           /\ \A u \in S : Snapshot(db, S)[u] = db.balance[u]
BY DEF Snapshot, Database

\* The steps of the nickname change and of the grants.
LEMMA PointsTypes ==
    ASSUME TypeInv, NEW r \in Requests,
           \/ \E u \in Users : NickRead(r, u)
           \/ NickCharge(r)
           \/ \E targets \in SUBSET Users, stale \in SUBSET Users, d \in Deltas :
                 StartAward(r, targets, stale, d)
           \/ AwardCommit(r)
    PROVE  TypeInv'
<1>1. /\ disk \in Database
      /\ writer \in Requests \cup {NoRequest}
      /\ req \in [Requests -> Request]
      /\ req[r] \in Request
      /\ now \in Nat
  BY ConstantsAssumption DEF TypeInv, TypeOK
<1>2. ASSUME NEW u \in Users, NickRead(r, u)
      PROVE  TypeInv'
  <2>1. CASE Answered(r, "cooldown")
    BY <1>1, <1>2, <2>1, ClosedType, ReadStep DEF NickRead, Answered, Answers
  <2>2. CASE req' = [req EXCEPT ![r].stage = "nick", ![r].user = u]
    <3> DEFINE new == [req[r] EXCEPT !.stage = "nick", !.user = u]
    <3>1. new \in Request /\ new.stage = "nick"
      BY <1>1 DEF Request, Stages
    <3>2. req' = [req EXCEPT ![r] = new]
      BY <1>1, <2>2 DEF Request
    <3> QED
      BY <1>2, <3>1, <3>2, ReadStep DEF NickRead
  <2> QED
    BY <1>2, <2>1, <2>2 DEF NickRead
<1>3. CASE NickCharge(r)
  <2>1. CASE /\ Install(WithNickCharge(disk, req[r].user))
             /\ Answered(r, "ok")
    <3>1. req[r].user \in Users
      BY <1>1 DEF Request
    <3>2. WithNickCharge(disk, req[r].user) \in Database
      BY <1>1, <3>1, WithNickChargeType
    <3>3. WithNickCharge(disk, req[r].user).orders = disk.orders
      BY <1>1 DEF WithNickCharge, Database
    <3> QED
      BY <1>3, <2>1, <3>2, <3>3, InstallStep DEF NickCharge
  <2>2. CASE Answered(r, "no_points") /\ UNCHANGED <<disk, draft, writer>>
    BY <1>1, <1>3, <2>2, ClosedType, ReadStep
       DEF NickCharge, Answered, Answers
  <2> QED
    BY <1>3, <2>1, <2>2 DEF NickCharge
<1>4. ASSUME NEW targets \in SUBSET Users, NEW stale \in SUBSET Users,
             NEW d \in Deltas, StartAward(r, targets, stale, d)
      PROVE  TypeInv'
  <2> DEFINE snapshot == Snapshot(disk, stale)
             new == [req[r] EXCEPT !.stage = "award", !.delta = d,
                                   !.targets = targets, !.seen = snapshot]
  <2>1. snapshot \in [Users -> Int \cup {NULL}]
    BY <1>1, SnapshotType
  <2>2. d \in Int
    BY ConstantsAssumption
  <2>3. req' = [req EXCEPT ![r] = new]
    BY <1>1, <1>4 DEF StartAward, Request
  <2> HIDE DEF snapshot
  <2>4. new \in Request /\ new.stage = "award"
    BY <1>1, <2>1, <2>2 DEF Request, Stages
  <2> QED
    BY <1>4, <2>3, <2>4, ReadStep DEF StartAward
<1>5. CASE AwardCommit(r)
  <2> DEFINE db == Awarded(disk, req[r].targets, req[r].seen, req[r].delta)
  <2>1. db \in Database
    BY <1>1, AwardedType DEF Request
  <2>2. db.orders = disk.orders
    BY <1>1 DEF Awarded, Database
  <2> QED
    BY <1>5, <2>1, <2>2, InstallStep DEF AwardCommit
<1> QED
  BY <1>2, <1>3, <1>4, <1>5

\* The steps of the redemption queue.
LEMMA QueueTypes ==
    ASSUME TypeInv, NEW r \in Requests,
           \/ \E k \in DOMAIN disk.orders : FulfillRead(r, k) \/ CancelRead(r, k)
           \/ FulfillCommit(r) \/ CancelReadUser(r) \/ CancelCommit(r)
    PROVE  TypeInv'
<1>1. /\ disk \in Database
      /\ disk.orders \in Seq(Order)
      /\ writer \in Requests \cup {NoRequest}
      /\ req \in [Requests -> Request]
      /\ req[r] \in Request
      /\ now \in Nat
      /\ req[r].stage \in {"refund", "cancel", "fulfill"} =>
            req[r].order \in DOMAIN disk.orders
      /\ req[r].stage = "cancel" => req[r].seen[req[r].user] \in Int
  BY ConstantsAssumption DEF TypeInv, TypeOK, ReadsStand, Database
<1>2. ASSUME NEW k \in DOMAIN disk.orders, FulfillRead(r, k)
      PROVE  TypeInv'
  <2> DEFINE new == [req[r] EXCEPT !.stage = "fulfill", !.order = k]
  <2>0. k \in Nat
    BY <1>1
  <2>1. /\ new \in Request /\ new.order = k /\ new.stage = "fulfill"
    BY <1>1, <2>0 DEF Request, Stages
  <2>2. req' = [req EXCEPT ![r] = new]
    BY <1>1, <1>2 DEF FulfillRead, Request
  <2> HIDE DEF new
  <2> QED
    BY <1>2, <2>1, <2>2, ReadStep DEF FulfillRead
<1>3. ASSUME NEW k \in DOMAIN disk.orders, CancelRead(r, k)
      PROVE  TypeInv'
  <2> DEFINE u == disk.orders[k].user
             new == [req[r] EXCEPT !.stage = "refund", !.order = k, !.user = u]
  <2>1. disk.orders[k] \in Order /\ k \in Nat
    BY <1>1
  <2>2. u \in Users
    BY <2>1 DEF Order
  <2>3. req' = [req EXCEPT ![r] = new]
    BY <1>1, <1>3 DEF CancelRead, Request
  <2> HIDE DEF u
  <2>4. new \in Request /\ new.order = k /\ new.stage = "refund"
    BY <1>1, <2>1, <2>2 DEF Request, Stages
  <2> HIDE DEF new
  <2> QED
    BY <1>3, <2>3, <2>4, ReadStep DEF CancelRead
<1>4. CASE FulfillCommit(r)
  BY <1>1, <1>4, WithStatusType, InstallStep DEF FulfillCommit, At, Statuses
<1>5. CASE CancelReadUser(r)
  <2> DEFINE u == req[r].user
             snapshot == Snapshot(disk, {u})
             new == [req[r] EXCEPT !.stage = "cancel", !.seen = snapshot]
  <2>1. u \in Users
    BY <1>1 DEF Request
  <2>2a. snapshot \in [Users -> Int \cup {NULL}]
         /\ snapshot[u] = disk.balance[u]
    BY <1>1, <2>1, SnapshotType
  <2>2. snapshot \in [Users -> Int \cup {NULL}] /\ snapshot[u] \in Int
    BY <1>1, <2>1, <2>2a DEF Database
  <2>3. req' = [req EXCEPT ![r] = new]
    BY <1>1, <1>5 DEF CancelReadUser, Request
  <2> HIDE DEF snapshot
  <2>4. /\ new \in Request /\ new.order = req[r].order
        /\ new.seen = snapshot /\ new.user = u /\ new.stage = "cancel"
    BY <1>1, <2>2 DEF Request, Stages
  <2>5. new.order \in DOMAIN disk.orders
    BY <1>1, <1>5, <2>4 DEF CancelReadUser, At
  <2> HIDE DEF new
  <2> QED
    BY <1>5, <2>2, <2>3, <2>4, <2>5, ReadStep DEF CancelReadUser
<1>6. CASE CancelCommit(r)
  <2> DEFINE u == req[r].user
             k == req[r].order
             db == WithRefund(disk, k, u, req[r].seen[u])
  <2>1. u \in Users /\ k \in DOMAIN disk.orders /\ req[r].seen[u] \in Int
    BY <1>1, <1>6 DEF CancelCommit, At, Request
  <2>2. db \in Database
    BY <1>1, <2>1, WithRefundType
  <2>3. db.orders = WithStatus(disk, k, "cancelled").orders
    BY <1>1 DEF WithRefund, WithStatus, Database
  <2>4. DOMAIN db.orders = DOMAIN disk.orders
    BY <1>1, <2>1, <2>3, WithStatusType DEF Statuses
  <2> QED
    BY <1>6, <2>2, <2>4, InstallStep DEF CancelCommit
<1> QED
  BY <1>2, <1>3, <1>4, <1>5, <1>6

\* The admin's edits of the catalog.
LEMMA CatalogTypes ==
    ASSUME TypeInv, Catalog
    PROVE  TypeInv'
<1>1. /\ disk \in Database
      /\ disk.items \in [ItemIds -> ItemRow]
      /\ edits \in [updates: 0..MaxUpdates, deletes: 0..MaxDeletes]
      /\ published \in [ItemIds -> SUBSET Offer]
      /\ MaxUpdates \in Nat /\ MaxDeletes \in Nat
  BY ConstantsAssumption DEF TypeInv, TypeOK, Database
<1>2. \A i \in ItemIds, row \in ItemRow :
         /\ WithItem(disk, i, row) \in Database
         /\ WithItem(disk, i, row).orders = disk.orders
  BY <1>1, WithItemType DEF WithItem, Database
<1>3. ASSUME NEW i \in ItemIds, NEW row \in ItemRow,
             Install(WithItem(disk, i, row)),
             published' \in [ItemIds -> SUBSET Offer],
             edits' \in [updates: 0..MaxUpdates, deletes: 0..MaxDeletes],
             UNCHANGED <<req, now>>
      PROVE  TypeInv'
  BY <1>2, <1>3 DEF TypeInv, TypeOK, ReadsStand, Install
<1>4. ASSUME NEW i \in ItemIds, NEW row \in ItemRow, Publish(i, row)
      PROVE  published' \in [ItemIds -> SUBSET Offer]
  BY <1>1, <1>4, OfferOfRowType DEF Publish
<1>5. ASSUME NEW b \in Bodies, CreateShopItem(b)
      PROVE  TypeInv'
  <2>1. b \in Body /\ RowOf(b) \in ItemRow /\ OfferOf(b) \in Offer
    BY ConstantsAssumption, BodyTypes
  <2>2. published' \in [ItemIds -> SUBSET Offer]
    BY <1>1, <1>5, <2>1 DEF CreateShopItem, Publish
  <2> QED
    BY <1>1, <1>3, <1>5, <2>1, <2>2 DEF CreateShopItem
<1>6. ASSUME NEW i \in ItemIds, NEW cols, NEW b \in Bodies,
             UpdateShopItem(i, cols, b)
      PROVE  TypeInv'
  <2>1. Patched(disk.items[i], cols, b) \in ItemRow
    BY <1>1, ConstantsAssumption, PatchedType
  <2>2. edits' \in [updates: 0..MaxUpdates, deletes: 0..MaxDeletes]
    BY <1>1, <1>6 DEF UpdateShopItem
  <2> QED
    BY <1>3, <1>4, <1>6, <2>1, <2>2 DEF UpdateShopItem
<1>7. ASSUME NEW i \in ItemIds, DeleteShopItem(i)
      PROVE  TypeInv'
  <2>1. [disk.items[i] EXCEPT !.live = FALSE] \in ItemRow
    BY <1>1 DEF ItemRow
  <2>2. edits' \in [updates: 0..MaxUpdates, deletes: 0..MaxDeletes]
    BY <1>1, <1>7 DEF DeleteShopItem
  <2> QED
    BY <1>1, <1>3, <1>7, <2>1, <2>2 DEF DeleteShopItem
<1> QED
  BY <1>5, <1>6, <1>7 DEF Catalog

\* The environment's steps.
LEMMA EnvironmentTypes ==
    ASSUME TypeInv,
           \/ \E r \in Requests : LockTimeout(r)
           \/ Crash \/ Tick \/ UNCHANGED vars
    PROVE  TypeInv'
<1>1. ASSUME NEW r \in Requests, LockTimeout(r)
      PROVE  TypeInv'
  BY <1>1, ClosedType, ReadStep DEF LockTimeout, Answered, Answers
<1>2. CASE Crash
  <2>1. Closed("crashed") \in Request /\ Closed("crashed").stage = "done"
    BY ClosedType DEF Answers
  <2>2. /\ req' \in [Requests -> Request]
        /\ \A r \in Requests : req'[r] = req[r] \/ req'[r].stage = "done"
    BY <1>2, <2>1 DEF Crash, TypeInv, TypeOK
  <2> QED
    BY <1>2, <2>2 DEF Crash, Rollback, TypeInv, TypeOK, ReadsStand
<1>3. CASE Tick
  BY <1>3, ConstantsAssumption DEF Tick, TypeInv, TypeOK, ReadsStand
<1>4. CASE UNCHANGED vars
  BY <1>4 DEF vars, TypeInv, TypeOK, ReadsStand
<1> QED
  BY <1>1, <1>2, <1>3, <1>4

\* Every action of Next, one way or another, is one of those above.
LEMMA NextCases ==
    ASSUME Next
    PROVE  \/ \E r \in Requests :
                 \/ \E u \in Users, i \in ItemIds : RedeemRead(r, u, i)
                 \/ RedeemLimitEarly(r) \/ RedeemDebit(r) \/ RedeemStock(r)
                 \/ RedeemRecheck(r) \/ RedeemRecord(r)
           \/ \E r \in Requests :
                 \/ \E u \in Users : NickRead(r, u)
                 \/ NickCharge(r)
                 \/ \E targets \in SUBSET Users, stale \in SUBSET Users,
                      d \in Deltas : StartAward(r, targets, stale, d)
                 \/ AwardCommit(r)
           \/ \E r \in Requests :
                 \/ \E k \in DOMAIN disk.orders :
                       FulfillRead(r, k) \/ CancelRead(r, k)
                 \/ FulfillCommit(r) \/ CancelReadUser(r) \/ CancelCommit(r)
           \/ Catalog
           \/ \/ \E r \in Requests : LockTimeout(r)
              \/ Crash \/ Tick \/ UNCHANGED vars
<1>1. ASSUME NEW r \in Requests, NEW targets \in SUBSET Users,
             NEW first \in Users, NEW admin \in Users, NEW d \in Deltas,
             GrantPointsBulk(r, targets, first, admin, d)
      PROVE  \E stale \in SUBSET Users : StartAward(r, targets, stale, d)
  <2>1. {first} \cup ({admin} \cap targets) \in SUBSET Users
    OBVIOUS
  <2> QED
    BY <1>1, <2>1 DEF GrantPointsBulk
<1> QED
  BY <1>1 DEF Next, Begin, Step, GrantPoints, BulkUserAction

LEMMA TypeInvNext ==
    ASSUME TypeInv, [Next]_vars
    PROVE  TypeInv'
BY NextCases, RedeemTypes, PointsTypes, QueueTypes, CatalogTypes,
   EnvironmentTypes

\* Type correctness, and with it that no interleaving of edits and purchases
\* takes a stock below zero (POST /api/shop/redeem, the admin's catalog).
THEOREM TypeCorrect == Spec => []TypeOK
<1>1. Init => TypeInv
  BY TypeInvInit
<1>2. TypeInv /\ [Next]_vars => TypeInv'
  BY TypeInvNext
<1>3. TypeInv => TypeOK
  BY DEF TypeInv
<1> QED
  BY <1>1, <1>2, <1>3, PTL DEF Spec

-----------------------------------------------------------------------------
(***************************************************************************)
(* The redemption between its statements.                                  *)
(***************************************************************************)
\* The lock and the draft.

LockInv == LockHeldByHolder /\ DraftIsDebit

\* Nobody is between debit and commit: the whole of LockInv but "draft = disk".
LEMMA NobodyHolds ==
    ASSUME LockHeldByHolder, writer = NoRequest
    PROVE  \A r \in Requests : req[r].stage \notin Holding
BY NoRequestAssumption DEF LockHeldByHolder

\* A step after which nobody holds the lock.
LEMMA ReleasedStep ==
    ASSUME writer' = NoRequest, draft' = disk',
           \A r \in Requests : req'[r].stage \notin Holding
    PROVE  LockInv'
BY NoRequestAssumption DEF LockInv, LockHeldByHolder, DraftIsDebit, Holding

\* A step of a request that has not got the lock and does not take it.
LEMMA BystanderStep ==
    ASSUME LockInv, NEW r \in Requests,
           UNCHANGED <<disk, draft, writer, now>>,
           req[r].stage \notin Holding, req'[r].stage \notin Holding,
           \A q \in Requests \ {r} : req'[q] = req[q]
    PROVE  LockInv'
BY DEF LockInv, LockHeldByHolder, DraftIsDebit, Holding, LimitReached

\* A request that writes and commits in one step.
LEMMA InstallLock ==
    ASSUME LockInv, NEW r \in Requests, NEW db, Install(db),
           req'[r].stage \notin Holding,
           \A q \in Requests \ {r} : req'[q] = req[q]
    PROVE  LockInv'
BY NobodyHolds, ReleasedStep DEF LockInv, Install

\* The holder of the lock lets go of it.
LEMMA HolderReleases ==
    ASSUME LockInv, NEW r \in Requests, req[r].stage \in Holding,
           writer' = NoRequest, draft' = disk',
           req'[r].stage \notin Holding,
           \A q \in Requests \ {r} : req'[q] = req[q]
    PROVE  LockInv'
<1>1. \A q \in Requests \ {r} : req[q].stage \notin Holding
  BY DEF LockInv, LockHeldByHolder
<1> QED
  BY <1>1, ReleasedStep

\* As the days pass the weekly limit counts fewer redemptions.
LEMMA CountShrinks ==
    ASSUME NEW os \in Seq(Order), NEW u, NEW i, NEW s \in Nat, NEW t \in Nat,
           s <= t
    PROVE  /\ Cardinality(CountedOrders(os, u, i, t)) \in Nat
           /\ Cardinality(CountedOrders(os, u, i, s)) \in Nat
           /\ Cardinality(CountedOrders(os, u, i, t))
                <= Cardinality(CountedOrders(os, u, i, s))
<1>1. IsFiniteSet(DOMAIN os)
  BY FS_Interval
<1>2. \A k \in DOMAIN os : os[k] \in Order
  OBVIOUS
<1>3. \A k \in DOMAIN os : os[k].at \in Nat
  BY <1>2 DEF Order
<1>4. CountedOrders(os, u, i, t) \subseteq CountedOrders(os, u, i, s)
  BY <1>3, ConstantsAssumption DEF CountedOrders
<1>5. CountedOrders(os, u, i, s) \subseteq DOMAIN os
  BY DEF CountedOrders
<1>6. IsFiniteSet(CountedOrders(os, u, i, s))
  BY <1>1, <1>5, FS_Subset
<1> QED
  BY <1>4, <1>6, FS_Subset, FS_CardinalityType

LEMMA LockInvInit ==
    ASSUME Init
    PROVE  LockInv
BY NoRequestAssumption
   DEF Init, LockInv, LockHeldByHolder, DraftIsDebit, Holding, Idle

LEMMA LockInvRedeem ==
    ASSUME TypeInv, LockInv, NEW r \in Requests,
           \/ \E u \in Users, i \in ItemIds : RedeemRead(r, u, i)
           \/ RedeemLimitEarly(r) \/ RedeemDebit(r) \/ RedeemStock(r)
           \/ RedeemRecheck(r) \/ RedeemRecord(r)
    PROVE  LockInv'
<1>1. /\ disk \in Database /\ draft \in Database
      /\ req \in [Requests -> Request]
      /\ req[r] \in Request
      /\ req[r].user \in Users /\ req[r].item \in ItemIds
      /\ req[r].offer \in Offer
  BY DEF TypeInv, TypeOK, Request
<1>2. ASSUME NEW u \in Users, NEW i \in ItemIds, RedeemRead(r, u, i)
      PROVE  LockInv'
  <2>1. req'[r].stage \in {"debit", "limit"}
    BY <1>1, <1>2 DEF RedeemRead, Request
  <2> QED
    BY <1>1, <1>2, <2>1, BystanderStep DEF RedeemRead, At, Holding
<1>3. CASE RedeemLimitEarly(r)
  <2>1. /\ req'[r].stage \in {"done", "debit"}
        /\ \A q \in Requests \ {r} : req'[q] = req[q]
    BY <1>1, <1>3, AnsweredType, GoesType
       DEF RedeemLimitEarly, Answers, Stages
  <2> QED
    BY <1>3, <2>1, BystanderStep DEF RedeemLimitEarly, At, Holding
<1>4. CASE RedeemDebit(r)
  <2>1. CASE Answered(r, "no_points") /\ UNCHANGED <<draft, writer>>
    BY <1>1, <1>4, <2>1, AnsweredType, BystanderStep
       DEF RedeemDebit, Answers, At, Holding
  <2>2. CASE /\ CanAfford(disk, req[r].user, req[r].offer.cost)
             /\ draft' = Debited(disk, req[r].user, req[r].offer.cost)
             /\ writer' = r
             /\ Goes(r, AfterDebit(req[r].offer))
    <3>1. AfterDebit(req[r].offer) \in Stages
      BY DEF AfterDebit, AfterStock, Stages
    <3>2. /\ req'[r] = [req[r] EXCEPT !.stage = AfterDebit(req[r].offer)]
          /\ req'[r].stage = AfterDebit(req[r].offer)
          /\ \A q \in Requests \ {r} : req'[q] = req[q]
      BY <1>1, <2>2, <3>1, GoesType
    <3>3. /\ req'[r].user = req[r].user /\ req'[r].item = req[r].item
          /\ req'[r].offer = req[r].offer
      BY <1>1, <3>2 DEF Request
    <3>4. \A q \in Requests : req[q].stage \notin Holding
      BY <1>4, NobodyHolds DEF RedeemDebit, LockInv
    <3>5. req'[r].stage \in Holding
      BY <3>2 DEF AfterDebit, AfterStock, Holding
    <3>6. LockHeldByHolder'
      BY <2>2, <3>2, <3>4, <3>5, NoRequestAssumption DEF LockHeldByHolder
    <3>7. disk' = disk /\ now' = now
      BY <1>4 DEF RedeemDebit
    <3>8. DraftIsDebit'
      <4>1. \A q \in Requests \ {r} : req'[q].stage \notin Holding
        BY <3>2, <3>4
      <4>2. /\ req[r].offer.counted => req'[r].stage = "stock"
            /\ ~req[r].offer.counted => req'[r].stage # "stock"
            /\ req'[r].stage = "record" => req[r].offer.limit = NULL
        BY <3>2 DEF AfterDebit, AfterStock
      <4>3. writer' # NoRequest
        BY <2>2, NoRequestAssumption
      <4> QED
        BY <2>2, <3>3, <3>7, <4>1, <4>2, <4>3
           DEF DraftIsDebit, Holding, LimitReached, CanAfford
    <3> QED
      BY <3>6, <3>8 DEF LockInv
  <2> QED
    BY <1>4, <2>1, <2>2 DEF RedeemDebit
<1>5. CASE RedeemStock(r)
  <2>1. CASE Rollback /\ Answered(r, "out_of_stock")
    BY <1>1, <1>5, <2>1, AnsweredType, HolderReleases
       DEF RedeemStock, Rollback, Answers, At, Holding
  <2>2. CASE /\ StockLeft(draft, req[r].item)
             /\ draft' = StockTaken(draft, req[r].item)
             /\ Goes(r, AfterStock(req[r].offer))
             /\ UNCHANGED <<disk, writer>>
    <3>1. AfterStock(req[r].offer) \in Stages
      BY DEF AfterStock, Stages
    <3>2. /\ req'[r] = [req[r] EXCEPT !.stage = AfterStock(req[r].offer)]
          /\ req'[r].stage = AfterStock(req[r].offer)
          /\ \A q \in Requests \ {r} : req'[q] = req[q]
      BY <1>1, <2>2, <3>1, GoesType
    <3>3. /\ req'[r].user = req[r].user /\ req'[r].item = req[r].item
          /\ req'[r].offer = req[r].offer
      BY <1>1, <3>2 DEF Request
    <3>4. /\ req'[r].stage \in {"recheck", "record"}
          /\ req'[r].stage = "record" => req[r].offer.limit = NULL
      BY <3>2 DEF AfterStock
    <3>5. /\ req[r].stage = "stock" /\ writer = r /\ now' = now
      BY <1>5 DEF RedeemStock, At, LockInv, LockHeldByHolder, Holding
    <3>6. \A q \in Requests \ {r} : req'[q].stage \notin Holding
      BY <3>2, <3>5 DEF LockInv, LockHeldByHolder
    <3>7. LockHeldByHolder'
      BY <2>2, <3>4, <3>5, <3>6 DEF LockHeldByHolder, Holding
    <3>8. /\ req[r].offer.counted
          /\ draft = Debited(disk, req[r].user, req[r].offer.cost)
          /\ CanAfford(disk, req[r].user, req[r].offer.cost)
      BY <3>5 DEF LockInv, DraftIsDebit, Holding
    <3>9. StockLeft(disk, req[r].item)
      BY <1>1, <2>2, <3>8 DEF StockLeft, Debited, Database
    <3>10. DraftIsDebit'
      <4>1. writer' # NoRequest
        BY <2>2, <3>5, NoRequestAssumption
      <4> QED
        BY <2>2, <3>3, <3>4, <3>5, <3>6, <3>8, <3>9, <4>1
           DEF DraftIsDebit, Holding, LimitReached
    <3> QED
      BY <3>7, <3>10 DEF LockInv
  <2> QED
    BY <1>5, <2>1, <2>2 DEF RedeemStock
<1>6. CASE RedeemRecheck(r)
  <2>1. CASE Rollback /\ Answered(r, "limit")
    BY <1>1, <1>6, <2>1, AnsweredType, HolderReleases
       DEF RedeemRecheck, Rollback, Answers, At, Holding
  <2>2. CASE /\ ~LimitReached(draft, req[r].user, req[r].item, req[r].offer)
             /\ Goes(r, "record")
             /\ UNCHANGED <<disk, draft, writer>>
    <3>1. /\ req'[r] = [req[r] EXCEPT !.stage = "record"]
          /\ req'[r].stage = "record"
          /\ \A q \in Requests \ {r} : req'[q] = req[q]
      BY <1>1, <2>2, GoesType DEF Stages
    <3>2. /\ req'[r].user = req[r].user /\ req'[r].item = req[r].item
          /\ req'[r].offer = req[r].offer
      BY <1>1, <3>1 DEF Request
    <3>3. req[r].stage = "recheck" /\ writer = r /\ now' = now
      BY <1>6 DEF RedeemRecheck, At, LockInv, LockHeldByHolder, Holding
    <3>4. draft.orders = disk.orders
      BY <1>1, <3>3 DEF LockInv, DraftIsDebit, Debited, StockTaken, Database
    <3>5. ~LimitReached(disk, req[r].user, req[r].item, req[r].offer)
      BY <2>2, <3>4 DEF LimitReached
    <3>6. LockHeldByHolder'
      BY <2>2, <3>1, <3>3 DEF LockInv, LockHeldByHolder, Holding
    <3>7. \A q \in Requests \ {r} : req'[q].stage \notin Holding
      BY <3>1, <3>3 DEF LockInv, LockHeldByHolder
    <3>8. DraftIsDebit'
      <4>1. writer' # NoRequest
        BY <2>2, <3>3, NoRequestAssumption
      <4>2. LET paid == Debited(disk, req[r].user, req[r].offer.cost) IN
            /\ CanAfford(disk, req[r].user, req[r].offer.cost)
            /\ draft = IF req[r].offer.counted
                         THEN StockTaken(paid, req[r].item) ELSE paid
            /\ req[r].offer.counted => StockLeft(disk, req[r].item)
        BY <3>3 DEF LockInv, DraftIsDebit, Holding
      <4>3. disk' = disk /\ draft' = draft
        BY <2>2
      <4> QED
        BY <3>1, <3>2, <3>3, <3>5, <3>7, <4>1, <4>2, <4>3
           DEF DraftIsDebit, Holding, LimitReached
    <3> QED
      BY <3>6, <3>8 DEF LockInv
  <2> QED
    BY <1>6, <2>1, <2>2 DEF RedeemRecheck
<1>7. CASE RedeemRecord(r)
  BY <1>1, <1>7, AnsweredType, HolderReleases
     DEF RedeemRecord, Answers, At, Holding
<1> QED
  BY <1>2, <1>3, <1>4, <1>5, <1>6, <1>7

\* The requests that read first and then write and commit in one step.
LEMMA LockInvOthers ==
    ASSUME TypeInv, LockInv, NEW r \in Requests,
           \/ \E u \in Users : NickRead(r, u)
           \/ NickCharge(r)
           \/ \E targets \in SUBSET Users, stale \in SUBSET Users, d \in Deltas :
                 StartAward(r, targets, stale, d)
           \/ AwardCommit(r)
           \/ \E k \in DOMAIN disk.orders : FulfillRead(r, k) \/ CancelRead(r, k)
           \/ FulfillCommit(r) \/ CancelReadUser(r) \/ CancelCommit(r)
           \/ LockTimeout(r)
    PROVE  LockInv'
<1>1. req \in [Requests -> Request] /\ req[r] \in Request
  BY DEF TypeInv, TypeOK
<1> DEFINE Quiet == /\ req[r].stage \notin Holding
                    /\ req'[r].stage \notin Holding
                    /\ \A q \in Requests \ {r} : req'[q] = req[q]
<1>2. Quiet
  <2>1. ASSUME NEW answer \in Answers, Answered(r, answer)
        PROVE  /\ req'[r].stage = "done"
               /\ \A q \in Requests \ {r} : req'[q] = req[q]
    BY <1>1, <2>1, AnsweredType
  <2>2. ASSUME NEW u \in Users, NickRead(r, u)
        PROVE  Quiet
    BY <1>1, <2>1, <2>2 DEF NickRead, At, Holding, Answers, Request
  <2>3. CASE NickCharge(r)
    BY <2>1, <2>3 DEF NickCharge, At, Holding, Answers
  <2>4. ASSUME NEW targets, NEW stale, NEW d, StartAward(r, targets, stale, d)
        PROVE  Quiet
    BY <1>1, <2>4 DEF StartAward, At, Holding, Request
  <2>5. CASE AwardCommit(r)
    BY <2>1, <2>5 DEF AwardCommit, At, Holding, Answers
  <2>6. ASSUME NEW k, FulfillRead(r, k) \/ CancelRead(r, k)
        PROVE  Quiet
    <3>1. CASE FulfillRead(r, k)
      BY <1>1, <3>1 DEF FulfillRead, At, Holding, Request
    <3>2. CASE CancelRead(r, k)
      BY <1>1, <3>2 DEF CancelRead, At, Holding, Request
    <3> QED
      BY <2>6, <3>1, <3>2
  <2>7. CASE FulfillCommit(r)
    BY <2>1, <2>7 DEF FulfillCommit, At, Holding, Answers
  <2>8. CASE CancelReadUser(r)
    BY <1>1, <2>8 DEF CancelReadUser, At, Holding, Request
  <2>9. CASE CancelCommit(r)
    BY <2>1, <2>9 DEF CancelCommit, At, Holding, Answers
  <2>10. CASE LockTimeout(r)
    BY <2>1, <2>10 DEF LockTimeout, NeedsLock, Holding, Answers
  <2> QED
    BY <2>2, <2>3, <2>4, <2>5, <2>6, <2>7, <2>8, <2>9, <2>10
<1>3. now' = now
  BY DEF NickRead, NickCharge, StartAward, AwardCommit, FulfillRead, CancelRead,
         FulfillCommit, CancelReadUser, CancelCommit, LockTimeout
<1>4. CASE UNCHANGED <<disk, draft, writer>>
  BY <1>2, <1>3, <1>4, BystanderStep
<1>5. ASSUME NEW db, Install(db)
      PROVE  LockInv'
  BY <1>2, <1>5, InstallLock
<1> QED
  BY <1>4, <1>5
     DEF NickRead, NickCharge, StartAward, AwardCommit, FulfillRead, CancelRead,
         FulfillCommit, CancelReadUser, CancelCommit, LockTimeout

LEMMA LockInvWorld ==
    ASSUME TypeInv, LockInv, Catalog \/ Crash \/ Tick \/ UNCHANGED vars
    PROVE  LockInv'
<1>1. CASE Catalog
  <2>1. /\ UNCHANGED req
        /\ writer = NoRequest /\ writer' = NoRequest /\ draft' = disk'
    BY <1>1 DEF Catalog, CreateShopItem, UpdateShopItem, DeleteShopItem, Install
  <2> QED
    BY <2>1, NobodyHolds, ReleasedStep DEF LockInv
<1>2. CASE Crash
  <2>1. \A r \in Requests : req'[r].stage \notin Holding
    BY <1>2, ClosedType DEF Crash, InFlight, At, Holding, Answers
  <2> QED
    BY <1>2, <2>1, ReleasedStep DEF Crash, Rollback
<1>3. CASE Tick
  <2>1. /\ UNCHANGED <<disk, draft, writer, req>>
        /\ now \in Nat /\ now' \in Nat /\ now <= now'
    BY <1>3, ConstantsAssumption DEF Tick, TypeInv, TypeOK
  <2>2. ASSUME NEW r \in Requests,
               ~LimitReached(disk, req[r].user, req[r].item, req[r].offer)
        PROVE  ~LimitReached(disk, req[r].user, req[r].item, req[r].offer)'
    <3>1. /\ disk.orders \in Seq(Order)
          /\ req[r].offer.limit \in Positive \cup {NULL}
      BY DEF TypeInv, TypeOK, Database, Request, Offer
    <3> DEFINE n(t) == Cardinality(CountedOrders(disk.orders, req[r].user,
                                                 req[r].item, t))
    <3>2. n(now) \in Nat /\ n(now') \in Nat /\ n(now') <= n(now)
      BY <2>1, <3>1, CountShrinks
    <3> QED
      BY <2>1, <2>2, <3>1, <3>2 DEF LimitReached, Positive
  <2> QED
    BY <2>1, <2>2 DEF LockInv, LockHeldByHolder, DraftIsDebit, CanAfford,
                      Debited, StockTaken, StockLeft
<1>4. CASE UNCHANGED vars
  BY <1>4 DEF vars, LockInv, LockHeldByHolder, DraftIsDebit, LimitReached
<1> QED
  BY <1>1, <1>2, <1>3, <1>4

LEMMA LockInvNext ==
    ASSUME TypeInv, LockInv, [Next]_vars
    PROVE  LockInv'
BY NextCases, LockInvRedeem, LockInvOthers, LockInvWorld

-----------------------------------------------------------------------------
\* What a step does to the committed tables.

\* The row a purchase adds to the queue, and the row it adds to the ledger.
NewOrder(r) ==
    [user |-> req[r].user, item |-> req[r].item, name |-> req[r].offer.name,
     cost |-> req[r].offer.cost, status |-> "pending", at |-> now]

NewDebit(r) ==
    Entry(-req[r].offer.cost, disk.balance[req[r].user] - req[r].offer.cost,
          "redeem", Len(disk.orders) + 1, now)

LEMMA RecordEffect ==
    ASSUME TypeInv, LockInv, NEW r \in Requests, RedeemRecord(r)
    PROVE  LET u == req[r].user
               i == req[r].item
               offer == req[r].offer IN
           /\ CanAfford(disk, u, offer.cost)
           /\ ~LimitReached(disk, u, i, offer)
           /\ offer.counted => StockLeft(disk, i)
           /\ disk'.balance = [disk.balance EXCEPT ![u] = @ - offer.cost]
           /\ disk'.items = IF offer.counted
                              THEN [disk.items EXCEPT ![i].stock = @ - 1]
                              ELSE disk.items
           /\ disk'.orders = Append(disk.orders, NewOrder(r))
           /\ disk'.ledger = [disk.ledger EXCEPT ![u] = Append(@, NewDebit(r))]
<1> DEFINE u == req[r].user
           i == req[r].item
           offer == req[r].offer
           paid == Debited(disk, u, offer.cost)
<1>1. /\ disk \in Database /\ draft \in Database
      /\ u \in Users /\ i \in ItemIds /\ offer \in Offer
  BY DEF TypeInv, TypeOK, Request
<1>2. /\ CanAfford(disk, u, offer.cost)
      /\ ~LimitReached(disk, u, i, offer)
      /\ offer.counted => StockLeft(disk, i)
      /\ draft = IF offer.counted THEN StockTaken(paid, i) ELSE paid
  BY DEF RedeemRecord, At, LockInv, DraftIsDebit, Holding
<1>3. /\ draft.balance = [disk.balance EXCEPT ![u] = @ - offer.cost]
      /\ draft.items = IF offer.counted
                         THEN [disk.items EXCEPT ![i].stock = @ - 1]
                         ELSE disk.items
      /\ draft.orders = disk.orders /\ draft.ledger = disk.ledger
  BY <1>1, <1>2 DEF Debited, StockTaken, Database
<1>4. draft.balance[u] = disk.balance[u] - offer.cost
  BY <1>1, <1>3 DEF Database
<1>5. disk' = WithPurchase(draft, u, i, offer)
  BY DEF RedeemRecord
<1>6. /\ disk'.balance = draft.balance /\ disk'.items = draft.items
      /\ disk'.orders = Append(draft.orders, NewOrder(r))
      /\ disk'.ledger =
            [draft.ledger EXCEPT
               ![u] = Append(@, Entry(-offer.cost, draft.balance[u], "redeem",
                                      Len(draft.orders) + 1, now))]
  BY <1>1, <1>5 DEF WithPurchase, NewOrder, Database
<1> QED
  BY <1>2, <1>3, <1>4, <1>6 DEF NewDebit

\* The catalog the purchasers see is the published one, whatever the step.
ItemsKept ==
    \A i \in ItemIds : /\ disk'.items[i].live = disk.items[i].live
                       /\ OfferOf(disk'.items[i]) = OfferOf(disk.items[i])

\* No redemption comes or goes, none changes hands or price.
OrdersKept ==
    /\ DOMAIN disk'.orders = DOMAIN disk.orders
    /\ \A k \in DOMAIN disk.orders :
          disk'.orders[k] = [disk.orders[k] EXCEPT
                               !.status = disk'.orders[k].status]

\* One row more in the ledger of u, with the balance it leaves.
LedgerGrows(u, entry) ==
    /\ disk'.ledger[u] = Append(disk.ledger[u], entry)
    /\ disk'.balance[u] = entry.after

\* Any step but a purchase: an account is left alone or gets a row.
LedgerKept(u) ==
    \/ disk'.ledger[u] = disk.ledger[u] /\ disk'.balance[u] = disk.balance[u]
    \/ \E entry \in Transaction :
          /\ LedgerGrows(u, entry)
          /\ entry.reason # "redeem"
          /\ entry.reason = "nickname_change" => entry.after >= 0

OtherStep == ItemsKept /\ OrdersKept /\ \A u \in Users : LedgerKept(u)

LEMMA UnchangedIsOther ==
    ASSUME TypeInv, disk' = disk
    PROVE  OtherStep
<1>1. disk.orders \in Seq(Order)
  BY DEF TypeInv, TypeOK, Database
<1>2. \A k \in DOMAIN disk.orders : disk.orders[k] \in Order
  BY <1>1
<1> QED
  BY <1>2 DEF OtherStep, ItemsKept, OrdersKept, LedgerKept, Order

\* A commit that touches only balances and ledgers.
LEMMA LedgerOnly ==
    ASSUME TypeInv, disk'.items = disk.items, disk'.orders = disk.orders,
           \A u \in Users : LedgerKept(u)
    PROVE  OtherStep
<1>1. disk.orders \in Seq(Order)
  BY DEF TypeInv, TypeOK, Database
<1>2. \A k \in DOMAIN disk.orders : disk.orders[k] \in Order
  BY <1>1
<1> QED
  BY <1>2 DEF OtherStep, ItemsKept, OrdersKept, Order

LEMMA NickChargeEffect ==
    ASSUME TypeInv, NEW r \in Requests, NickCharge(r)
    PROVE  OtherStep
<1> DEFINE u == req[r].user
           left == disk.balance[u] - NickCost
           entry == Entry(-NickCost, left, "nickname_change", 0, now)
<1>1. disk \in Database /\ u \in Users /\ now \in Nat
  BY ConstantsAssumption DEF TypeInv, TypeOK, Request
<1>2. CASE disk' = disk
  BY <1>2, UnchangedIsOther
<1>3. CASE CanAfford(disk, u, NickCost) /\ disk' = WithNickCharge(disk, u)
  <2>1. left \in Int /\ left >= 0 /\ -NickCost \in Int
    BY <1>1, <1>3, ConstantsAssumption DEF Database, CanAfford, Positive
  <2>2. /\ entry \in Transaction
        /\ entry.after = left /\ entry.reason = "nickname_change"
    BY <1>1, <2>1, EntryType DEF Reasons, Entry
  <2>3. /\ disk'.items = disk.items /\ disk'.orders = disk.orders
        /\ disk'.balance = [disk.balance EXCEPT ![u] = left]
        /\ disk'.ledger = [disk.ledger EXCEPT ![u] = Append(@, entry)]
    BY <1>1, <1>3 DEF WithNickCharge, Database
  <2> HIDE DEF entry, left
  <2>4. LedgerKept(u)
    BY <1>1, <2>1, <2>2, <2>3 DEF LedgerKept, LedgerGrows, Database
  <2>5. \A v \in Users \ {u} : LedgerKept(v)
    BY <1>1, <2>3 DEF LedgerKept, Database
  <2> QED
    BY <2>3, <2>4, <2>5, LedgerOnly
<1> QED
  BY <1>2, <1>3 DEF NickCharge, Install

LEMMA AwardEffect ==
    ASSUME TypeInv, NEW r \in Requests, AwardCommit(r)
    PROVE  OtherStep
<1> DEFINE d == req[r].delta
           seen == req[r].seen
           targets == req[r].targets
           new(u) == (IF seen[u] # NULL THEN seen[u] ELSE disk.balance[u]) + d
           entry(u) == Entry(d, new(u), "grant", 0, now)
<1>1. /\ disk \in Database /\ now \in Nat /\ d \in Int
      /\ seen \in [Users -> Int \cup {NULL}]
  BY ConstantsAssumption DEF TypeInv, TypeOK, Request
<1>2. disk' = Awarded(disk, targets, seen, d)
  BY DEF AwardCommit, Install
<1>3. \A u \in Users : new(u) \in Int
  BY <1>1 DEF Database
<1>4. \A u \in Users : /\ entry(u) \in Transaction
                       /\ entry(u).after = new(u)
                       /\ entry(u).reason = "grant"
  BY <1>1, <1>3, EntryType DEF Reasons, Entry
<1>5. /\ disk'.items = disk.items /\ disk'.orders = disk.orders
      /\ \A u \in Users :
            /\ disk'.balance[u] = IF u \in targets THEN new(u)
                                                  ELSE disk.balance[u]
            /\ disk'.ledger[u] = IF u \in targets
                                   THEN Append(disk.ledger[u], entry(u))
                                   ELSE disk.ledger[u]
  BY <1>1, <1>2 DEF Awarded, Database
<1> HIDE DEF entry, new, seen, targets, d
<1>6. \A u \in Users : LedgerKept(u)
  BY <1>4, <1>5 DEF LedgerKept, LedgerGrows
<1> QED
  BY <1>5, <1>6, LedgerOnly

\* The status of redemption k is all that a resolution changes of the queue.
LEMMA StatusKeepsOrders ==
    ASSUME NEW os \in Seq(Order), NEW k \in DOMAIN os, NEW s \in Statuses,
           disk.orders = os, disk'.orders = [os EXCEPT ![k].status = s]
    PROVE  OrdersKept
<1>1. \A n \in DOMAIN os : os[n] \in Order
  OBVIOUS
<1>2. /\ DOMAIN disk'.orders = DOMAIN os
      /\ disk'.orders[k] = [os[k] EXCEPT !.status = s]
      /\ \A n \in DOMAIN os \ {k} : disk'.orders[n] = os[n]
  OBVIOUS
<1>3. disk'.orders[k].status = s
  BY <1>1, <1>2 DEF Order
<1>4. \A n \in DOMAIN os \ {k} :
         disk'.orders[n] = [os[n] EXCEPT !.status = os[n].status]
  BY <1>1, <1>2 DEF Order
<1> QED
  BY <1>2, <1>3, <1>4 DEF OrdersKept

LEMMA QueueEffect ==
    ASSUME TypeInv, NEW r \in Requests, FulfillCommit(r) \/ CancelCommit(r)
    PROVE  OtherStep
<1> DEFINE u == req[r].user
           k == req[r].order
           seen == req[r].seen[u]
           cost == disk.orders[k].cost
           entry == Entry(cost, seen + cost, "refund", k, now)
<1>1. /\ disk \in Database /\ now \in Nat
      /\ disk.orders \in Seq(Order)
      /\ u \in Users /\ k \in DOMAIN disk.orders
  <2>0. disk \in Database /\ now \in Nat /\ req[r] \in Request
    BY ConstantsAssumption DEF TypeInv, TypeOK
  <2>1. /\ disk \in Database /\ now \in Nat
        /\ disk.orders \in Seq(Order) /\ u \in Users
    BY <2>0 DEF Request, Database
  <2>2. req[r].stage \in {"cancel", "fulfill"}
    BY DEF FulfillCommit, CancelCommit, At
  <2>3. k \in DOMAIN disk.orders
    BY <2>2 DEF TypeInv, ReadsStand
  <2> QED
    BY <2>1, <2>3
<1>2. CASE FulfillCommit(r)
  <2>1. disk' = WithStatus(disk, k, "fulfilled")
    BY <1>2 DEF FulfillCommit, Install
  <2>2. /\ disk'.items = disk.items /\ disk'.balance = disk.balance
        /\ disk'.ledger = disk.ledger
        /\ disk'.orders = [disk.orders EXCEPT ![k].status = "fulfilled"]
    BY <1>1, <2>1 DEF WithStatus, Database
  <2>3. OrdersKept
    BY <1>1, <2>2, StatusKeepsOrders DEF Statuses
  <2> QED
    BY <2>2, <2>3 DEF OtherStep, ItemsKept, LedgerKept
<1>3. CASE CancelCommit(r)
  <2>1. disk' = WithRefund(disk, k, u, seen)
    BY <1>3 DEF CancelCommit, Install
  <2>2. /\ disk'.items = disk.items
        /\ disk'.balance = [disk.balance EXCEPT ![u] = seen + cost]
        /\ disk'.ledger = [disk.ledger EXCEPT ![u] = Append(@, entry)]
        /\ disk'.orders = [disk.orders EXCEPT ![k].status = "cancelled"]
    BY <1>1, <2>1 DEF WithRefund, WithStatus, Database
  <2>3. OrdersKept
    BY <1>1, <2>2, StatusKeepsOrders DEF Statuses
  <2>4. seen \in Int
    BY <1>3 DEF CancelCommit, At, TypeInv, ReadsStand
  <2>5. disk.orders[k] \in Order /\ k \in Nat
    BY <1>1
  <2>6. cost \in Int /\ seen + cost \in Int
    BY <2>4, <2>5 DEF Order, Positive
  <2>7. /\ entry \in Transaction
        /\ entry.after = seen + cost /\ entry.reason = "refund"
    BY <1>1, <2>5, <2>6, EntryType DEF Reasons, Entry
  <2> HIDE DEF entry
  <2>8. LedgerKept(u)
    BY <1>1, <2>2, <2>7 DEF LedgerKept, LedgerGrows, Database
  <2>9. \A v \in Users \ {u} : LedgerKept(v)
    BY <1>1, <2>2 DEF LedgerKept, Database
  <2> QED
    BY <2>2, <2>3, <2>8, <2>9 DEF OtherStep, ItemsKept
<1> QED
  BY <1>2, <1>3

LEMMA CatalogEffect ==
    ASSUME TypeInv, Catalog
    PROVE  OrdersKept /\ \A u \in Users : LedgerKept(u)
<1>1. disk \in Database
  BY DEF TypeInv, TypeOK
<1>2. PICK i, row : disk' = WithItem(disk, i, row)
  BY DEF Catalog, CreateShopItem, UpdateShopItem, DeleteShopItem, Install
<1>3. /\ disk'.orders = disk.orders /\ disk'.ledger = disk.ledger
      /\ disk'.balance = disk.balance
  BY <1>1, <1>2 DEF WithItem, Database
<1>4. \A k \in DOMAIN disk.orders : disk.orders[k] \in Order
  BY <1>1 DEF Database
<1> QED
  BY <1>3, <1>4 DEF OrdersKept, LedgerKept, Order

\* Every step is a purchase, an edit of the catalog or one that keeps it.
LEMMA NextEffect ==
    ASSUME TypeInv, [Next]_vars
    PROVE  \/ \E r \in Requests : RedeemRecord(r)
           \/ Catalog /\ OrdersKept /\ \A u \in Users : LedgerKept(u)
           \/ OtherStep /\ UNCHANGED published
<1>1. ASSUME NEW r \in Requests,
             \/ \E u \in Users, i \in ItemIds : RedeemRead(r, u, i)
             \/ RedeemLimitEarly(r) \/ RedeemDebit(r) \/ RedeemStock(r)
             \/ RedeemRecheck(r)
             \/ \E u \in Users : NickRead(r, u)
             \/ \E targets \in SUBSET Users, stale \in SUBSET Users,
                  d \in Deltas : StartAward(r, targets, stale, d)
             \/ \E k \in DOMAIN disk.orders :
                   FulfillRead(r, k) \/ CancelRead(r, k)
             \/ CancelReadUser(r) \/ LockTimeout(r)
      PROVE  disk' = disk /\ UNCHANGED published
  BY <1>1 DEF RedeemRead, RedeemLimitEarly, RedeemDebit, RedeemStock,
              RedeemRecheck, NickRead, StartAward, FulfillRead, CancelRead,
              CancelReadUser, LockTimeout, Rollback
<1>2. ASSUME NEW r \in Requests,
             NickCharge(r) \/ AwardCommit(r) \/ FulfillCommit(r) \/ CancelCommit(r)
      PROVE  OtherStep /\ UNCHANGED published
  <2>1. OtherStep
    BY <1>2, NickChargeEffect, AwardEffect, QueueEffect
  <2>2. UNCHANGED published
    BY <1>2 DEF NickCharge, AwardCommit, FulfillCommit, CancelCommit
  <2> QED
    BY <2>1, <2>2
<1>3. ASSUME Crash \/ Tick \/ UNCHANGED vars
      PROVE  disk' = disk /\ UNCHANGED published
  BY <1>3 DEF Crash, Rollback, Tick, vars
<1> QED
  BY <1>1, <1>2, <1>3, NextCases, CatalogEffect, UnchangedIsOther

-----------------------------------------------------------------------------
\* The offers a redemption acts on.

LEMMA OffersInit ==
    ASSUME Init
    PROVE  OffersPublished
<1>1. FirstBody \in Body
  BY ConstantsAssumption
<1>2. OfferOf([RowOf(FirstBody) EXCEPT !.live = TRUE]) = OfferOf(FirstBody)
  BY <1>1 DEF OfferOf, RowOf, Body
<1> QED
  BY <1>2, ConstantsAssumption
     DEF Init, OffersPublished, Buying, Holding, Idle, RowOf

\* A step leaves a buyer with the offer it has or one it reads from the shelf.
LEMMA BuyersKeepOffers ==
    ASSUME TypeInv, [Next]_vars
    PROVE  \A r \in Requests :
              req'[r].stage \in Buying =>
                 \/ /\ req[r].stage \in Buying
                    /\ req'[r].item = req[r].item
                    /\ req'[r].offer = req[r].offer
                 \/ /\ req'[r].item \in ItemIds
                    /\ disk.items[req'[r].item].live
                    /\ req'[r].offer = OfferOf(disk.items[req'[r].item])
<1> DEFINE Keeps(r) ==
             req'[r].stage \in Buying =>
                 \/ /\ req[r].stage \in Buying
                    /\ req'[r].item = req[r].item
                    /\ req'[r].offer = req[r].offer
                 \/ /\ req'[r].item \in ItemIds
                    /\ disk.items[req'[r].item].live
                    /\ req'[r].offer = OfferOf(disk.items[req'[r].item])
<1>1. req \in [Requests -> Request]
  BY DEF TypeInv, TypeOK
<1>2. ASSUME NEW r \in Requests, req'[r] = req[r]
      PROVE  Keeps(r)
  BY <1>2
<1>3. ASSUME NEW r \in Requests, req'[r].stage \notin Buying
      PROVE  Keeps(r)
  BY <1>3
<1>4. ASSUME NEW r \in Requests, NEW answer \in Answers, Answered(r, answer)
      PROVE  \A q \in Requests : Keeps(q)
  BY <1>1, <1>2, <1>3, <1>4, AnsweredType DEF Buying, Holding
<1>5. ASSUME NEW r \in Requests, NEW stage \in Stages, Goes(r, stage),
             req[r].stage \in Buying
      PROVE  \A q \in Requests : Keeps(q)
  <2>1. /\ req'[r] = [req[r] EXCEPT !.stage = stage]
        /\ \A q \in Requests \ {r} : req'[q] = req[q]
    BY <1>1, <1>5, GoesType
  <2>2. req'[r].item = req[r].item /\ req'[r].offer = req[r].offer
    BY <1>1, <2>1 DEF Request
  <2> QED
    BY <1>2, <1>5, <2>1, <2>2
<1>6. ASSUME NEW r \in Requests, NEW new, req' = [req EXCEPT ![r] = new],
             \/ new.stage \notin Buying
             \/ /\ new.item \in ItemIds /\ disk.items[new.item].live
                /\ new.offer = OfferOf(disk.items[new.item])
      PROVE  \A q \in Requests : Keeps(q)
  BY <1>1, <1>6
<1> HIDE DEF Keeps
<1>7. ASSUME NEW r \in Requests, NEW u \in Users, NEW i \in ItemIds,
             RedeemRead(r, u, i)
      PROVE  \A q \in Requests : Keeps(q)
  <2> DEFINE s == IF disk.items[i].limit = NULL THEN "debit" ELSE "limit"
             offer == OfferOf(disk.items[i])
             new == [req[r] EXCEPT !.stage = s, !.user = u, !.item = i,
                                   !.offer = offer]
  <2>1. req' = [req EXCEPT ![r] = new]
    BY <1>1, <1>7 DEF RedeemRead, Request
  <2> HIDE DEF s, offer
  <2>2. new.item = i /\ new.offer = offer
    BY <1>1 DEF Request
  <2> HIDE DEF new
  <2>3. disk.items[i].live
    BY <1>7 DEF RedeemRead
  <2> QED
    BY <1>6, <2>1, <2>2, <2>3 DEF offer
<1>8. ASSUME NEW r \in Requests,
             \/ RedeemLimitEarly(r) \/ RedeemDebit(r) \/ RedeemStock(r)
             \/ RedeemRecheck(r) \/ RedeemRecord(r)
      PROVE  \A q \in Requests : Keeps(q)
  <2>1. /\ AfterDebit(req[r].offer) \in Stages
        /\ AfterStock(req[r].offer) \in Stages
    BY DEF AfterDebit, AfterStock, Stages
  <2>2. req[r].stage \in Buying
    BY <1>8 DEF RedeemLimitEarly, RedeemDebit, RedeemStock, RedeemRecheck,
                RedeemRecord, At, Buying, Holding
  <2>3. \/ \E answer \in Answers : Answered(r, answer)
        \/ \E stage \in Stages : Goes(r, stage)
    <3>1. CASE RedeemLimitEarly(r)
      BY <3>1 DEF RedeemLimitEarly, Answers, Stages
    <3>2. CASE RedeemDebit(r)
      BY <2>1, <3>2 DEF RedeemDebit, Answers
    <3>3. CASE RedeemStock(r)
      BY <2>1, <3>3 DEF RedeemStock, Answers
    <3>4. CASE RedeemRecheck(r)
      BY <3>4 DEF RedeemRecheck, Answers, Stages
    <3>5. CASE RedeemRecord(r)
      BY <3>5 DEF RedeemRecord, Answers
    <3> QED
      BY <1>8, <3>1, <3>2, <3>3, <3>4, <3>5
  <2> QED
    BY <1>4, <1>5, <2>2, <2>3
<1>9. ASSUME NEW r \in Requests,
             \/ NickCharge(r) \/ AwardCommit(r) \/ FulfillCommit(r)
             \/ CancelCommit(r) \/ LockTimeout(r)
      PROVE  \A q \in Requests : Keeps(q)
  BY <1>4, <1>9
     DEF NickCharge, AwardCommit, FulfillCommit, CancelCommit, LockTimeout,
         Answers
<1>10. ASSUME NEW r \in Requests, NEW u \in Users, NickRead(r, u)
       PROVE  \A q \in Requests : Keeps(q)
  <2> DEFINE new == [req[r] EXCEPT !.stage = "nick", !.user = u]
  <2>1. CASE req' = [req EXCEPT ![r].stage = "nick", ![r].user = u]
    <3>1. req' = [req EXCEPT ![r] = new] /\ new.stage = "nick"
      BY <1>1, <2>1 DEF Request
    <3> QED
      BY <1>6, <3>1 DEF Buying, Holding
  <2>2. CASE Answered(r, "cooldown")
    BY <1>4, <2>2 DEF Answers
  <2> QED
    BY <1>10, <2>1, <2>2 DEF NickRead
<1>11. ASSUME NEW r \in Requests, NEW targets, NEW stale, NEW d,
              StartAward(r, targets, stale, d)
       PROVE  \A q \in Requests : Keeps(q)
  <2> DEFINE new == [req[r] EXCEPT !.stage = "award", !.delta = d,
                                   !.targets = targets,
                                   !.seen = Snapshot(disk, stale)]
  <2>1. req' = [req EXCEPT ![r] = new] /\ new.stage = "award"
    BY <1>1, <1>11 DEF StartAward, Request
  <2> QED
    BY <1>6, <2>1 DEF Buying, Holding
<1>12. ASSUME NEW r \in Requests, NEW k, FulfillRead(r, k)
       PROVE  \A q \in Requests : Keeps(q)
  <2> DEFINE new == [req[r] EXCEPT !.stage = "fulfill", !.order = k]
  <2>1. req' = [req EXCEPT ![r] = new] /\ new.stage = "fulfill"
    BY <1>1, <1>12 DEF FulfillRead, Request
  <2> QED
    BY <1>6, <2>1 DEF Buying, Holding
<1>13. ASSUME NEW r \in Requests, NEW k, CancelRead(r, k)
       PROVE  \A q \in Requests : Keeps(q)
  <2> DEFINE new == [req[r] EXCEPT !.stage = "refund", !.order = k,
                                   !.user = disk.orders[k].user]
  <2>1. req' = [req EXCEPT ![r] = new] /\ new.stage = "refund"
    BY <1>1, <1>13 DEF CancelRead, Request
  <2> QED
    BY <1>6, <2>1 DEF Buying, Holding
<1>14. ASSUME NEW r \in Requests, CancelReadUser(r)
       PROVE  \A q \in Requests : Keeps(q)
  <2> DEFINE new == [req[r] EXCEPT !.stage = "cancel",
                                   !.seen = Snapshot(disk, {req[r].user})]
  <2>1. req' = [req EXCEPT ![r] = new] /\ new.stage = "cancel"
    BY <1>1, <1>14 DEF CancelReadUser, Request
  <2> QED
    BY <1>6, <2>1 DEF Buying, Holding
<1>15. ASSUME Crash
       PROVE  \A q \in Requests : Keeps(q)
  <2>1. \A r \in Requests : req'[r] = req[r] \/ req'[r].stage = "done"
    BY <1>15, ClosedType DEF Crash, Answers
  <2> QED
    BY <1>2, <1>3, <2>1 DEF Buying, Holding
<1>16. ASSUME Catalog \/ Tick \/ UNCHANGED vars
       PROVE  \A q \in Requests : Keeps(q)
  <2>1. req' = req
    BY <1>16 DEF Catalog, CreateShopItem, UpdateShopItem, DeleteShopItem, Tick,
                 vars
  <2> QED
    BY <1>2, <2>1
<1>17. \A q \in Requests : Keeps(q)
  <2> DEFINE Redeems(r) ==
               \/ \E u \in Users, i \in ItemIds : RedeemRead(r, u, i)
               \/ RedeemLimitEarly(r) \/ RedeemDebit(r) \/ RedeemStock(r)
               \/ RedeemRecheck(r) \/ RedeemRecord(r)
             Pays(r) ==
               \/ \E u \in Users : NickRead(r, u)
               \/ NickCharge(r)
               \/ \E targets \in SUBSET Users, stale \in SUBSET Users,
                    d \in Deltas : StartAward(r, targets, stale, d)
               \/ AwardCommit(r)
             Resolves(r) ==
               \/ \E k \in DOMAIN disk.orders :
                     FulfillRead(r, k) \/ CancelRead(r, k)
               \/ FulfillCommit(r) \/ CancelReadUser(r) \/ CancelCommit(r)
  <2>1. ASSUME NEW r \in Requests, Redeems(r)
        PROVE  \A q \in Requests : Keeps(q)
    BY <1>7, <1>8, <2>1
  <2>2. ASSUME NEW r \in Requests, Pays(r)
        PROVE  \A q \in Requests : Keeps(q)
    BY <1>9, <1>10, <1>11, <2>2
  <2>3. ASSUME NEW r \in Requests, Resolves(r)
        PROVE  \A q \in Requests : Keeps(q)
    BY <1>9, <1>12, <1>13, <1>14, <2>3
  <2>4. ASSUME NEW r \in Requests, LockTimeout(r)
        PROVE  \A q \in Requests : Keeps(q)
    BY <1>9, <2>4
  <2>5. \/ \E r \in Requests : Redeems(r)
        \/ \E r \in Requests : Pays(r)
        \/ \E r \in Requests : Resolves(r)
        \/ \E r \in Requests : LockTimeout(r)
        \/ Crash \/ Catalog \/ Tick \/ UNCHANGED vars
    BY NextCases
  <2> HIDE DEF Redeems, Pays, Resolves
  <2>6. CASE \E r \in Requests : Redeems(r)
    BY <2>1, <2>6
  <2>7. CASE \E r \in Requests : Pays(r)
    BY <2>2, <2>7
  <2>8. CASE \E r \in Requests : Resolves(r)
    BY <2>3, <2>8
  <2>9. CASE \E r \in Requests : LockTimeout(r)
    BY <2>4, <2>9
  <2> QED
    BY <1>15, <1>16, <2>5, <2>6, <2>7, <2>8, <2>9
<1> QED
  BY <1>17 DEF Keeps

LEMMA OffersNext ==
    ASSUME TypeInv, LockInv, OffersPublished, [Next]_vars
    PROVE  /\ OffersPublished'
           /\ \A i \in ItemIds : published[i] \subseteq published'[i]
<1>1. /\ disk \in Database /\ disk.items \in [ItemIds -> ItemRow]
      /\ published \in [ItemIds -> SUBSET Offer]
      /\ req \in [Requests -> Request]
      /\ req' \in [Requests -> Request]
  <2>1. TypeInv'
    BY TypeInvNext
  <2> QED
    BY <2>1 DEF TypeInv, TypeOK, Database
<1>2. ASSUME \A i \in ItemIds : published[i] \subseteq published'[i]
      PROVE  \A r \in Requests :
                req'[r].stage \in Buying =>
                   req'[r].offer \in published'[req'[r].item]
  <2> SUFFICES ASSUME NEW r \in Requests, req'[r].stage \in Buying
               PROVE  req'[r].offer \in published'[req'[r].item]
    OBVIOUS
  <2>1. req'[r].item \in ItemIds
    BY <1>1 DEF Request
  <2> QED
    BY <1>2, <2>1, BuyersKeepOffers DEF OffersPublished
<1>3. ASSUME ItemsKept, UNCHANGED published
      PROVE  OffersPublished'
  BY <1>2, <1>3 DEF OffersPublished, ItemsKept
<1>4. ASSUME NEW r \in Requests, RedeemRecord(r)
      PROVE  ItemsKept /\ UNCHANGED published
  <2> DEFINE i == req[r].item
  <2>1. disk'.items = IF req[r].offer.counted
                        THEN [disk.items EXCEPT ![i].stock = @ - 1]
                        ELSE disk.items
    BY <1>4, RecordEffect
  <2>2. req[r].offer.counted => StockLeft(disk, i)
    BY <1>4, RecordEffect
  <2>3. i \in ItemIds /\ disk.items[i] \in ItemRow
    BY <1>1 DEF Request
  <2>4. CASE req[r].offer.counted
    <3>1. disk.items[i].stock \in Int /\ disk.items[i].stock - 1 \in Int
      BY <2>2, <2>4 DEF StockLeft, Positive
    <3> DEFINE row == [disk.items[i] EXCEPT !.stock = disk.items[i].stock - 1]
    <3>2. row.live = disk.items[i].live /\ OfferOf(row) = OfferOf(disk.items[i])
      BY <2>3, <3>1, ConstantsAssumption DEF OfferOf, ItemRow
    <3>3. disk'.items = [disk.items EXCEPT ![i] = row]
      BY <1>1, <2>1, <2>3, <2>4
    <3> HIDE DEF row
    <3>4. disk'.items[i] = row
          /\ \A j \in ItemIds \ {i} : disk'.items[j] = disk.items[j]
      BY <1>1, <2>3, <3>3
    <3> QED
      BY <1>4, <3>2, <3>4 DEF ItemsKept, RedeemRecord
  <2>5. CASE ~req[r].offer.counted
    BY <1>4, <2>1, <2>5 DEF ItemsKept, RedeemRecord
  <2> QED
    BY <2>4, <2>5
<1>5. CASE Catalog
  <2>1. ASSUME NEW i \in ItemIds, NEW row, disk' = WithItem(disk, i, row),
               \/ ~row.live /\ UNCHANGED published
               \/ Publish(i, row)
        PROVE  OffersPublished' /\ \A j \in ItemIds : published[j] \subseteq published'[j]
    <3>1. disk'.items = [disk.items EXCEPT ![i] = row]
      BY <1>1, <2>1 DEF WithItem, Database
    <3>2. /\ \A j \in ItemIds : published[j] \subseteq published'[j]
          /\ row.live => OfferOf(row) \in published'[i]
      BY <1>1, <2>1 DEF Publish
    <3>3. \A j \in ItemIds :
             disk'.items[j].live => OfferOf(disk'.items[j]) \in published'[j]
      BY <1>1, <3>1, <3>2 DEF OffersPublished
    <3> QED
      BY <1>2, <3>2, <3>3 DEF OffersPublished
  <2>2. ASSUME NEW b \in Bodies, CreateShopItem(b)
        PROVE  OffersPublished' /\ \A j \in ItemIds : published[j] \subseteq published'[j]
    <3>1. NextId \in ItemIds /\ disk' = WithItem(disk, NextId, RowOf(b))
      BY <2>2 DEF CreateShopItem, Install
    <3>2. OfferOf(RowOf(b)) = OfferOf(b)
      BY ConstantsAssumption DEF OfferOf, RowOf, Body
    <3>3. Publish(NextId, RowOf(b))
      BY <2>2, <3>2 DEF CreateShopItem, Publish
    <3> QED
      BY <2>1, <3>1, <3>3
  <2>3. ASSUME NEW i \in ItemIds, NEW cols, NEW b, UpdateShopItem(i, cols, b)
        PROVE  OffersPublished' /\ \A j \in ItemIds : published[j] \subseteq published'[j]
    BY <2>1, <2>3 DEF UpdateShopItem, Install
  <2>4. ASSUME NEW i \in ItemIds, DeleteShopItem(i)
        PROVE  OffersPublished' /\ \A j \in ItemIds : published[j] \subseteq published'[j]
    <3> DEFINE row == [disk.items[i] EXCEPT !.live = FALSE]
    <3>1. ~row.live
      BY <1>1 DEF ItemRow
    <3>2. disk' = WithItem(disk, i, row) /\ UNCHANGED published
      BY <2>4 DEF DeleteShopItem, Install
    <3> QED
      BY <2>1, <3>1, <3>2
  <2> QED
    BY <1>5, <2>2, <2>3, <2>4 DEF Catalog
<1> QED
  BY <1>3, <1>4, <1>5, NextEffect DEF OtherStep

LEMMA TimePasses ==
    ASSUME [Next]_vars
    PROVE  now' = now \/ now' = now + 1
<1>1. ASSUME NEW r \in Requests,
             \/ \E u \in Users, i \in ItemIds : RedeemRead(r, u, i)
             \/ RedeemLimitEarly(r) \/ RedeemDebit(r) \/ RedeemStock(r)
             \/ RedeemRecheck(r) \/ RedeemRecord(r)
      PROVE  now' = now
  BY <1>1 DEF RedeemRead, RedeemLimitEarly, RedeemDebit, RedeemStock,
              RedeemRecheck, RedeemRecord
<1>2. ASSUME NEW r \in Requests,
             \/ \E u \in Users : NickRead(r, u)
             \/ NickCharge(r)
             \/ \E targets \in SUBSET Users, stale \in SUBSET Users,
                  d \in Deltas : StartAward(r, targets, stale, d)
             \/ AwardCommit(r)
      PROVE  now' = now
  BY <1>2 DEF NickRead, NickCharge, StartAward, AwardCommit
<1>3. ASSUME NEW r \in Requests,
             \/ \E k \in DOMAIN disk.orders :
                   FulfillRead(r, k) \/ CancelRead(r, k)
             \/ FulfillCommit(r) \/ CancelReadUser(r) \/ CancelCommit(r)
             \/ LockTimeout(r)
      PROVE  now' = now
  BY <1>3 DEF FulfillRead, CancelRead, FulfillCommit, CancelReadUser,
              CancelCommit, LockTimeout
<1>4. ASSUME Catalog \/ Crash \/ Tick \/ UNCHANGED vars
      PROVE  now' = now \/ now' = now + 1
  BY <1>4 DEF Catalog, CreateShopItem, UpdateShopItem, DeleteShopItem, Crash,
              Tick, vars
<1> QED
  BY <1>1, <1>2, <1>3, <1>4, NextCases

-----------------------------------------------------------------------------
\* The inductive invariant and its theorems.

IInv == TypeInv /\ LockInv /\ OffersPublished

LEMMA IInvariant == Spec => []IInv
<1>1. Init => IInv
  BY TypeInvInit, LockInvInit, OffersInit DEF IInv
<1>2. IInv /\ [Next]_vars => IInv'
  BY TypeInvNext, LockInvNext, OffersNext DEF IInv
<1> QED
  BY <1>1, <1>2, PTL DEF Spec

\* What a redemption of seven statements may rely on between two of them
\* (redeem_shop_item): it alone holds the lock, its draft is the committed
\* state less the price and the unit it took, what it checked still holds.
THEOREM Isolation == Spec => []TransactionInv
<1>1. IInv => TransactionInv
  BY DEF IInv, TypeInv, LockInv, TransactionInv
<1> QED
  BY <1>1, IInvariant, PTL

LEMMA SameCardinality ==
    ASSUME NEW S
    PROVE  Contract!Cardinality(S) = Cardinality(S)
BY DEF Contract!Cardinality, Cardinality

\* Every step of the economy is a purchase of the contract or leaves the
\* orders alone (redeem_shop_item against everything else that touches the
\* balances, the catalog and the queue).
THEOREM Refinement == Spec => ImplementsContract
<1>1. Init => Contract!Init
  <2> SUFFICES ASSUME Init
               PROVE  Contract!Init
    OBVIOUS
  <2>1. disk \in Database
    BY TypeInvInit DEF TypeInv, TypeOK
  <2>2. [i \in ItemIds |-> disk.items[i].stock] \in [ItemIds -> Nat \cup {NULL}]
    BY <2>1 DEF Database, ItemRow
  <2> QED
    BY <2>1, <2>2 DEF Init, Contract!Init, Database
<1>2. ASSUME IInv, [Next]_vars
      PROVE  [Contract!Next]_(Contract!vars)
  <2>1. ASSUME NEW r \in Requests, RedeemRecord(r)
        PROVE  \E u \in Users, i \in ItemIds : \E offer \in published[i] :
                  Contract!Purchase(u, i, offer)
    <3> DEFINE u == req[r].user
               i == req[r].item
               offer == req[r].offer
               shelf == [j \in ItemIds |-> disk.items[j].stock]
    <3>1. /\ disk \in Database /\ disk.items \in [ItemIds -> ItemRow]
          /\ u \in Users /\ i \in ItemIds /\ offer \in Offer
      BY <1>2 DEF IInv, TypeInv, TypeOK, Request, Database
    <3>2. offer \in published[i]
      BY <1>2, <2>1
         DEF IInv, OffersPublished, RedeemRecord, At, Buying, Holding
    <3>3. /\ CanAfford(disk, u, offer.cost)
          /\ ~LimitReached(disk, u, i, offer)
          /\ offer.counted => StockLeft(disk, i)
          /\ disk'.balance = [disk.balance EXCEPT ![u] = @ - offer.cost]
          /\ disk'.items = IF offer.counted
                             THEN [disk.items EXCEPT ![i].stock = @ - 1]
                             ELSE disk.items
          /\ disk'.orders = Append(disk.orders, NewOrder(r))
      BY <1>2, <2>1, RecordEffect DEF IInv
    <3>4. \/ ~offer.counted /\ shelf' = shelf
          \/ /\ offer.counted
             /\ shelf[i] \in {n \in Nat : n > 0}
             /\ shelf' = [shelf EXCEPT ![i] = @ - 1]
      <4>1. CASE ~offer.counted
        BY <3>3, <4>1
      <4>2. CASE offer.counted
        <5> DEFINE row == [disk.items[i] EXCEPT !.stock = disk.items[i].stock - 1]
        <5>1. disk.items[i].stock \in {n \in Nat : n > 0}
          BY <3>3, <4>2 DEF StockLeft, Positive
        <5>2. row.stock = disk.items[i].stock - 1
          BY <3>1 DEF ItemRow
        <5>3. disk'.items = [disk.items EXCEPT ![i] = row]
          BY <3>1, <3>3, <4>2
        <5> HIDE DEF row
        <5>4. \A j \in ItemIds : disk'.items[j].stock =
                 IF j = i THEN disk.items[i].stock - 1 ELSE disk.items[j].stock
          BY <3>1, <5>2, <5>3
        <5>5. shelf' = [shelf EXCEPT ![i] = @ - 1]
          BY <3>1, <5>4
        <5> QED
          BY <3>1, <4>2, <5>1, <5>5
      <4> QED
        BY <4>1, <4>2
    <3>5. offer.limit # NULL =>
             Contract!Cardinality(Contract!CountedOrders(disk.orders, u, i, now))
               < offer.limit
      <4>1. Contract!CountedOrders(disk.orders, u, i, now)
              = CountedOrders(disk.orders, u, i, now)
        BY DEF Contract!CountedOrders, CountedOrders
      <4>2. /\ now \in Nat /\ disk.orders \in Seq(Order)
            /\ offer.limit # NULL => offer.limit \in Nat
        BY <1>2, <3>1, ConstantsAssumption
           DEF IInv, TypeInv, TypeOK, Database, Offer, Positive
      <4>3. Cardinality(CountedOrders(disk.orders, u, i, now)) \in Nat
        BY <4>2, CountShrinks
      <4> QED
        BY <3>3, <4>1, <4>2, <4>3, SameCardinality DEF LimitReached
    <3>6. UNCHANGED <<published, now>>
      BY <2>1 DEF RedeemRecord
    <3>7. disk.balance[u] >= offer.cost
      BY <3>3 DEF CanAfford
    <3>8. disk'.orders = Append(disk.orders,
                                [user |-> u, item |-> i, name |-> offer.name,
                                 cost |-> offer.cost, status |-> "pending",
                                 at |-> now])
      BY <3>3 DEF NewOrder
    <3> HIDE DEF u, i, offer
    <3>9. Contract!Purchase(u, i, offer)
      BY <3>2, <3>3, <3>4, <3>5, <3>6, <3>7, <3>8, SameCardinality
         DEF Contract!Purchase
    <3> QED
      BY <3>1, <3>2, <3>9 DEF Contract!Purchase
  <2>2. ASSUME OrdersKept
        PROVE  Contract!Otherwise
    <3>1. \A i \in ItemIds : published[i] \subseteq published'[i]
      BY <1>2, OffersNext DEF IInv
    <3>2. now' >= now
      <4>1. now \in Nat
        BY <1>2, ConstantsAssumption DEF IInv, TypeInv, TypeOK
      <4>2. now' = now \/ now' = now + 1
        BY <1>2, TimePasses
      <4> QED
        BY <4>1, <4>2
    <3> QED
      BY <2>2, <3>1, <3>2 DEF OrdersKept, Contract!Otherwise
  <2> QED
    BY <1>2, <2>1, <2>2, NextEffect DEF IInv, OtherStep, Contract!Next
<1> QED
  BY <1>1, <1>2, IInvariant, PTL DEF Spec, ImplementsContract, Contract!Spec

-----------------------------------------------------------------------------
(***************************************************************************)
(* The ledger: its rows against the balances, the queue and each other.    *)
(* Every step adds at most one row per account (RecordEffect, NextEffect); *)
(* the three invariants follow from what that row says.                    *)
(***************************************************************************)
LEMMA LedgerTypes ==
    ASSUME IInv
    PROVE  /\ disk.balance \in [Users -> Int]
           /\ disk.orders \in Seq(Order)
           /\ disk.ledger \in [Users -> Seq(Transaction)]
           /\ now \in Nat
           /\ \A r \in Requests : /\ req[r].user \in Users
                                  /\ req[r].item \in ItemIds
                                  /\ req[r].offer \in Offer
                                  /\ req[r].offer.cost \in Nat
<1>1. disk \in Database /\ now \in Nat /\ req \in [Requests -> Request]
  BY ConstantsAssumption DEF IInv, TypeInv, TypeOK
<1>2. \A r \in Requests : req[r] \in Request
  BY <1>1
<1> QED
  BY <1>1, <1>2 DEF Database, Request, Offer, Positive

\* A purchase, seen from the buyer's ledger and from the others'.
LEMMA PurchaseRow ==
    ASSUME IInv, NEW r \in Requests, RedeemRecord(r)
    PROVE  /\ LedgerGrows(req[r].user, NewDebit(r))
           /\ NewDebit(r).after >= 0
           /\ NewDebit(r).reason = "redeem"
           /\ NewDebit(r).ref = Len(disk.orders) + 1
           /\ NewDebit(r).delta = -req[r].offer.cost
           /\ disk'.orders = Append(disk.orders, NewOrder(r))
           /\ \A v \in Users \ {req[r].user} :
                 /\ disk'.ledger[v] = disk.ledger[v]
                 /\ disk'.balance[v] = disk.balance[v]
<1> DEFINE u == req[r].user
           cost == req[r].offer.cost
<1>1. /\ disk.balance \in [Users -> Int]
      /\ disk.ledger \in [Users -> Seq(Transaction)]
      /\ u \in Users /\ cost \in Nat
  BY LedgerTypes
<1>2. /\ disk.balance[u] >= cost
      /\ disk'.balance = [disk.balance EXCEPT ![u] = @ - cost]
      /\ disk'.orders = Append(disk.orders, NewOrder(r))
      /\ disk'.ledger = [disk.ledger EXCEPT ![u] = Append(@, NewDebit(r))]
  BY RecordEffect DEF IInv, CanAfford
<1>3. /\ NewDebit(r).after = disk.balance[u] - cost
      /\ NewDebit(r).reason = "redeem" /\ NewDebit(r).delta = -cost
      /\ NewDebit(r).ref = Len(disk.orders) + 1
  BY DEF NewDebit, Entry
<1> QED
  BY <1>1, <1>2, <1>3 DEF LedgerGrows

\* Every account, in every step.
LEMMA EveryAccount ==
    ASSUME IInv, [Next]_vars, NEW u \in Users
    PROVE  \/ /\ disk'.ledger[u] = disk.ledger[u]
              /\ disk'.balance[u] = disk.balance[u]
           \/ \E entry : /\ LedgerGrows(u, entry)
                         /\ entry.reason \in {"redeem", "nickname_change"} =>
                               entry.after >= 0
<1>1. CASE \E r \in Requests : RedeemRecord(r)
  BY <1>1, PurchaseRow
<1>2. CASE LedgerKept(u)
  BY <1>2 DEF LedgerKept
<1> QED
  BY <1>1, <1>2, NextEffect DEF IInv, OtherStep

LEMMA AppendFacts ==
    ASSUME NEW S, NEW s \in Seq(S), NEW e
    PROVE  /\ Append(s, e) # <<>>
           /\ Len(Append(s, e)) = Len(s) + 1
           /\ DOMAIN Append(s, e) = 1..(Len(s) + 1)
           /\ DOMAIN s = 1..Len(s)
           /\ Append(s, e)[Len(s) + 1] = e
           /\ \A n \in DOMAIN s : Append(s, e)[n] = s[n]
OBVIOUS

\* balance_after of the newest row is the balance, for every account
\* (PointsTransaction, _award_points, redeem_shop_item).
THEOREM Snapshots == Spec => []BalanceIsLastSnapshot
<1>1. Init => BalanceIsLastSnapshot
  BY DEF Init, BalanceIsLastSnapshot
<1>2. ASSUME IInv, BalanceIsLastSnapshot, [Next]_vars
      PROVE  BalanceIsLastSnapshot'
  <2> SUFFICES ASSUME NEW u \in Users
               PROVE  disk'.balance[u] =
                        IF disk'.ledger[u] = <<>> THEN Opening
                        ELSE disk'.ledger[u][Len(disk'.ledger[u])].after
    BY DEF BalanceIsLastSnapshot
  <2>1. disk.ledger[u] \in Seq(Transaction)
    BY <1>2, LedgerTypes
  <2>2. CASE /\ disk'.ledger[u] = disk.ledger[u]
             /\ disk'.balance[u] = disk.balance[u]
    BY <1>2, <2>2 DEF BalanceIsLastSnapshot
  <2>3. ASSUME NEW entry, LedgerGrows(u, entry)
        PROVE  disk'.balance[u] =
                 IF disk'.ledger[u] = <<>> THEN Opening
                 ELSE disk'.ledger[u][Len(disk'.ledger[u])].after
    BY <2>1, <2>3, AppendFacts DEF LedgerGrows
  <2> QED
    BY <1>2, <2>2, <2>3, EveryAccount
<1> QED
  BY <1>1, <1>2, IInvariant, PTL DEF Spec

\* No purchase and no nickname change overdraws an account, however many run
\* at once (redeem_shop_item, plugin_nickname_change).
THEOREM NoOverdraft == Spec => []SpendsNeverOverdraw
<1>1. Init => SpendsNeverOverdraw
  BY DEF Init, SpendsNeverOverdraw
<1>2. ASSUME IInv, SpendsNeverOverdraw, [Next]_vars
      PROVE  SpendsNeverOverdraw'
  <2> SUFFICES ASSUME NEW u \in Users, NEW n \in DOMAIN disk'.ledger[u],
                      disk'.ledger[u][n].reason \in {"redeem", "nickname_change"}
               PROVE  disk'.ledger[u][n].after >= 0
    BY DEF SpendsNeverOverdraw
  <2>1. disk.ledger[u] \in Seq(Transaction)
    BY <1>2, LedgerTypes
  <2>2. CASE disk'.ledger[u] = disk.ledger[u]
    BY <1>2, <2>2 DEF SpendsNeverOverdraw
  <2>3. ASSUME NEW entry, LedgerGrows(u, entry),
               entry.reason \in {"redeem", "nickname_change"} =>
                  entry.after >= 0
        PROVE  disk'.ledger[u][n].after >= 0
    <3>1. disk'.ledger[u] = Append(disk.ledger[u], entry)
      BY <2>3 DEF LedgerGrows
    <3>2. n \in DOMAIN disk.ledger[u] \/ n = Len(disk.ledger[u]) + 1
      BY <2>1, <3>1, AppendFacts
    <3>3. CASE n \in DOMAIN disk.ledger[u]
      BY <1>2, <2>1, <3>1, <3>3, AppendFacts DEF SpendsNeverOverdraw
    <3>4. CASE n = Len(disk.ledger[u]) + 1
      BY <2>1, <2>3, <3>1, <3>4, AppendFacts
    <3> QED
      BY <3>2, <3>3, <3>4
  <2> QED
    BY <1>2, <2>2, <2>3, EveryAccount
<1> QED
  BY <1>1, <1>2, IInvariant, PTL DEF Spec

\* The two halves of RedemptionsArePaidOnce.
OrdersArePaid ==
    \A k \in DOMAIN disk.orders :
        \E n \in DOMAIN disk.ledger[disk.orders[k].user] :
            IsDebitFor(disk.ledger[disk.orders[k].user][n], k,
                       disk.orders[k].cost)

DebitNamesOrder(u, n) ==
    LET entry == disk.ledger[u][n] IN
    entry.reason = "redeem" =>
        /\ entry.ref \in DOMAIN disk.orders
        /\ disk.orders[entry.ref].user = u
        /\ \A m \in DOMAIN disk.ledger[u] :
              /\ disk.ledger[u][m].reason = "redeem"
              /\ disk.ledger[u][m].ref = entry.ref
              => m = n

DebitsNameOrders ==
    \A u \in Users : \A n \in DOMAIN disk.ledger[u] : DebitNamesOrder(u, n)

LEMMA PaidOnceHalves ==
    RedemptionsArePaidOnce <=> OrdersArePaid /\ DebitsNameOrders
BY DEF RedemptionsArePaidOnce, OrdersArePaid, DebitsNameOrders, DebitNamesOrder

\* The buyer and the price of a redemption that stays.
LEMMA OrdersKeptFacts ==
    ASSUME IInv, OrdersKept
    PROVE  /\ DOMAIN disk'.orders = DOMAIN disk.orders
           /\ \A k \in DOMAIN disk.orders :
                 /\ disk.orders[k].user \in Users
                 /\ disk'.orders[k].user = disk.orders[k].user
                 /\ disk'.orders[k].cost = disk.orders[k].cost
<1>1. \A k \in DOMAIN disk.orders : disk.orders[k] \in Order
  BY LedgerTypes
<1> QED
  BY <1>1 DEF OrdersKept, Order

LEMMA KeptRowsStand ==
    ASSUME IInv, NEW u \in Users, LedgerKept(u)
    PROVE  /\ DOMAIN disk.ledger[u] \subseteq DOMAIN disk'.ledger[u]
           /\ \A n \in DOMAIN disk.ledger[u] :
                 disk'.ledger[u][n] = disk.ledger[u][n]
           /\ \A n \in DOMAIN disk'.ledger[u] \ DOMAIN disk.ledger[u] :
                 disk'.ledger[u][n].reason # "redeem"
<1>1. disk.ledger[u] \in Seq(Transaction)
  BY LedgerTypes
<1>2. CASE disk'.ledger[u] = disk.ledger[u]
  BY <1>2
<1>3. ASSUME NEW entry, LedgerGrows(u, entry), entry.reason # "redeem"
      PROVE  /\ DOMAIN disk.ledger[u] \subseteq DOMAIN disk'.ledger[u]
             /\ \A n \in DOMAIN disk.ledger[u] :
                   disk'.ledger[u][n] = disk.ledger[u][n]
             /\ \A n \in DOMAIN disk'.ledger[u] \ DOMAIN disk.ledger[u] :
                   disk'.ledger[u][n].reason # "redeem"
  <2>1. disk'.ledger[u] = Append(disk.ledger[u], entry)
    BY <1>3 DEF LedgerGrows
  <2>2. \A n \in DOMAIN disk'.ledger[u] \ DOMAIN disk.ledger[u] :
           n = Len(disk.ledger[u]) + 1
    BY <1>1, <2>1, AppendFacts
  <2> QED
    BY <1>1, <1>3, <2>1, <2>2, AppendFacts
<1> QED
  BY <1>2, <1>3 DEF LedgerKept

LEMMA PaidOnceOther ==
    ASSUME IInv, OrdersArePaid, DebitsNameOrders,
           OrdersKept, \A u \in Users : LedgerKept(u)
    PROVE  OrdersArePaid' /\ DebitsNameOrders'
<1>1. OrdersArePaid'
  <2> SUFFICES ASSUME NEW k \in DOMAIN disk'.orders
               PROVE  \E n \in DOMAIN disk'.ledger[disk'.orders[k].user] :
                         IsDebitFor(disk'.ledger[disk'.orders[k].user][n], k,
                                    disk'.orders[k].cost)
    BY DEF OrdersArePaid, IsDebitFor
  <2>1. /\ k \in DOMAIN disk.orders
        /\ disk.orders[k].user \in Users
        /\ disk'.orders[k].user = disk.orders[k].user
        /\ disk'.orders[k].cost = disk.orders[k].cost
    BY OrdersKeptFacts
  <2>2. PICK n \in DOMAIN disk.ledger[disk.orders[k].user] :
           IsDebitFor(disk.ledger[disk.orders[k].user][n], k,
                      disk.orders[k].cost)
    BY <2>1 DEF OrdersArePaid
  <2> QED
    BY <2>1, <2>2, KeptRowsStand
<1>2. DebitsNameOrders'
  <2> SUFFICES ASSUME NEW u \in Users, NEW n \in DOMAIN disk'.ledger[u],
                      disk'.ledger[u][n].reason = "redeem"
               PROVE  DebitNamesOrder(u, n)'
    BY DEF DebitsNameOrders, DebitNamesOrder
  <2>1. n \in DOMAIN disk.ledger[u]
    BY KeptRowsStand
  <2>2. disk'.ledger[u][n] = disk.ledger[u][n]
    BY <2>1, KeptRowsStand
  <2>3. DebitNamesOrder(u, n)
    BY <2>1 DEF DebitsNameOrders
  <2>4. ASSUME NEW m \in DOMAIN disk'.ledger[u],
               disk'.ledger[u][m].reason = "redeem"
        PROVE  m \in DOMAIN disk.ledger[u]
               /\ disk'.ledger[u][m] = disk.ledger[u][m]
    BY <2>4, KeptRowsStand
  <2> QED
    BY <2>2, <2>3, <2>4, OrdersKeptFacts DEF DebitNamesOrder
<1> QED
  BY <1>1, <1>2

LEMMA PaidOncePurchase ==
    ASSUME IInv, OrdersArePaid, DebitsNameOrders,
           NEW r \in Requests, RedeemRecord(r)
    PROVE  OrdersArePaid' /\ DebitsNameOrders'
<1> DEFINE u == req[r].user
           l == disk.ledger[u]
           new == Len(disk.orders) + 1
<1>1. /\ disk.orders \in Seq(Order) /\ u \in Users
      /\ disk.ledger \in [Users -> Seq(Transaction)]
      /\ l \in Seq(Transaction)
  BY LedgerTypes
<1>2. /\ disk'.orders = Append(disk.orders, NewOrder(r))
      /\ disk'.ledger[u] = Append(l, NewDebit(r))
      /\ \A v \in Users \ {u} : disk'.ledger[v] = disk.ledger[v]
      /\ NewDebit(r).reason = "redeem" /\ NewDebit(r).ref = new
      /\ NewDebit(r).delta = -req[r].offer.cost
  BY PurchaseRow DEF LedgerGrows
<1>3. /\ DOMAIN disk.orders = 1..Len(disk.orders)
      /\ DOMAIN disk'.orders = 1..new
      /\ disk'.orders[new] = NewOrder(r)
      /\ \A k \in DOMAIN disk.orders : disk'.orders[k] = disk.orders[k]
  BY <1>1, <1>2, AppendFacts
<1>4. /\ DOMAIN l = 1..Len(l) /\ DOMAIN disk'.ledger[u] = 1..(Len(l) + 1)
      /\ disk'.ledger[u][Len(l) + 1] = NewDebit(r)
      /\ \A n \in DOMAIN l : disk'.ledger[u][n] = l[n]
  BY <1>1, <1>2, AppendFacts
<1>5. NewOrder(r).user = u /\ NewOrder(r).cost = req[r].offer.cost
  BY DEF NewOrder
<1>6. Len(disk.orders) \in Nat /\ Len(l) \in Nat
  BY <1>1
<1> HIDE DEF l, u
<1>7. \A k \in DOMAIN disk.orders : disk.orders[k] \in Order
  BY <1>1
<1>8. OrdersArePaid'
  <2> SUFFICES ASSUME NEW k \in DOMAIN disk'.orders
               PROVE  \E n \in DOMAIN disk'.ledger[disk'.orders[k].user] :
                         IsDebitFor(disk'.ledger[disk'.orders[k].user][n], k,
                                    disk'.orders[k].cost)
    BY DEF OrdersArePaid, IsDebitFor
  <2>1. CASE k = new
    <3>1. Len(l) + 1 \in DOMAIN disk'.ledger[u]
      BY <1>4, <1>6
    <3> QED
      BY <1>2, <1>3, <1>4, <1>5, <2>1, <3>1 DEF IsDebitFor
  <2>2. CASE k \in DOMAIN disk.orders
    <3> DEFINE v == disk.orders[k].user
    <3>1. v \in Users /\ disk'.orders[k] = disk.orders[k]
      BY <1>3, <1>7, <2>2 DEF Order
    <3>2. PICK n \in DOMAIN disk.ledger[v] :
             IsDebitFor(disk.ledger[v][n], k, disk.orders[k].cost)
      BY <2>2 DEF OrdersArePaid
    <3>3. n \in DOMAIN disk'.ledger[v] /\ disk'.ledger[v][n] = disk.ledger[v][n]
      <4>1. CASE v = u
        <5>1. n \in DOMAIN l /\ disk.ledger[v] = l
          BY <3>2, <4>1 DEF l, u
        <5> HIDE DEF v
        <5>2. n \in 1..(Len(l) + 1)
          BY <1>4, <1>6, <5>1
        <5> QED
          BY <1>4, <4>1, <5>1, <5>2
      <4>2. CASE v # u
        BY <1>2, <3>1, <3>2, <4>2
      <4> QED
        BY <4>1, <4>2
    <3> QED
      BY <3>1, <3>2, <3>3
  <2> QED
    BY <1>3, <1>6, <2>1, <2>2
<1>9. \A v \in Users : \A n \in DOMAIN disk.ledger[v] :
         disk.ledger[v][n].reason = "redeem" =>
            /\ disk.ledger[v][n].ref \in DOMAIN disk.orders
            /\ disk.ledger[v][n].ref # new
  BY <1>3, <1>6 DEF DebitsNameOrders, DebitNamesOrder
<1>10. DebitsNameOrders'
  <2> SUFFICES ASSUME NEW v \in Users, NEW n \in DOMAIN disk'.ledger[v],
                      disk'.ledger[v][n].reason = "redeem"
               PROVE  DebitNamesOrder(v, n)'
    BY DEF DebitsNameOrders, DebitNamesOrder
  <2>1. CASE v # u
    <3>1. disk'.ledger[v] = disk.ledger[v]
      BY <1>2, <2>1
    <3>2. DebitNamesOrder(v, n)
      BY <3>1 DEF DebitsNameOrders
    <3>3. DOMAIN disk.orders \subseteq DOMAIN disk'.orders
      BY <1>3, <1>6
    <3> QED
      BY <1>3, <3>1, <3>2, <3>3 DEF DebitNamesOrder
  <2>2. CASE v = u /\ n \in DOMAIN l
    <3>1. DebitNamesOrder(u, n) /\ disk'.ledger[u][n] = disk.ledger[u][n]
      BY <1>1, <1>4, <2>2 DEF DebitsNameOrders, l
    <3>2. /\ disk.ledger[u][n].ref \in DOMAIN disk.orders
          /\ disk.ledger[u][n].ref # new
      BY <1>1, <1>9, <2>2, <3>1 DEF l
    <3>3. ASSUME NEW m \in DOMAIN disk'.ledger[u],
                 disk'.ledger[u][m].reason = "redeem",
                 disk'.ledger[u][m].ref = disk'.ledger[u][n].ref
          PROVE  m = n
      <4>1. m # Len(l) + 1
        BY <1>2, <1>4, <3>1, <3>2, <3>3
      <4>2. m \in DOMAIN l /\ disk'.ledger[u][m] = disk.ledger[u][m]
        BY <1>4, <1>6, <3>3, <4>1 DEF l
      <4> QED
        BY <2>2, <3>1, <3>3, <4>2 DEF DebitNamesOrder, l
    <3>4. DOMAIN disk.orders \subseteq DOMAIN disk'.orders
      BY <1>3, <1>6
    <3> QED
      BY <1>3, <2>2, <3>1, <3>2, <3>3, <3>4 DEF DebitNamesOrder
  <2>3. CASE v = u /\ n = Len(l) + 1
    <3>1. disk'.ledger[u][n] = NewDebit(r)
      BY <1>4, <2>3
    <3>2. ASSUME NEW m \in DOMAIN disk'.ledger[u],
                 disk'.ledger[u][m].reason = "redeem",
                 disk'.ledger[u][m].ref = new
          PROVE  m = n
      <4>1. m \notin DOMAIN l
        BY <1>1, <1>4, <1>9, <3>2 DEF l
      <4> QED
        BY <1>4, <1>6, <2>3, <3>2, <4>1
    <3>3. new \in DOMAIN disk'.orders /\ disk'.orders[new].user = u
      BY <1>3, <1>5, <1>6
    <3> QED
      BY <1>2, <2>3, <3>1, <3>2, <3>3 DEF DebitNamesOrder
  <2> QED
    BY <1>4, <1>6, <2>1, <2>2, <2>3
<1> QED
  BY <1>8, <1>10

\* Every redemption is paid by exactly one ledger row of its buyer and its
\* price (redeem_shop_item: the flush before the ledger row, one commit).
THEOREM PaidOnce == Spec => []RedemptionsArePaidOnce
<1> DEFINE Paid == OrdersArePaid /\ DebitsNameOrders
<1>1. Init => Paid
  BY DEF Init, OrdersArePaid, DebitsNameOrders
<1>2. ASSUME IInv, Paid, [Next]_vars
      PROVE  Paid'
  BY <1>2, PaidOnceOther, PaidOncePurchase, NextEffect DEF IInv, OtherStep
<1>3. Paid => RedemptionsArePaidOnce
  BY PaidOnceHalves
<1> HIDE DEF Paid
<1> QED
  BY <1>1, <1>2, <1>3, IInvariant, PTL DEF Spec
=============================================================================
