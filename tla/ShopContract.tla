---------------------------- MODULE ShopContract ----------------------------
(***************************************************************************)
(* What POST /api/shop/redeem promises, whatever else happens to the       *)
(* points economy at the same time: a purchase is one indivisible exchange *)
(* of points, one unit of stock and one slot of the weekly limit against   *)
(* one order.  The price, the limit and whether stock is counted are those *)
(* of an offer the catalog has published for the item.                     *)
(*                                                                         *)
(* Everything else (grants, refunds, nickname changes, catalog edits, the  *)
(* resolution of orders) is left free except for one thing: it may neither *)
(* add nor remove an order.  PointsShop implements this module.            *)
(***************************************************************************)
EXTENDS Integers, Sequences, FiniteSets

CONSTANTS
    Users,      \* site accounts
    ItemIds,    \* primary keys of shop_items
    Window,     \* the trailing seven days of weekly_limit_per_user
    NULL        \* SQL NULL: "unlimited" for stock and for the weekly limit

VARIABLES
    balance,    \* balance[u]: users.points_balance
    shelf,      \* shelf[i]: shop_items.stock
    orders,     \* shop_redemptions, in primary key order
    published,  \* published[i]: every offer the catalog has made under id i
    now

vars == <<balance, shelf, orders, published, now>>

\* The orders of user u for item id i that the weekly limit counts at time t.
CountedOrders(os, u, i, t) ==
    {k \in DOMAIN os : /\ os[k].user = u
                       /\ os[k].item = i
                       /\ os[k].status # "cancelled"
                       /\ os[k].at >= t - Window}

Init ==
    /\ balance \in [Users -> Int]
    /\ shelf \in [ItemIds -> Nat \cup {NULL}]
    /\ orders = <<>>
    /\ DOMAIN published = ItemIds
    /\ now = 0

\* A purchase: enough points, stock on the shelf, a free slot in the window.
Purchase(u, i, offer) ==
    /\ offer \in published[i]
    /\ balance[u] >= offer.cost
    /\ balance' = [balance EXCEPT ![u] = @ - offer.cost]
    /\ \/ /\ ~offer.counted
          /\ UNCHANGED shelf
       \/ /\ offer.counted
          /\ shelf[i] \in {n \in Nat : n > 0}
          /\ shelf' = [shelf EXCEPT ![i] = @ - 1]
    /\ offer.limit # NULL =>
          Cardinality(CountedOrders(orders, u, i, now)) < offer.limit
    /\ orders' = Append(orders, [user |-> u, item |-> i, name |-> offer.name,
                                 cost |-> offer.cost, status |-> "pending",
                                 at |-> now])
    /\ UNCHANGED <<published, now>>

\* Any other request: the set of orders stands, what each one is for and what
\* it cost never changes, only its status does.
Otherwise ==
    /\ DOMAIN orders' = DOMAIN orders
    /\ \A k \in DOMAIN orders :
          orders'[k] = [orders[k] EXCEPT !.status = orders'[k].status]
    /\ \A i \in ItemIds : published[i] \subseteq published'[i]
    /\ now' >= now

Next ==
    \/ \E u \in Users, i \in ItemIds :
          \E offer \in published[i] : Purchase(u, i, offer)
    \/ Otherwise

Spec == Init /\ [][Next]_vars
=============================================================================
