-------------------------- MODULE PointsShopClaims --------------------------
(***************************************************************************)
(* What docstrings of the points economy say of it and the code does not   *)
(* keep.  Each claim is refuted by a run of its own.                       *)
(***************************************************************************)
EXTENDS PointsShop, SequencesExt

\* User.points_balance is "a denormalized running total" of the ledger
\* (PointsTransaction), the awards having "a single admin/plugin caller [as]
\* the only writer at a time" (_award_points).  A purchase that commits
\* between the read and the write of an award is overwritten by it.
BalanceMatchesLedger ==
    \A u \in Users :
        disk.balance[u] =
            FoldSeq(LAMBDA entry, sum : sum + entry.delta, Opening,
                    disk.ledger[u])

\* cancel_shop_redemption's 409 "is what prevents a double-refund from two
\* admins (or one admin double-clicking)".  Both may read the status before
\* either has written it.  (The redemption is named in the row's detail.)
NoDoubleRefund ==
    \A u \in Users : \A m, n \in DOMAIN disk.ledger[u] :
        /\ disk.ledger[u][m].reason = "refund"
        /\ disk.ledger[u][n].reason = "refund"
        /\ disk.ledger[u][m].ref = disk.ledger[u][n].ref
        => m = n

\* delete_shop_item leaves shop_item_id as it is: "nothing joins back through
\* it, so a dangling id is harmless there".  The weekly limit counts by that
\* id, and SQLite hands the id of the last item, deleted, to the next one: a
\* player is then refused an item of which they have bought fewer than its
\* limit.  (Stated for catalogs whose items keep their names.)
RefusedForThisItem(r) ==
    LET own == {k \in DOMAIN disk.orders :
                  /\ disk.orders[k].user = req[r].user
                  /\ disk.orders[k].name = req[r].offer.name
                  /\ disk.orders[k].status # "cancelled"
                  /\ disk.orders[k].at >= now - Window} IN
    Cardinality(own) >= req[r].offer.limit

DanglingIdIsHarmless ==
    [][\A r \in Requests :
          /\ req'[r].answer \in {"limit_early", "limit"}
          /\ req[r].answer = "none"
          => RefusedForThisItem(r)]_vars
=============================================================================
