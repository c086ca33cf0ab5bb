---------------------------- MODULE MCPointsShop ----------------------------
(***************************************************************************)
(* The points economy on a small instance: who the users and requests are, *)
(* and what the admins may put in the catalog.                             *)
(***************************************************************************)
EXTENDS PointsShopClaims, TLC

CONSTANTS alice, bob, r1, r2, r3

MCUsers == {alice, bob}
MCRequests == {r1, r2, r3}

\* A counted item with a limit of one, and a cheaper one with neither.
Sword == [name |-> "sword", active |-> TRUE, cost |-> 2, stock |-> 1,
          limit |-> 1]
Potion == [name |-> "potion", active |-> TRUE, cost |-> 1, stock |-> NULL,
           limit |-> NULL]
\* The sword again, in numbers and dearer.
Swords == [Sword EXCEPT !.cost = 3, !.stock = 2, !.limit = 2]
\* Another item with a limit of one.
Shield == [Sword EXCEPT !.name = "shield"]

MCBodies == {Potion, Swords}
MCOtherBodies == {Shield}
MCColumnSets == {{"cost"}, {"stock", "limit"}}

MCDeltas == {-2}

SymmetricRequests == Permutations(Requests)
=============================================================================
