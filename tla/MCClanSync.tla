----------------------------- MODULE MCClanSync -----------------------------
(***************************************************************************)
(* The clan sync on two servers with two clans, two players and a castle.  *)
(***************************************************************************)
EXTENDS ClanSync, TLC

CONSTANTS wolves, ravens, alice, bob, keep, r1, r2, r3, r4

MCGuids == {wolves, ravens}
MCPlayers == {alice, bob}
MCCastles == {keep}
MCRequests == {r1, r2, r3, r4}
MCThreeRequests == {r1, r2, r3}

\* Nobody has a clan; the wolves with a castle; bob joins them; two clans.
MCPayloads ==
    {Empty,
     (wolves :> {alice, keep}),
     (wolves :> {alice, bob}),
     (wolves :> {alice}) @@ (ravens :> {bob})}

SymmetricRequests == Permutations(Requests)
=============================================================================
