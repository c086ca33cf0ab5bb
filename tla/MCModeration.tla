---------------------------- MODULE MCModeration ----------------------------
(***************************************************************************)
(* Moderation of two players on two servers.                               *)
(***************************************************************************)
EXTENDS Moderation, TLC

CONSTANTS alice, bob, r1, r2, r3, r4

MCPlayers == {alice, bob}
MCTwoRequests == {r1, r2}
MCFourRequests == {r1, r2, r3, r4}
MCTerms == {1, Never}
SymmetricRequests == Permutations(Requests \ {r4})

\* A fourth request only where nothing but alice's warnings happens: it takes two
\* for the first escalation and two more that overlap.
WarningsAlone == issued = 0 /\ now = 0 /\ clears = 0 /\ warned[bob] = 0

MCNext == Next /\ (At(r4, "idle")' \/ WarningsAlone')

MCSpec == Init /\ [][MCNext]_vars
=============================================================================
