------------------------------ MODULE MCWallet ------------------------------
(* The wallet for TLC: each user drove one journey.                        *)
EXTENDS Wallet, TLC

CONSTANTS u1, u2, j1, j2

\* The users are alike, each with the own journey.
Swapped == u1 :> u2 @@ u2 :> u1 @@ j1 :> j2 @@ j2 :> j1

Interchangeable == Permutations(Calls) \cup Permutations(Commissions)
                   \cup Permutations(Subscriptions) \cup {Swapped}

OneEach == [j \in Journeys |-> IF j = j1 THEN u1 ELSE u2]
=============================================================================
