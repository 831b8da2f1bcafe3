---------------------------- MODULE MCPurchases ----------------------------
(***************************************************************************)
(* Small instance of Purchases: one fan, one creator with two tiers, a     *)
(* post of each visibility and one locked to no tier (lockedTierId is      *)
(* nullable), one message, two charges at two moments.  The price is no    *)
(* multiple of 20 cents, so its fee is rounded.                            *)
(***************************************************************************)
EXTENDS Purchases, TLC

CONSTANTS creator, basic, premium

mcCreators == {creator}
mcTiers == {basic, premium}
mcTierCreator == [t \in mcTiers |-> creator]

mcPosts == {[creator |-> creator, visibility |-> "PUBLIC", tier |-> NoTier],
            [creator |-> creator, visibility |-> "SUBSCRIBERS", tier |-> NoTier],
            [creator |-> creator, visibility |-> "TIER_LOCKED", tier |-> premium],
            [creator |-> creator, visibility |-> "TIER_LOCKED", tier |-> NoTier]}

mcPrices == {107}

symmetry == Permutations(Handlers)
=============================================================================
