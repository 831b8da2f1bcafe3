SPECIFICATION Spec
CONSTANTS
  Fans = {fan}
  Creators <- mcCreators
  Tiers <- mcTiers
  NoTier = NoTier
  TierCreator <- mcTierCreator
  Posts <- mcPosts
  Prices <- mcPrices
  Handlers = {h1, h2}
  MaxMessages = 1
  MaxCharges = 2
  MaxTime = 1
  creator = creator
  basic = basic
  premium = premium
SYMMETRY symmetry
INVARIANTS
  TypeOK
  UnlocksArePaid
  SecondChargeNeedsLoss
  MessagesWerePaidFor
  OneFeeSchedule
  FanFeedIsPaidFor
  ChargesAreDelivered
PROPERTIES
  TipsArePaidOnce
