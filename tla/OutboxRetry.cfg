SPECIFICATION Spec
CONSTANTS
  entry = entry
  TradeEvents = {entry}
  MaxDay = 1
  MaxFailures = 1
  MaxPosts = 3
  Retries = TRUE
  MayDisable = TRUE
INVARIANT SentIsDelivered
