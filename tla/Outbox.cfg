SPECIFICATION FairSpec
CONSTANTS
  entry = entry
  TradeEvents = {entry}
  MaxDay = 2
  MaxFailures = 2
  MaxPosts = 2
  Retries = FALSE
  MayDisable = TRUE
INVARIANTS RepeatsNeedFailures SummaryNotLost
PROPERTIES SettledStays AmbiguousNotResent PendingIsSettled
