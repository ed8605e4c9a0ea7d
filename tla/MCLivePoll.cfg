SPECIFICATION PollSpec
CONSTANTS
  MaxVersion = 2
  MaxSubs = 2
INVARIANTS
  SubscribersLive
PROPERTIES
  RefreshesInOrder
  EventuallyShown
