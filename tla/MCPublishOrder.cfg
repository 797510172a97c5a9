SPECIFICATION FairSpec
CONSTANTS
  Payloads = {empty, p, q}
  Empty = empty
  MaxPublications = 3
CHECK_DEADLOCK FALSE
INVARIANTS
  TypeOK
  RegistryTracksClient
PROPERTIES
  PublishesLatestOnly
  LatestIsShown
