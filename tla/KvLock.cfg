SPECIFICATION FairSpec
CONSTANTS
  Locks = {l1, l2}
  TTL = 6
  ExtendTTL = {4, 7}
  MaxDelay = 1
  AutoExtend = TRUE
  NoOwner = NoOwner
INVARIANTS LeaseKept
PROPERTIES OnlyOwnerReleases AbandonedKeyFreed ReleaseEnds
