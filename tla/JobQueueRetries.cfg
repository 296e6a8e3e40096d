SPECIFICATION FairSpec
CONSTANTS
  a = a
  b = b
  alist = alist
  va = va
  vb = vb
  Jobs = {1}
  MaxSeq = 1
  Urls = {a}
  Containers = {}
  Videos = {va}
  VideoOf <- OneVideoOf
  Listing <- NoListing
  Requests <- TwiceRequests
  Failures = {"E_RATE_LIMIT", "E_INTERNAL", "E_UNSUPPORTED_SOURCE", "exception", "E_FEATURE_DISABLED"}
  MaxItems = 2
  MaxAttempts = 2
  Ceiling = 4
  MaxStops = 1
  MaxCrashes = 1
  NoJob = 0
  NoVideo = NoVideo
  NoUrl = NoUrl
  NoRequest = NoRequest
INVARIANTS
  AttemptsBounded
  RetiredMeansSpent
  RateLimitOutlived
PROPERTIES
  EveryJobEnds
