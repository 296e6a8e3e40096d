SPECIFICATION Spec
CONSTANTS
  a = a
  b = b
  alist = alist
  va = va
  vb = vb
  Jobs = {1}
  MaxSeq = 3
  Urls = {a, b, alist}
  Containers = {alist}
  Videos = {va, vb}
  VideoOf <- ListVideoOf
  Listing <- ListListing
  Requests <- ListRequests
  Failures = {"E_RATE_LIMIT", "E_UNSUPPORTED_SOURCE"}
  MaxItems = 2
  MaxAttempts = 1
  Ceiling = 2
  MaxStops = 1
  MaxCrashes = 1
  NoJob = 0
  NoVideo = NoVideo
  NoUrl = NoUrl
  NoRequest = NoRequest
INVARIANTS
  TypeOK
  ExpandedOnce
PROPERTIES
  RateLimitSticky
