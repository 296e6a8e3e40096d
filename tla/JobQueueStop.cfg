SPECIFICATION Spec
CONSTANTS
  a = a
  b = b
  alist = alist
  va = va
  vb = vb
  Jobs = {1, 2}
  MaxSeq = 0
  Urls = {a}
  Containers = {}
  Videos = {va}
  VideoOf <- OneVideoOf
  Listing <- NoListing
  Requests <- OneVideoRequests
  Failures = {"E_RATE_LIMIT"}
  MaxItems = 2
  MaxAttempts = 1
  Ceiling = 2
  MaxStops = 1
  MaxCrashes = 0
  NoJob = 0
  NoVideo = NoVideo
  NoUrl = NoUrl
  NoRequest = NoRequest
INVARIANTS
  StopReleasesEveryClaim
