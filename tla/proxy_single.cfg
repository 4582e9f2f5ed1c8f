SPECIFICATION Spec
CONSTANTS
  h1 = h1
  o1 = o1
  o2 = o2
  t1 = t1
  t2 = t2
  Handlers = {h1}
  Prefix <- AtRoot
  Origins = {o1, o2}
  Origin <- FirstOrigin
  Uris <- UrisDeep
  Redirect <- ThereAndBack
  Threads = {t1}
  Codes = {200, 404}
  CacheControl <- NotX
  Revalidation = {"max-age", "other"}
  TagHeader = "ETag"
  MaxAge = 2
  Unreliable = TRUE
  Malformed = TRUE
  MaxDepth = 3
  MaxClock = 3
  MaxVersion <- OneVersion
  MaxRequests = 3
INVARIANTS TypeOK EntryHasFile CachedReplyFresh MaxAgeGranted UpdateNotNested
CHECK_DEADLOCK FALSE
