SPECIFICATION FairSpec
CONSTANTS
  h1 = h1
  o1 = o1
  o2 = o2
  t1 = t1
  t2 = t2
  Handlers = {h1}
  Prefix <- AtQ
  Origins = {o1, o2}
  Origin <- FirstOrigin
  Uris <- UrisBelowQ
  Redirect <- ToOtherHost
  Threads = {t1, t2}
  Codes = {200, 404}
  CacheControl <- NotX
  Revalidation = {"max-age"}
  TagHeader = "ETag"
  MaxAge = 1
  Unreliable = TRUE
  Malformed = FALSE
  MaxDepth = 3
  MaxClock = 1
  MaxVersion <- NoVersion
  MaxRequests = 3
INVARIANTS RepliesRight
PROPERTIES RequestsReturn
CHECK_DEADLOCK FALSE
