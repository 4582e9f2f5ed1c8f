SPECIFICATION Spec
CONSTANTS
  h1 = h1
  o1 = o1
  o2 = o2
  t1 = t1
  t2 = t2
  Handlers = {h1}
  Prefix <- AtRoot
  Origins = {o1, o2}
  Origin <- FirstOrigin
  Uris <- UriA
  Redirect <- NoRedirect
  Threads = {t1}
  Codes = {200}
  CacheControl <- Sometimes
  Revalidation = {"max-age"}
  TagHeader = "ETag"
  MaxAge = 1
  Unreliable = FALSE
  Malformed = FALSE
  MaxDepth = 3
  MaxClock = 2
  MaxVersion <- OneVersion
  MaxRequests = 2
INVARIANTS CachedReplyFresh
CHECK_DEADLOCK FALSE
