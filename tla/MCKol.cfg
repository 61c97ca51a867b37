SPECIFICATION Spec
CONSTANTS
  Tweets = {"t1", "t2", "t3", "t4"}
  Unwanted = {"t3"}
  Pages <- MCPages
  Cursors = {"c1", "c2"}
  SliceModes = {"month"}
  Slices = {"march", "april", "monday", "m1", "m2", "a1"}
  SlicesOf <- MCSlices
  WeeksOf <- MCWeeks
  MaxPages = 3
  Caps = {0, 2}
  Users = {"u1", "u2", "u3"}
  Workers = 2
  MostPages = 1
  MaxRetries = 2
  Interval = 2
  MaxJitter = 1
  LongBackoff = 1
  Handles = {"a", "b", "c"}
  Domains = {"Crypto", "Other"}
  Rows <- MCRows
  MaxRows = 3
  MaxCalls = 2
  MinScore = 6
  Verdicts <- MCVerdicts
  Wanted = "Crypto"
  MinSignals = 1
  Limits <- MCLimits
  RerankScores = {0, 9000}
  Replies <- MCReplies
  Template <- MCTemplate
  FallbackQueries <- MCFallback
  QueryCount = 2
  Retries = 2
  MinQuality = 8
  PagesPerQuery = 2
  Found = {"f1", "f2", "f3"}
  AuthorOf <- MCAuthorOf
  NextCursors = {"n1", "n2"}
CHECK_DEADLOCK FALSE
INVARIANTS
  FetchComplete
  FetchAccounts
  ScreeningAddsUp
  AuthorsCounted
PROPERTIES
  FetchEnds
