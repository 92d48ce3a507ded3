\* Two renderers sharing the disk, text and binary responses, up to symmetry;
\* dates from a leap year before the epoch to past the century without one;
\* one fetch at a time beside the scripts of two documents.
SPECIFICATION NetSpec
CONSTANTS
  Renderers = {r1, r2}
  Texts = {TRUE, FALSE}
  Storables = {TRUE, FALSE}
  Lifetimes = {0, 2}
  Failures = {TRUE, FALSE}
  MaxVersion = 2
  MaxTime = 3
  FirstYear = 1967
  LastYear = 2104
  Fetchers = {f1}
  Hosts <- MCHosts
  SiteDomain <- MCSiteDomain
  Parents <- MCParents
  Urls <- MCUrls
  Documents <- MCDocuments
  Batches <- MCBatches
  SetCookies <- MCSetCookies
  MaxRedirects = 1
  MaxWrites = 2
  MaxClock = 2
SYMMETRY RendererSymmetry
INVARIANTS
  CacheInv
  CivilExact
  ClientInv
PROPERTIES
  ReplacedStaysGone
CHECK_DEADLOCK FALSE
