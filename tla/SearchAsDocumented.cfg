SPECIFICATION SiteSpec
CONSTANTS
  Urls <- MCUrls
  Files <- MCFiles
  Docs <- MCDocs
  Slugs <- MCSlugs
  AssetExts = {"js", "svg", "png", "jpg", "jpeg", "webp", "woff", "woff2", "ico"}
  Books <- MCBooks
  Texts <- MCEdits
  Terms = {"t1", "t2"}
  Sources = {"k1", "k2"}
  MaxEdits = 1
  MaxReleases = 2
  MaxTroubles = 1
  MaxLength = 5
  Pause = 2
  Drain = 4
  Grace = 12
  Lag = 1
  None = None
INVARIANT
  SearchMirrorsBuild
CHECK_DEADLOCK FALSE
