SPECIFICATION FairSpec
CONSTANTS
  Unparsable = Unparsable
  Rejected = Rejected
  Nil = Nil
  Dirs <- MCDirs
  BadPatterns <- MCBadPatterns
  Referring <- MCReferring
  Rooted <- MCRooted
  Contents <- MCContents
  Document <- MCDocument
  Size <- MCSize
  SubList <- TwoSubs
  MaxEdits = 3
  MaxSignals = 2
  EarlyEdits = FALSE
INVARIANTS TypeOK NewestDelivered StampMeansLoaded PublishedCompiles SleepsFit ListsAsWritten
PROPERTY Converges
