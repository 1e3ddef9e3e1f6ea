SPECIFICATION FairSpec
CONSTANTS
  Unparsable = Unparsable
  Rejected = Rejected
  Nil = Nil
  Dirs <- MCDirs
  BadPatterns <- MCBadPatterns
  Referring <- MCReferring
  Rooted <- MCRooted
  Contents <- TwoContents
  Document <- MCDocument
  Size <- MCSize
  SubList <- OneSub
  MaxEdits = 2
  MaxSignals = 0
  EarlyEdits = TRUE
PROPERTY Converges
