SPECIFICATION SpecBoth
CONSTANTS
  Vols <- MCVols
  DirArgs <- MCDirArgs
  Reals <- MCReals
  FileArgs <- MCFileArgs
  LnameArgs <- MCLnameArgs
  DotStems = {4}
  DotDotStems = {5}
  MaxLines = 7
  BytesPerSec = 32
  SecPerClus = 2
  RealSlots <- MCRealSlots
  NoFile = NoFile
  EndOfChain = EndOfChain
  ReaderClusters = 7
  FatSectors = 24
INVARIANT LastFragmentMarked
