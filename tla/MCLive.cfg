CONSTANTS
  Word <- MCWord
  Lower <- MCLower
  Size <- MCSize
  Chop <- MCChop
  Env <- MCNoUserEnv
  ExeDir <- MCExeDir
  Spoiled = {}
  LocalPath <- MCSharedPath
  Url <- MCUrl
  Remote <- MCRemote
  OldIni <- MCOldIni
  ExampleIni <- MCExampleIni
  Target <- MCTarget
  Present <- MCPresent
  Executable <- MCExecutable
  BadRegex <- MCBadRegex
  PageBase = 100
  Proc = {p1, p2}
  Request <- MCLiveCalls
  Fault <- MCFlushFault
  Killable = {p1}
SPECIFICATION FairSpec
INVARIANTS
  OkMeansLaunched
  
PROPERTIES
  ComesToAnEnd
  NeverTurnsBack
  
