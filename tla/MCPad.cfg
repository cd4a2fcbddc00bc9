CONSTANTS
  Word <- MCWord
  Lower <- MCLower
  Size <- MCSize
  Chop <- MCChop
  Env <- MCEnv
  ExeDir <- MCExeDir
  Spoiled = {}
  LocalPath <- MCLocalPath
  Url <- MCUrl
  Remote <- MCRemote
  OldIni <- MCOldIni
  ExampleIni <- MCExampleIni
  Target <- MCTarget
  Present <- MCPresent
  Executable <- MCExecutable
  BadRegex <- MCBadRegex
  PageBase = 100
  Proc = {p1}
  Request <- MCParamCalls
  Fault = {}
  Killable = {}
SPECIFICATION Spec
INVARIANTS
  PadsAsDocumented
