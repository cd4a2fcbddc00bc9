CONSTANTS
  Word <- MCWord
  Lower <- MCLower
  Size <- MCSize
  Chop <- MCChop
  Env <- MCNoLogEnv
  ExeDir <- MCExeDir
  Spoiled = {}
  LocalPath <- MCLocalPath
  Url <- MCUrl
  Remote <- MCRemote
  OldIni <- MCOldIni
  ExampleIni <- MCExampleIni
  Target <- MCTarget
  Present <- MCPresent
  Executable <- MCExecutable
  BadRegex <- MCBadRegex
  PageBase = 100
  Proc = {p1}
  Request <- MCAllCalls
  Fault <- MCLoudFaults
  Killable = {p1}
SPECIFICATION Spec
INVARIANTS
  TypeOK
  LaunchedAsConfigured
  TextOnDisk
  ErrorsAreShown
PROPERTIES
  IsInvocation
