SPECIFICATION TextSpec
CONSTANTS
  Uri <- MCUri
  Decoded <- MCDecoded
  Garbage <- MCGarbage
  MaxParts = 2
  UriParts <- MCUriParts
  QueryPairs <- MCQueryPairs
  Word <- MCWord
  Lower <- MCLower
  Size <- MCSize
  Env <- MCEnv
  ExeDir <- MCExeDir
  Spoiled <- MCSpoiled
  Strings <- MCStrings
  Parameters <- MCParams
  BLOCKSIZE = 12
  PointerSize = 2
  Templates <- MCTemplates
  Blanks <- MCBlanks
  Character <- MCCharacter
  Expressions <- MCExpressions
  Replacements <- MCReplacements
  Byte <- MCByte
  Xor <- MCXor
  Magic <- MCMagic
  Key <- MCKey
  Original <- MCOriginal
  Glyph <- MCGlyph
  Commands <- MCCommands
  Chop <- MCChop
  Input <- MCInput
  Wanted = "sec"
  MaxLines = 4
INVARIANTS
  PartsAreMeant NamesAreMeant UriErrors CopiesFit
  ExpandsAsDefined AlwaysRoom
  SplitsAsWritten WritesFit
  ReadsBack
  ProgramIsFirst UnquotesOnce
  ReaderTypeOK ConfigAgrees ErrorAgrees ContextAgrees
CHECK_DEADLOCK FALSE
