CONSTANTS
  p1 = p1
  p2 = p2
  p3 = p3
  Proc = {p1, p2, p3}
  Old <- MCOld
  Lines <- MCLines
  Chatter <- MCChatter
  LogLength = 22
  Slack = 4
  Block = 5
  Killable = {p2}
SPECIFICATION FairSpec
INVARIANTS
  TypeOK
  KeptIsNewest
  FitsAfterwards
PROPERTIES
  SearchEnds
  SearchAdvances
  IsSharedLog
