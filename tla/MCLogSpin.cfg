CONSTANTS
  p1 = p1
  p2 = p2
  p3 = p3
  Proc = {p1, p2, p3}
  Old <- MCWhole
  Lines <- MCLongLines
  Chatter <- MCChatter
  LogLength = 22
  Slack = 4
  Block = 5
  Killable = {}
SPECIFICATION FairSpec
PROPERTY TooLongIsShortened
