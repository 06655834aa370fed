CONSTANTS
  event = event
  and = and
  end = end
  s1 = s1
  s2 = s2
  s3 = s3
  s4 = s4
  s5 = s5
  s6 = s6
  Content = {event, and, end, s1, s2, s3, s4, s5, s6}
  Hash <- MCHash
  TagMethods <- MCTagMethods
  Keywords <- MCKeywords
  MINSTRTABSIZE = 1
  MAX_INT = 14
SPECIFICATION Spec
INVARIANTS
  TypeOK
  ChainsExact
  NoTwins
  KeywordsMarked
PROPERTIES
  ImplementsInterning
