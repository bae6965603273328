SPECIFICATION FairSpec
CONSTANTS
  r1 = r1
  r2 = r2
  o1 = o1
  o2 = o2
  i1 = i1
  i2 = i2
  Resources = {r1, r2}
  Small = {r1}
  OutOps = {o1, o2}
  InOps = {i1, i2}
  Forced = {o2}
  Scenarios <- Cases
  MaxTrouble = 1
INVARIANTS  NamesHonest
 
CHECK_DEADLOCK FALSE
