CONSTANTS
  d1 = d1
  d2 = d2
  q1 = q1
  q2 = q2
  s1 = s1
  s2 = s2
  b1 = b1
  r1 = r1
  r2 = r2
  r3 = r3
  r4 = r4
  Owners <- MCOwners
  KindOf <- MCKindOf
  Resources <- MCResources
  Consumer = Consumer
  Null = Null
  Hollow = Hollow
  NoCall = NoCall
SYMMETRY Alike
SPECIFICATION Spec
INVARIANTS SoleHolder OnlyLiveIsTouched
PROPERTY KeepsPromise
CHECK_DEADLOCK FALSE
