CONSTANTS
  t1 = t1
  t2 = t2
  Texts <- MCTexts
  BadText = BadText
  Numbers <- MCNumbers
  MaxSaid = 2
  NoQuery = NoQuery
SYMMETRY Alike
SPECIFICATION Spec
INVARIANTS TypeOK MeansWhatWasSaid AskedWhatWasSaid
CHECK_DEADLOCK FALSE
