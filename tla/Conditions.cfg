SPECIFICATION CallSpec
CONSTANTS
  Malformed = Malformed
  NaN = NaN
  Text <- ThreeTexts
  Number <- TwoNumbers
  MaxValues = 3
CHECK_DEADLOCK FALSE
INVARIANTS
  CallTypeOK
  ScanMeansResult
  OrderAgreesWithEquality
