\* A response of which the client's recv() gets a beginning only.
CONSTANTS
  MaxText = 0
  Digits <- MCDigits
  Numbers <- MCNumbers
  Timestamps <- MCTimestamps
SPECIFICATION Spec
INVARIANT SuffixRemoved
