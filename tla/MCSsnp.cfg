\* Every text of up to five symbols, every request of client.cpp, every cut.
CONSTANTS
  MaxText = 5
  Digits <- MCDigits
  Numbers <- MCNumbers
  Timestamps <- MCTimestamps
SPECIFICATION Spec
INVARIANTS
  AcceptsGrammar
  NoPartialRequest
  RoundTrip
