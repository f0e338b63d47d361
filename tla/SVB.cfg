CONSTANTS
  w1 = w1
  w2 = w2
  w3 = w3
  Words <- ThreeWords
  Measurements = 6
SPECIFICATION Spec
INVARIANTS IInv NewIsNewer
PROPERTY RegisterImplemented
