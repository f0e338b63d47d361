SPECIFICATION Spec
CONSTANTS
  Modulus = 2
  Mishaps = 4
INVARIANTS TypeOK HeldEntryUntouched CallsConserved
PROPERTIES NoOlderValues ValuesGetSent
