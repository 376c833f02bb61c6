SPECIFICATION Spec
CONSTANTS
  Lines = {0, 12}
  BiosMasks <- MCBiosMasks
  MaxRaises = 1
INVARIANTS
  NeverWild
