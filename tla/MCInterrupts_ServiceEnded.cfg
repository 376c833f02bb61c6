SPECIFICATION Spec
CONSTANTS
  Lines = {0, 8, 12}
  BiosMasks <- MCBiosMasks
  MaxRaises = 1
INVARIANTS
  ServiceEnded
