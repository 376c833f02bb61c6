SPECIFICATION Spec
CONSTANTS
  Lines = {0, 6, 12, 15}
  BiosMasks <- MCBiosMasks
  MaxRaises = 2
INVARIANTS
  TypeOK
  HandlerOfItsLine
  NoNesting
  ServiceEnded
  NeverHeldBack
PROPERTIES
  EveryRequestServed
