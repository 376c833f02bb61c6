SPECIFICATION Spec
CONSTANTS
  Images <- MCImages
  Unread = Unread
  MaxFails1 = 4
  MaxFails2 = 1
INVARIANTS
  TypeOK
  Stage2Complete
  TwoFailuresSurvived
  
  NoWrongTurn
PROPERTIES
  LoaderKept
  Boots
