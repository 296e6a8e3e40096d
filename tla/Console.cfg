SPECIFICATION FairSpec
CONSTANTS
  a = a
  all = all
  frame = frame
  empty = empty
  Texts <- MCTexts
  Types <- MCTypes
  All = all
  NoText = empty
  MaxActs = 3
  MaxMishaps = 1
INVARIANTS
  TypeOK
  ScreenAnswersUrl
  PaneAnswersUrl
  BusyIsBacked
PROPERTIES
  DroppedIsPickedUp
CHECK_DEADLOCK FALSE
