SPECIFICATION FairSpec
CONSTANTS
  stt = stt
  embed = embed
  frames = frames
  ocr = ocr
  c1 = c1
  c2 = c2
  c3 = c3
  c4 = c4
  c5 = c5
  NoSlot = NoSlot
  NoCaller = NoCaller
  Slots <- FourModels
  Gpu <- GpuModels
  Resident <- OneResident
  Callers <- FiveCallers
  Task <- Asked
  MaxQueue = 1
  HooksFail = TRUE
INVARIANTS TypeOK CardIsOurs LeaseEndsWithModels SerialGpu NobodyStranded
PROPERTIES ResidentStays EveryCallerAnswered StopEnds LeaseComesBack
CHECK_DEADLOCK FALSE
