SPECIFICATION Spec
CONSTANTS
  stt = stt
  embed = embed
  frames = frames
  ocr = ocr
  c1 = c1
  c2 = c2
  c3 = c3
  c4 = c4
  c5 = c5
  NoSlot = NoSlot
  NoCaller = NoCaller
  Slots <- FourModels
  Gpu <- GpuModels
  Resident <- OneResident
  Callers <- FourCallers
  Task <- AskedByFour
  MaxQueue = 1
  HooksFail = FALSE
INVARIANT TenantComesBack
CHECK_DEADLOCK FALSE
