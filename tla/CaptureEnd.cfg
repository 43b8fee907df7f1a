SPECIFICATION FairSpec
CONSTANTS
  desk = desk
  p1 = p1
  lctrl = lctrl
  alt = alt
  del = del
  a = a
  Boards = {desk, p1}
  Desks = {desk}
  Panels = {p1}
  Driver = driver
  Keys = {a}
  LeftKey = lctrl
  RightKey = rctrl
  CtrlKeys = {lctrl}
  AltKeys = {alt}
  DelKeys = {del}
  Threshold = 1
  TakenKeys <- MCTaken
  Orders <- AllBoards
  Capacity = 1
  MayBlock = TRUE
  MayFail = TRUE
  MaxStrokes = 3
  MaxOrders = 1
INVARIANTS ReasonsAreKept WatchdogGuards PanelsLetGo
PROPERTIES OneEndsAll
CHECK_DEADLOCK FALSE
