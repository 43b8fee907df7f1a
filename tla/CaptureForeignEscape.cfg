SPECIFICATION Spec
CONSTANTS
  desk = desk
  p1 = p1
  lctrl = lctrl
  alt = alt
  del = del
  a = a
  Boards = {desk, p1}
  Desks = {desk}
  Panels = {p1}
  Driver = driver
  Keys = {lctrl, a}
  LeftKey = lctrl
  RightKey = rctrl
  CtrlKeys = {lctrl}
  AltKeys = {alt}
  DelKeys = {del}
  Threshold = 1
  TakenKeys <- MCTaken
  Orders <- AllBoards
  Capacity = 9
  MayBlock = FALSE
  MayFail = FALSE
  MaxStrokes = 4
  MaxOrders = 1
PROPERTIES EscapeFreesEveryBoard
CHECK_DEADLOCK FALSE
