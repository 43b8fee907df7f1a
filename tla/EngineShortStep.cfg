SPECIFICATION FairSpec
CONSTANTS
  Keys = {"a"}
  MouseKeys = {}
  Buttons <- MCButtons
  Opposed <- MCOpposed
  Axes = {"x"}
  Values <- MCValues
  Entries <- MacroEntries
  Chords = {}
  ChordDef <- None
  Macros = {"z"}
  MacroDef <- ZeroMacros
  Turbo = {}
  TurboMs <- None
  Lossy = FALSE
  LastInput = 1
  MaxTime = 3
  MaxLate = 1
CHECK_DEADLOCK FALSE
PROPERTIES TickReturns
