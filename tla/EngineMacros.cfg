SPECIFICATION FairSpec
CONSTANTS
  Keys = {"a", "b", "c"}
  MouseKeys = {}
  Buttons <- MCButtons
  Opposed <- MCOpposed
  Axes = {"x"}
  Values <- MCValues
  Entries <- MacroEntries
  Chords = {}
  ChordDef <- None
  Macros = {"fb", "wh"}
  MacroDef <- MacroMacros
  Turbo = {}
  TurboMs <- None
  Lossy = TRUE
  LastInput = 2
  MaxTime = 12
  MaxLate = 1
CHECK_DEADLOCK FALSE
INVARIANTS LiveIsHeld NoDrift
PROPERTIES StepsAreSeen TickReturns RunsEnd
