SPECIFICATION Spec
CONSTANTS
  Keys = {"a", "b", "c", "d", "s"}
  MouseKeys = {"s"}
  Buttons <- MCButtons
  Opposed <- MCOpposed
  Axes = {"x"}
  Values <- MCValues
  Entries <- ChordEntries
  Chords = {"ab", "abc", "bd"}
  ChordDef <- ChordChords
  Macros = {"hp"}
  MacroDef <- TurboMacros
  Turbo <- TurboRows
  TurboMs <- TurboRate
  Lossy = FALSE
  LastInput = 1
  MaxTime = 3
  MaxLate = 1
CHECK_DEADLOCK FALSE
INVARIANTS PadTruth HeldIsLive ChordPriority TimersMatchRuns
