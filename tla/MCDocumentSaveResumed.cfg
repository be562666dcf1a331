SPECIFICATION Spec
CONSTANTS
  Nothing = Nothing
  Broken = Broken
  Modes = {"timed"}
  LoadSwaps = FALSE
  SwappedOut = {"elements", "nodeStyles"}
  MaxVersion = 3
  MaxFails = 0
INVARIANT AcceptedIsOneDocument
