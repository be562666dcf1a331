SPECIFICATION FairSpec
CONSTANTS
  Nothing = Nothing
  Broken = Broken
  Modes = {"whole", "steady"}
  LoadSwaps = FALSE
  SwappedOut = {"elements", "nodeStyles"}
  MaxVersion = 2
  MaxFails = 1
INVARIANTS AcceptedIsOneDocument StaleSound
PROPERTIES RejectedStaysOut TimedSavesFinish
