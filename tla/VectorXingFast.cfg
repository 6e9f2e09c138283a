\* clk_100 into clk_20, pushed whenever ready: the FIFO write pointer's crossing.
SPECIFICATION Spec
CONSTANTS
  Data = {0, 1, 2}
  Zero = 0
  IMin = 5
  IMax = 6
  EagerPush = TRUE
PROPERTY EventCrossesOnce
PROPERTY WordsInOrder
PROPERTY LastWordArrives
