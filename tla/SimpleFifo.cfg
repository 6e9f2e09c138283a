\* Pointers with the extra bit, words that can be told apart.
SPECIFICATION Spec
CONSTANTS
  Depth = 2
  WithTopBit = TRUE
  Data = {0, 1}
  Zero = 0
INVARIANT FifoInv
INVARIANT CountsArePromises
PROPERTY WordsBecomeVisible
PROPERTY SpaceBecomesVisible
PROPERTY QueueUntilError
