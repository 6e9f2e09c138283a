\* Pointers as fifo_counter_half.sv:84 declares them, asked what its header promises.
SPECIFICATION Spec
CONSTANTS
  Depth = 2
  WithTopBit = FALSE
  Data = {0, 1}
  Zero = 0
PROPERTY QueueUntilError
