\* clk_100 into clk_20 again, asked what the comment in vector_xing.sv says.
SPECIFICATION Spec
CONSTANTS
  Data = {0, 1, 2}
  Zero = 0
  IMin = 5
  IMax = 6
  EagerPush = TRUE
PROPERTY StableOnEvent
