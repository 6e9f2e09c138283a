\* iclk less than twice as fast as oclk (clk_20 into clk_100), any user of the i side.
SPECIFICATION Spec
CONSTANTS
  Data = {0, 1, 2}
  Zero = 0
  IMin = 0
  IMax = 2
  EagerPush = FALSE
INVARIANT XingInv
PROPERTY EachWordOnce
PROPERTY StableOnEvent
