\* The timing of the device tree: 40 ns between phases are 3 to 5 edges, and 60 ns from
\* the first edge of a read to the sampling are at least 5.
SPECIFICATION Spec
CONSTANTS
  Registers = {id, color}
  ID_REG = id
  Window = window
  Data = {zero, one}
  Zero = zero
  PhaseGap = 3
  ReadGap = 5
  ResetAgain = FALSE
INVARIANT TypeOK
INVARIANT RequestsAreTheWrites
INVARIANT ReadsSeeTheirRegister
PROPERTY WritesArrive
