SPECIFICATION SequentialSpec
CONSTANTS
  Pages = {0, 256, 257}
  Bits = {0, 8}
  AddressSpace = 65536
  VarMtrrs <- MCVarMtrrs
  Fixed <- MCFixed
  DefaultTypes = {"UC", "WP"}
  PagingTypes = {"NORM", "PAE", "LONG", "EPT"}
  Frames <- MCAddresses
  HighNorm = FALSE
  PaeTopRWX = TRUE
  UnusedLo = {0}
INVARIANTS
  VariableType
  HaltOnConflict
  FieldsKept
PROPERTIES
  OptionsRight
  CopyRight
  BuildRight
CHECK_DEADLOCK FALSE
