SPECIFICATION Spec
CONSTANTS
  Pages = {0, 1, 15, 16, 17, 127, 128, 192, 193, 255}
  Bits = {0, 8}
  AddressSpace = 65536
  VarMtrrs <- NoVarMtrrs
  Fixed <- MCFixed
  DefaultTypes = {"UC", "WP"}
INVARIANTS
  FixedType
CHECK_DEADLOCK FALSE
