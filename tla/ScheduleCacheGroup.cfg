CONSTANTS
  r1 = r1
  r2 = r2
  Requests = {r1, r2}
  Endpoints <- GroupEndpoints
  Edited = {"raspzv", "examen"}
  Lasting <- None
  Arguments <- AllArguments
  Numerals = {"0", "17"}
  TtlShort = 1
  TtlLong = 2
  MaxRequest = 1
  MaxVersion = 1
  Horizon = 3
SPECIFICATION Spec
SYMMETRY RequestSymmetry
INVARIANTS
  TypeOK
  BoundedStaleness
  FreshUnlessFlagged
  NullIsFresh
  NothingPartial
  BoundedSkew
