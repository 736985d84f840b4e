CONSTANTS
  r1 = r1
  r2 = r2
  Requests = {r1}
  Endpoints <- PageEndpoints
  Edited = {"raspzv"}
  Lasting <- None
  Arguments <- AllArguments
  Numerals = {"0", "17"}
  TtlShort = 1
  TtlLong = 1
  MaxRequest = 1
  MaxVersion = 1
  Horizon = 2
SPECIFICATION Spec
INVARIANTS
  FreshUnlessFlagged
  NullIsFresh
PROPERTY ServiceKeepsContract
