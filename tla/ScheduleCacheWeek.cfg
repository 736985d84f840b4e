CONSTANTS
  r1 = r1
  r2 = r2
  Requests = {r1}
  Endpoints <- WeekEndpoints
  Edited = {"raspzv", "GetRaspGrWeek"}
  Lasting <- None
  Arguments <- AllArguments
  Numerals = {"0", "17"}
  TtlShort = 1
  TtlLong = 1
  MaxRequest = 1
  MaxVersion = 1
  Horizon = 3
SPECIFICATION FairSpec
INVARIANTS
  BoundedStaleness
  NullIsFresh
  NothingPartial
  BoundedSkew
PROPERTY
  EveryRequestEnds
