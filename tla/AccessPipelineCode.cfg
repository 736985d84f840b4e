CONSTANTS
  r1 = r1
  r2 = r2
  read = read
  nolimit = nolimit
  Requests = {r1, r2}
  Handlers <- SomeHandlers
  Tokens = {"token"}
  Scopes = {read, nolimit}
  NoLimit = nolimit
  None = None
  MaxRegrants = 1
SPECIFICATION Spec
INVARIANT AnyCodeIsAnswered
