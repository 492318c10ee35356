SPECIFICATION Spec
CONSTANTS
  Primes <- SomePrimes
  Limit = 4
  MaxRoot = 10
  Bytes <- EdgeBytes
  MaxBytes = 3
  Letters = {1, 2}
  IdLength = 3
INVARIANT RootGenerates
INVARIANT FreeTimeAgrees
INVARIANT IvRead
INVARIANT RoomsDistinct
CHECK_DEADLOCK FALSE
