SPECIFICATION Spec
CONSTANTS
  Name = {a, b, c, d}
  a = a
  b = b
  c = c
  d = d
  Network = {mapped, other}
  mapped = mapped
  other = other
  HostMax = 4
  max = 3
  MaxQuestions = 4
  null = null
SYMMETRY Symmetry
INVARIANT CacheExact
INVARIANT MappingHolds
