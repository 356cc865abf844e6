SPECIFICATION Spec
CONSTANTS
  Ids = {i1, i2, i3, i4, i5}
  Addresses = {a1, a2, a3, a4}
  NoAddress = NoAddress
  NoRow = NoRow
  Requests = {r1, r2}
  Limit = 2
SYMMETRY Symmetry
INVARIANTS TypeOK PrimariesBounded LimitBounded PrimaryKept
PROPERTY LastStays
