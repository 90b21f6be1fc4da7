SPECIFICATION Spec
CONSTANTS
  Rows = {a, b, c, d}
  PageSize = 2
  MaxClock = 2
  NaN = NaN
  Fraction = Fraction
  Numbers <- PageNumbers
  LookupNumbers <- FewNumbers
SYMMETRY Interchangeable
INVARIANTS TypeOK PagesFit SkipsHaveACause RepeatsHaveACause
PROPERTIES LookupsAreExact
CHECK_DEADLOCK FALSE
