SPECIFICATION Spec
CONSTANTS
  Exchanges = {x1, x2}
  Polls = {p1, p2}
  Cap = 2
  MaxRestarts = 1
PROPERTIES UntouchedIfNothingNew
