SPECIFICATION Spec
CONSTANTS
  Undefined = Undefined
  Null = Null
  IllTyped = IllTyped
  Thrown = Thrown
  Json <- Values
  MemberIds <- Users
  PathIds <- Paths
  Filters <- IdFilters
  UserOperations <- UserOps
  GroupOperations <- GroupOps
  Rows <- OneRow
  MaxOperations = 3
INVARIANTS
  FieldsTypeOK ThrowsOnlyOnNulls LastOperationWins SplittingIsHarmless
  MembersAsIfOneByOne OthersStayMembers ThrowsOnlyOnNullOrNoList LastDisplayName
CHECK_DEADLOCK FALSE
