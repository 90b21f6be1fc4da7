SPECIFICATION FairSpec
CONSTANTS
  Undefined = Undefined
  Null = Null
  IllTyped = IllTyped
  Thrown = Thrown
  Json <- Values
  PathIds <- Paths
  Filters <- IdFilters
  Absent = Absent
  NoRequest = NoRequest
  NoAnswer = NoAnswer
  NoBody = NoBody
  NoRow = NoRow
  GroupIds = {g1}
  MemberIds = {"u1"}
  UserIds = {"u1"}
  Requests = {r1, r2}
  GroupDtos <- AlsoNullMember
  PatchBodies <- OddPatches
PROPERTIES EveryRequestEnds
