SPECIFICATION Spec
CONSTANTS
  Undefined = Undefined
  Null = Null
  IllTyped = IllTyped
  Thrown = Thrown
  Json <- Values
  PathIds <- Paths
  Filters <- IdFilters
  Absent = Absent
  NoRequest = NoRequest
  NoAnswer = NoAnswer
  NoBody = NoBody
  NoRow = NoRow
  GroupIds = {g1}
  MemberIds = {"u1","u2"}
  UserIds = {"u1","u2"}
  Requests = {r1, r2}
  GroupDtos <- OpsOnly
  PatchBodies <- NoPatches
INVARIANTS ReadsAreNot500
