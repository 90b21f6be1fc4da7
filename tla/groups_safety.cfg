SPECIFICATION Spec
CONSTANTS
  Undefined = Undefined
  Null = Null
  IllTyped = IllTyped
  Thrown = Thrown
  Json <- Values
  PathIds <- Paths
  Filters <- IdFilters
  Absent = Absent
  NoRequest = NoRequest
  NoAnswer = NoAnswer
  NoBody = NoBody
  NoRow = NoRow
  GroupIds = {g1, g2}
  MemberIds = {"u1","u2"}
  UserIds = {"u1","u2"}
  Requests = {r1, r2}
  GroupDtos <- OpsOnly
  PatchBodies <- Patches
SYMMETRY Interchangeable
INVARIANTS TypeOK NoDanglingMembers UniqueDisplayNames
PROPERTIES DeletedGroupsStayDeleted MembershipChangesOnlyOnRequest PutsAreDelivered WipesAreWhole
