SPECIFICATION Spec
CONSTANTS
  Undefined = Undefined
  Null = Null
  IllTyped = IllTyped
  Thrown = Thrown
  Json <- Values
  Absent = Absent
  NoRequest = NoRequest
  NoAnswer = NoAnswer
  NoBody = NoBody
  UserIds = {u1}
  Requests = {r1}
  UserDtos <- Dtos
  PatchBodies <- IllTypedPatch
  GroupRequests = FALSE
INVARIANTS PrismaErrorsAreNot500
