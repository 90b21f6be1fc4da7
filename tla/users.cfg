SPECIFICATION FairSpec
CONSTANTS
  Undefined = Undefined
  Null = Null
  IllTyped = IllTyped
  Thrown = Thrown
  Json <- Values
  Absent = Absent
  NoRequest = NoRequest
  NoAnswer = NoAnswer
  NoBody = NoBody
  UserIds = {u1, u2}
  Requests = {r1, r2}
  UserDtos <- Dtos
  PatchBodies <- FewPatches
  GroupRequests = TRUE
INVARIANTS TypeOK UniqueUserNames LostRacesAreClientErrors
PROPERTIES NoResurrection ColumnsChangeOnlyIfMentioned CredentialsChangeOnlyByPut AtomicSpec EveryRequestEnds
