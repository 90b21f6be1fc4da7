------------------------------ MODULE ScimErrors ------------------------------
(***************************************************************************)
(* The mapping of exceptions to SCIM error answers: ScimExceptionFilter,   *)
(* src/scim/common/scim-exception.filter.ts.  An exception is named by its *)
(* class, or by its Prisma code when it is a PrismaClientKnownRequestError.*)
(* The wording of "detail" is left out.                                    *)
(***************************************************************************)
EXTENDS Naturals

(* The exceptions of Nest that the guard, the pipe and the services throw. *)
HttpExceptions == [BadRequestException   |-> 400,
                   UnauthorizedException |-> 401,
                   NotFoundException     |-> 404,
                   ConflictException     |-> 409]

(* The Prisma codes the filter knows; every other one is "unmapped". *)
PrismaErrors == [P2002 |-> [status |-> 409, scimType |-> "uniqueness"],
                 P2025 |-> [status |-> 404, scimType |-> "none"],
                 P2023 |-> [status |-> 404, scimType |-> "none"],
                 P2003 |-> [status |-> 400, scimType |-> "invalidValue"]]

(* What else reaches the filter: a known Prisma error without a case (a    *)
(* deadlock or write conflict), the client's own argument check, a result  *)
(* it cannot put together, and a TypeError of the handler.                 *)
OtherExceptions == {"P2034", "PrismaClientValidationError",
                    "PrismaClientUnknownRequestError", "TypeError"}

Exceptions == DOMAIN HttpExceptions \cup DOMAIN PrismaErrors \cup OtherExceptions

InternalServerError == [status |-> 500, scimType |-> "none"]

(* Variant: only HttpExceptions are told apart.                            *)
ToScimErrorOfHttpOnly(e) ==
  IF e \in DOMAIN HttpExceptions
  THEN [status |-> HttpExceptions[e], scimType |-> "none"]
  ELSE InternalServerError

ToScimError(e) ==
  IF e \in DOMAIN HttpExceptions
  THEN [status   |-> HttpExceptions[e],
        scimType |-> IF HttpExceptions[e] = 409 THEN "uniqueness" ELSE "none"]
  ELSE IF e \in DOMAIN PrismaErrors
  THEN PrismaErrors[e]
  ELSE InternalServerError
===============================================================================
