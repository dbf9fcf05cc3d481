------------------------------ MODULE Problems ------------------------------
(***************************************************************************)
(* The status of the answer to a request that was refused or that failed:  *)
(* shared/errors.  Wording and the other members of a problem are left out. *)
(***************************************************************************)
EXTENDS Naturals

\* What the application throws on purpose.
AppError ==
    [ValidationError |-> 400, UnauthorizedError |-> 401, ForbiddenError |-> 403,
     NotFoundError |-> 404, ConflictError |-> 409, UnprocessableEntityError |-> 422,
     TooManyRequestsError |-> 429, ServiceUnavailableError |-> 503]

isMalformedJsonBody(error) == error = "entity.parse.failed"

isRedisUnavailable(error) ==
    error \in {"MaxRetriesPerRequestError", "Command timed out", "Connection is closed."}

\* Everything else, a constraint Postgres enforces included, is an internal error.
toProblemDetails(error) ==
    CASE error \in DOMAIN AppError  -> AppError[error]
      [] isMalformedJsonBody(error) -> AppError["ValidationError"]
      [] isRedisUnavailable(error)  -> AppError["ServiceUnavailableError"]
      [] OTHER                      -> 500
=============================================================================
