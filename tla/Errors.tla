------------------------------- MODULE Errors -------------------------------
(***************************************************************************)
(* The errors of the engine and what becomes of them at the HTTP boundary  *)
(* (src/error.rs).  Messages are left out; kinds, statuses and the         *)
(* Retry-After header are kept.                                            *)
(***************************************************************************)
EXTENDS Naturals

EngineErrors ==
  {"ModelNotFound", "ModelLoadFailed", "InferenceFailed", "ContextLengthExceeded", "Timeout",
   "Network", "UpstreamServerError", "RateLimited", "AllBackendsFailed", "BackendPoisoned",
   "BackendDraining", "ModelUnavailable", "BackendBusy", "NotImplemented"}

\* is_retryable: whether a route goes on to its next target.
Retryable(e) == e \in {"Timeout", "Network", "UpstreamServerError", "RateLimited", "ModelUnavailable"}

ApiErrors == {"BadRequest", "ModelNotFound", "Internal", "BadGateway", "ServiceUnavailable"}

\* impl From<EngineError> for ApiError.
ApiError(e) ==
  CASE e = "ModelNotFound"         -> "ModelNotFound"
    [] e = "ContextLengthExceeded" -> "BadRequest"
    [] e \in {"Timeout", "Network", "UpstreamServerError", "RateLimited", "AllBackendsFailed"} -> "BadGateway"
    [] e \in {"BackendPoisoned", "BackendDraining", "ModelUnavailable", "BackendBusy"} -> "ServiceUnavailable"
    [] OTHER                       -> "Internal"

\* retry_after_secs; 0 stands for no header.
RetryAfter(e) == CASE e = "ModelUnavailable" -> 5 [] e = "BackendBusy" -> 1 [] OTHER -> 0

\* impl IntoResponse for ApiError.
StatusOf(a) ==
  CASE a = "BadRequest"         -> 400
    [] a = "ModelNotFound"      -> 404
    [] a = "Internal"           -> 500
    [] a = "BadGateway"         -> 502
    [] a = "ServiceUnavailable" -> 503

Response(status, retryAfter) == [status |-> status, retry |-> retryAfter]

ErrorResponse(e) == Response(StatusOf(ApiError(e)), RetryAfter(e))

=============================================================================
