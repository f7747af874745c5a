------------------------------- MODULE Errors -------------------------------
(***************************************************************************)
(* gravity-core/src/error.rs: the errors of a chat attempt and the         *)
(* classification that drives retry, failover and checkpoint handling.     *)
(***************************************************************************)
EXTENDS Integers

Kinds == {"RateLimit", "QuotaExceeded", "Authentication", "Server",
          "BadRequest", "Transient", "Other"}

None == -1

\* ProviderError. code is abstracted to cap: it is "usage_limit_reached" or
\* "quota_exceeded", the two codes the classification looks at.
ProviderErrorType == [tag : {"Provider"}, kind : Kinds, cap : BOOLEAN,
                      status : {None} \cup (100..599),
                      retry_after : {None} \cup Nat]

new(kind, cap) == [tag |-> "Provider", kind |-> kind, cap |-> cap,
                   status |-> None, retry_after |-> None]

KindOf(status) ==
    CASE status = 429          -> "RateLimit"
      [] status \in {401, 403} -> "Authentication"
      [] status \in 500..599   -> "Server"
      [] status \in (400..499) \ {401, 403, 429} -> "BadRequest"
      [] OTHER                 -> "Other"

with_status(e, status) ==
    [e EXCEPT !.status = status,
              !.kind = IF @ = "Other" THEN KindOf(status) ELSE @]

with_retry_after(e, after) == [e EXCEPT !.retry_after = after]

\* Error: the other variants are told apart only by Network failing over.
Plain(tag) == [tag |-> tag, kind |-> "Other", cap |-> FALSE,
               status |-> None, retry_after |-> None]
NetworkError == Plain("Network")
ValidationError == Plain("Validation")

is_transient_rate_limit(e) ==
    e.tag = "Provider" /\ e.kind = "RateLimit" /\ e.retry_after = None /\ ~e.cap

should_failover(e) ==
    \/ e.tag = "Network"
    \/ e.tag = "Provider" /\ e.kind \in {"RateLimit", "Server", "Transient",
                                         "QuotaExceeded", "Authentication"}

invalidates_checkpoint(e) == e.tag = "Provider" /\ e.status \in {401, 403, 404, 409}
=============================================================================
