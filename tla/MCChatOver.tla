----------------------------- MODULE MCChatOver -----------------------------
(* ChatOver with one representative of each class of provider error. *)
EXTENDS ChatOver

\* The adapters of gravity-providers build new(Other, ..) with or without a
\* status; a usage cap and a Retry-After window come from other Providers.
AdapterErrors ==
    {new("Other", FALSE), new("RateLimit", TRUE),
     with_retry_after(with_status(new("Other", FALSE), 429), 60)}
    \cup {with_status(new("Other", FALSE), s) : s \in {401, 404, 429, 500}}
=============================================================================
