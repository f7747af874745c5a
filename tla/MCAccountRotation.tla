------------------------- MODULE MCAccountRotation --------------------------
(* AccountRotation with one representative of each class of provider error. *)
EXTENDS AccountRotation

\* What claude_error, http_error and their like build, and the Retry-After
\* window a Provider may attach.
AdapterErrors ==
    {with_retry_after(with_status(new("Other", FALSE), 429), 1)}
    \cup {with_status(new("Other", FALSE), s) : s \in {401, 429, 500}}

SmallErrors == {with_status(new("Other", FALSE), s) : s \in {429, 500}}
=============================================================================
