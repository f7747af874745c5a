----------------------------- MODULE AuthRecords -----------------------------
(***************************************************************************)
(* The credentials of an account and what the code makes of them:          *)
(* resolve_secret and build_transient, the credential each adapter of      *)
(* gravity-providers presents, and the refresh of the five authenticators. *)
(*                                                                         *)
(* A credential is a number, 0 for none.  extra is the inline part of      *)
(* AuthConfig by field; stored is the record secret_ref points at, and     *)
(* literal a key written in secret_ref itself.  The refresh token comes    *)
(* with what kiro appends to it: tag is the method after the last bar.     *)
(***************************************************************************)
EXTENDS Integers, Sequences, FiniteSets

Fields == {"api_key", "token", "access_token", "session_key", "cookies"}
NoExtra == [f \in Fields |-> 0]
NoAuth == [kind |-> "api_key", extra |-> NoExtra, stored |-> 0, literal |-> 0,
           refresh |-> 0, tag |-> "none", method |-> "none", client |-> FALSE]

\* The fields resolve_secret tries, in its order, before the stored secret;
\* readable says whether the machine key decrypts that one.
InlineKeys == <<"api_key", "token", "access_token", "session_key">>
resolve_secret(auth, readable) ==
    LET set == {i \in DOMAIN InlineKeys : auth.extra[InlineKeys[i]] # 0}
    IN  IF set # {} THEN auth.extra[InlineKeys[CHOOSE i \in set : \A j \in set : i <= j]]
        ELSE IF readable THEN auth.stored ELSE 0

\* build_transient: the field depends on the kind.
build_transient(kind, secret) ==
    [NoAuth EXCEPT !.kind = kind,
                   !.extra = [@ EXCEPT ![IF kind \in {"session_cookie", "session"} THEN "session_key"
                                         ELSE "api_key"] = secret]]

\* The kind the bindings give a key their caller passes: parse_chat_request
\* and parse_discover_request.
ChatKind(p) == IF p \in {"claude", "chatgpt"} THEN "session_cookie" ELSE "api_key"
DiscoveryKind(p, secret) ==
    CASE secret = 0 -> "anonymous"
      [] secret # 0 /\ p \in {"claude", "chatgpt", "gemini"} -> "session_cookie"
      [] OTHER -> "api_key"

\* anon_fallback: the account of the providers that take a caller without one.
AnonymousProviders == {"perplexity", "chatgpt", "glm"}
Anonymous == [NoAuth EXCEPT !.kind = "anonymous"]

\* The credential each adapter presents: what it puts in its header or cookie.
OpenaiPresents(auth, secret) == IF auth.kind = "anonymous" THEN 0 ELSE secret
AnthropicPresents(auth, secret) == secret
ClaudePresents(auth, secret) ==
    CASE secret # 0 -> secret
      [] secret = 0 /\ auth.extra.session_key # 0 -> auth.extra.session_key
      [] OTHER -> auth.literal
ChatgptPresents(auth, secret) == secret
GeminiPresents(auth, secret) == IF auth.extra.cookies # 0 THEN auth.extra.cookies ELSE secret
GlmPresents(auth, secret) == secret
CursorPresents(auth, secret) == secret
CodexPresents(auth, secret) == secret
GeminiCliPresents(auth, secret) == secret
AntigravityPresents(auth, secret) == secret
KiroPresents(auth, secret) == secret
WindsurfPresents(auth, secret) == secret
PerplexityPresents(auth, secret) == auth.extra.cookies

Presents(p, auth, secret) ==
    CASE p = "openai" -> OpenaiPresents(auth, secret)
      [] p = "anthropic" -> AnthropicPresents(auth, secret)
      [] p = "claude" -> ClaudePresents(auth, secret)
      [] p = "chatgpt" -> ChatgptPresents(auth, secret)
      [] p = "gemini" -> GeminiPresents(auth, secret)
      [] p = "glm" -> GlmPresents(auth, secret)
      [] p = "cursor" -> CursorPresents(auth, secret)
      [] p = "codex" -> CodexPresents(auth, secret)
      [] p = "gemini_cli" -> GeminiCliPresents(auth, secret)
      [] p = "antigravity" -> AntigravityPresents(auth, secret)
      [] p = "kiro" -> KiroPresents(auth, secret)
      [] p = "windsurf" -> WindsurfPresents(auth, secret)
      [] p = "perplexity" -> PerplexityPresents(auth, secret)

(***************************************************************************)
(* The refresh.  A grant is what the token endpoint answers: an access     *)
(* token and a refresh token, 0 when the answer has none.                  *)
(***************************************************************************)
Authenticators == {"cursor", "codex", "gemini_cli", "antigravity", "kiro"}

\* The adapters that are registered, those of the OpenAI shape as one.
builtin == Authenticators \cup {"openai", "anthropic", "claude", "chatgpt", "gemini", "glm",
                                "windsurf", "perplexity"}

\* decode_refresh_token and encode_refresh_token of kiro/auth.rs.
decode_refresh_token(tag) == IF tag \in {"idc", "social"} THEN tag ELSE "desktop"
encode_refresh_token(method, client) ==
    CASE method = "idc" /\ client -> "idc"
      [] method = "social" -> "social"
      [] OTHER -> "desktop"

\* The method the account is refreshed by, and the endpoint that is for it.
KiroMethod(auth) == IF auth.method # "none" THEN auth.method ELSE decode_refresh_token(auth.tag)
KiroEndpoint(auth) == IF KiroMethod(auth) = "idc" THEN "oidc" ELSE "desktop"

\* An idc refresh needs the client: from the token, or from extra.
KiroConfigured(auth) == KiroMethod(auth) = "idc" => auth.tag = "idc" \/ auth.client

Keep(new, old) == IF new # 0 THEN new ELSE old

KiroRefreshed(auth, grant) ==
    [auth EXCEPT !.extra = [@ EXCEPT !.access_token = grant.access, !.api_key = grant.access],
                 !.refresh = Keep(grant.refresh, @),
                 !.tag = encode_refresh_token(KiroMethod(auth), FALSE)]
CursorRefreshed(auth, grant) ==
    [auth EXCEPT !.extra = [@ EXCEPT !.api_key = grant.access], !.refresh = Keep(grant.refresh, @)]
CodexRefreshed(auth, grant) ==
    [auth EXCEPT !.extra = [@ EXCEPT !.api_key = grant.access], !.refresh = Keep(grant.refresh, @)]
GeminiCliRefreshed_FieldOnly(auth, grant) ==
    [auth EXCEPT !.extra = [@ EXCEPT !.access_token = grant.access], !.refresh = Keep(grant.refresh, @)]
GeminiCliRefreshed(auth, grant) ==
    [auth EXCEPT !.extra = [@ EXCEPT !.access_token = grant.access, !.api_key = grant.access],
                 !.refresh = Keep(grant.refresh, @)]
AntigravityRefreshed(auth, grant) ==
    [auth EXCEPT !.extra = [@ EXCEPT !.access_token = grant.access, !.api_key = grant.access],
                 !.refresh = Keep(grant.refresh, @)]

Refreshed(p, auth, grant) ==
    CASE p = "kiro" -> KiroRefreshed(auth, grant)
      [] p = "cursor" -> CursorRefreshed(auth, grant)
      [] p = "codex" -> CodexRefreshed(auth, grant)
      [] p = "gemini_cli" -> GeminiCliRefreshed(auth, grant)
      [] p = "antigravity" -> AntigravityRefreshed(auth, grant)

\* Cursor tries two domains with the same token, the others their one.
Domains(p) == IF p = "cursor" THEN 2 ELSE 1
Endpoint(p, auth) == IF p = "kiro" THEN KiroEndpoint(auth) ELSE "desktop"
Configured(p, auth) == auth.refresh # 0 /\ (p = "kiro" => KiroConfigured(auth))
=============================================================================
