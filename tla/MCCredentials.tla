---------------------------- MODULE MCCredentials ----------------------------
\* Instances of Credentials for TLC.
EXTENDS Credentials, TLC

Kiro == {"kiro"}
AllMethods == {"desktop", "social", "idc"}
Idc == {"idc"}
\* A key that a caller passes is the one the adapter presents, in a chat and in
\* a listing (transient.rs:56-60); perplexity's reads only cookies.
CallersKeyIsPresented ==
    \A p \in builtin \ {"perplexity"} : \A kind \in {ChatKind(p), DiscoveryKind(p, 1)} :
        Presents(p, build_transient(kind, 1), resolve_secret(build_transient(kind, 1), FALSE)) = 1
ASSUME CallersKeyIsPresented

Symmetry == Permutations(Chats)
=============================================================================
