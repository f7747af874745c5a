-------------------------- MODULE CredentialsProofs --------------------------
(***************************************************************************)
(* What the credentials of an account keep for any number of chats, any    *)
(* set of the registered providers, and any number of lost answers, failed *)
(* saves and killed processes.                                             *)
(***************************************************************************)
EXTENDS Credentials, TLAPS

-----------------------------------------------------------------------------
(***************************************************************************)
(* The shape of the state.                                                 *)
(***************************************************************************)
Tags == {"none", "desktop", "social", "idc"}
Auth == [kind : {"api_key"}, extra : [Fields -> Nat], stored : Nat, literal : Nat,
         refresh : Nat, tag : Tags, method : Tags, client : BOOLEAN]
Positive == Nat \ {0}
Upstream == [valid : SUBSET Positive, access : Positive, refresh : Positive, rotates : BOOLEAN,
             home : {"desktop", "oidc"}]
Manager == [loaded : BOOLEAN, auth : Auth, encrypt : BOOLEAN, unsaved : BOOLEAN]
AccountsFile == [auth : Auth, key : Nat, torn : BOOLEAN]
KeyFile == [file : {"missing", "empty", "written"}, made : Nat]
Account == [provider : Providers, form : {"accounts", "emails"}, name : Providers \cup {"zlm", "glm"},
            secrets_encrypted : BOOLEAN]
Places == {"idle", "send", "refused", "refreshed", "saving", "keying", "sealing", "writing", "retry", "report"}
Standing == [pc : Places, auth : Auth, secret : Nat, domain : Nat, after : {"idle", "retry"},
             outcome : {"none", "ok", "failed"}, spoiled : BOOLEAN]

Shape ==
    /\ account \in Account
    /\ up \in Upstream /\ mem \in Manager /\ disk \in AccountsFile /\ key \in KeyFile
    /\ chat \in [Chats -> Standing]
    /\ lock \in Chats \cup {Free} /\ faults \in 0..MaxFaults /\ lost \in BOOLEAN

(***************************************************************************)
(* The lock, the key file and the accounts file.                           *)
(***************************************************************************)
Saves(c) == chat[c].pc \in {"saving", "keying", "sealing", "writing"}
Locked == \A c \in Chats : /\ Saves(c) => lock = c
                           /\ chat[c].after = "retry" => Saves(c)
                           /\ chat[c].pc # "idle" \/ chat[c].outcome # "none" => mem.loaded

\* What is written of an account is what the manager has, unless a refreshed
\* credential is on its way to the file.
SavedUnlessOnItsWay ==
    mem.loaded /\ ~mem.unsaved /\ (\A c \in Chats : chat[c].after # "retry") => disk.auth = mem.auth

\* A key is made only when nothing is sealed, with the file or apart from it,
\* and a file that is sealed stays so.
Keyed(a) == a.stored # 0 => Kept(1)
KeysHold ==
    /\ disk.key # 0 => Kept(disk.key) /\ (mem.loaded => mem.encrypt)
    /\ key.file = "written" => key.made # 0
    /\ Keyed(disk.auth) /\ (mem.loaded => Keyed(mem.auth))
    /\ \A c \in Chats : /\ chat[c].pc # "idle" => Keyed(chat[c].auth)
                        /\ chat[c].pc = "keying" => key.file # "written"
                        /\ chat[c].pc \in {"sealing", "writing"} /\ mem.encrypt => key.file = "written"

(***************************************************************************)
(* What every copy of the account shares.                                  *)
(***************************************************************************)
Refreshes == account.provider \in Authenticators
SoundAt(p, u, a) ==
    /\ p \in Authenticators => a.refresh \in 1..u.refresh /\ a.client = (p = "kiro")
    /\ p \notin Authenticators => a \in Placements(p)
    /\ u.home = "desktop" => a.tag # "idc" /\ a.method # "idc"
    /\ u.home = "oidc" => a.method \in {"none", "idc"}
Sound(a) == SoundAt(account.provider, up, a)

CopiesSound ==
    /\ Sound(disk.auth) /\ (mem.loaded => Sound(mem.auth))
    /\ \A c \in Chats : chat[c].pc # "idle" => /\ Sound(chat[c].auth)
                                               /\ chat[c].auth.method = mem.auth.method
    /\ up.home = "oidc" => account.provider = "kiro"
    /\ ~up.rotates \/ ~Refreshes => up.refresh = 1
    /\ ~Refreshes => up.valid \subseteq {1}

(***************************************************************************)
(* The newest refresh token.                                               *)
(***************************************************************************)
Took(c) == chat[c].pc = "refreshed"
MayTake(c) == chat[c].pc \in {"send", "refused"}

\* A chat that rotated the token is the only one that has the new one.
OneTook ==
    up.rotates /\ ~lost =>
        \A c \in Chats : Took(c) =>
            /\ chat[c].auth.refresh = up.refresh
            /\ mem.auth.refresh < up.refresh
            /\ \A d \in Chats \ {c} : MayTake(d) \/ Took(d) => chat[d].auth.refresh < up.refresh

\* The newest token is in the manager or with such a chat, and on disk when
\* there is no manager.
NewestIsKept ==
    ~lost /\ Refreshes =>
        IF mem.loaded THEN mem.auth.refresh = up.refresh \/ \E c \in Chats : Took(c)
        ELSE disk.auth.refresh = up.refresh

\* A copy that was not overtaken has it too.
CopiesCurrent ==
    ~lost /\ Refreshes =>
        \A c \in Chats : MayTake(c) /\ ~chat[c].spoiled => chat[c].auth.refresh = up.refresh

(***************************************************************************)
(* The credential a chat presents, and why a chat fails.                   *)
(***************************************************************************)
Presented ==
    \A c \in Chats :
        /\ chat[c].pc \in {"refused", "refreshed"} => Refreshes
        /\ c \in Refreshing => chat[c].auth.extra["api_key"] \in up.valid
        /\ c \in Refreshing => Refreshes
        /\ chat[c].pc = "retry" => chat[c].secret = chat[c].auth.extra["api_key"]
        /\ chat[c].pc = "send" /\ ~Refreshes => Presents(account.provider, chat[c].auth, chat[c].secret) = 1

\* A credential that lost its client is refreshed elsewhere for good.
Elsewhere(a) == up.home = "oidc" /\ Endpoint(account.provider, a) # up.home
ElsewhereStays ==
    \A c \in Chats : /\ MayTake(c) /\ Elsewhere(chat[c].auth) => Elsewhere(mem.auth)
                     /\ Took(c) /\ up.home = "oidc" => chat[c].auth.tag # "idc"

IInv ==
    /\ Shape /\ Locked /\ SavedUnlessOnItsWay /\ KeysHold
    /\ CopiesSound /\ OneTook /\ NewestIsKept /\ CopiesCurrent
    /\ Presented /\ ElsewhereStays /\ NoNeedlessFailure

-----------------------------------------------------------------------------
(***************************************************************************)
(* The records of AuthRecords: where a credential is kept, what resolves   *)
(* and presents it, what a refresh makes of it.                            *)
(***************************************************************************)
LEMMA EmptyIsAuth == NoAuth \in Auth
<1>1. NoExtra \in [Fields -> Nat]
  BY DEF NoExtra
<1> QED
  BY <1>1 DEF NoAuth, Auth, Tags

\* A credential in one field, and nowhere else.
LEMMA InOneField ==
    ASSUME NEW f \in Fields
    PROVE  /\ In(f) \in Auth /\ In(f).extra = [g \in Fields |-> IF g = f THEN 1 ELSE 0]
           /\ In(f).stored = 0 /\ In(f).tag = "none" /\ In(f).method = "none" /\ In(f).client = FALSE
<1> DEFINE e == [g \in Fields |-> IF g = f THEN 1 ELSE 0]
<1>1. [NoAuth.extra EXCEPT ![f] = 1] = e
  BY DEF NoAuth, NoExtra
<1>2. e \in [Fields -> Nat]
  OBVIOUS
<1>3. \A x \in [Fields -> Nat] :
          LET a == [NoAuth EXCEPT !.extra = x]
          IN  /\ a \in Auth /\ a.extra = x
              /\ a.stored = 0 /\ a.tag = "none" /\ a.method = "none" /\ a.client = FALSE
  BY EmptyIsAuth DEF NoAuth, Auth, Tags
<1> HIDE DEF e
<1>4. In(f) = [NoAuth EXCEPT !.extra = e]
  BY <1>1 DEF In
<1> QED
  BY <1>2, <1>3, <1>4 DEF e

LEMMA NotInline ==
    /\ InStore \in Auth /\ InStore.extra = NoExtra /\ InStore.stored = 1 /\ InStore.literal = 0
    /\ InStore.tag = "none" /\ InStore.method = "none"
    /\ InSecretRef \in Auth /\ InSecretRef.extra = NoExtra /\ InSecretRef.stored = 0
    /\ InSecretRef.literal = 1 /\ InSecretRef.tag = "none" /\ InSecretRef.method = "none"
BY EmptyIsAuth DEF InStore, InSecretRef, NoAuth, Auth, Tags

\* A credential that can be refreshed.
LEMMA Refreshable ==
    ASSUME NEW f \in Fields
    PROVE  /\ WithRefresh(f) \in Auth /\ WithRefresh(f).refresh = 1 /\ WithRefresh(f).stored = 0
           /\ WithRefresh(f).client = FALSE /\ WithRefresh(f).tag = "none" /\ WithRefresh(f).method = "none"
<1>1. \A a \in Auth : LET b == [a EXCEPT !.refresh = 1]
                      IN  /\ b \in Auth /\ b.refresh = 1 /\ b.stored = a.stored /\ b.client = a.client
                          /\ b.tag = a.tag /\ b.method = a.method
  BY DEF Auth
<1> QED
  BY <1>1, InOneField DEF WithRefresh

LEMMA KiroRefreshable ==
    ASSUME NEW t \in Tags, NEW m \in Tags
    PROVE  /\ KiroLogin(t, m) \in Auth /\ KiroLogin(t, m).refresh = 1 /\ KiroLogin(t, m).stored = 0
           /\ KiroLogin(t, m).client = TRUE /\ KiroLogin(t, m).tag = t /\ KiroLogin(t, m).method = m
<1>1. \A a \in Auth : LET b == [a EXCEPT !.tag = t, !.method = m, !.client = TRUE]
                      IN  /\ b \in Auth /\ b.refresh = a.refresh /\ b.stored = a.stored /\ b.client = TRUE
                          /\ b.tag = t /\ b.method = m
  BY DEF Auth
<1>2. "access_token" \in Fields
  BY DEF Fields
<1> QED
  BY <1>1, <1>2, Refreshable DEF KiroLogin

\* What resolve_secret takes: the first of the inline fields that is set, and
\* else the stored secret, if it can be read.
Inline(a) == {i \in DOMAIN InlineKeys : a.extra[InlineKeys[i]] # 0}

LEMMA InlineIs ==
    /\ DOMAIN InlineKeys = 1..4 /\ InlineKeys[1] = "api_key" /\ InlineKeys[2] = "token"
    /\ InlineKeys[3] = "access_token" /\ InlineKeys[4] = "session_key"
BY DEF InlineKeys

LEMMA Resolves ==
    ASSUME NEW a \in Auth, NEW ok \in BOOLEAN
    PROVE  /\ resolve_secret(a, ok) \in Nat
           /\ a.extra["api_key"] # 0 => resolve_secret(a, ok) = a.extra["api_key"]
           /\ \A i \in 1..4 : Inline(a) = {i} => resolve_secret(a, ok) = a.extra[InlineKeys[i]]
           /\ Inline(a) = {} => resolve_secret(a, ok) = IF ok THEN a.stored ELSE 0
<1> DEFINE first == CHOOSE i \in Inline(a) : \A j \in Inline(a) : i <= j
<1>1. resolve_secret(a, ok) = IF Inline(a) # {} THEN a.extra[InlineKeys[first]]
                              ELSE IF ok THEN a.stored ELSE 0
  BY DEF resolve_secret, Inline
<1>2. Inline(a) \subseteq 1..4 /\ a.extra \in [Fields -> Nat] /\ a.stored \in Nat
  BY InlineIs DEF Inline, Auth
<1>3. \A i \in 1..4 : InlineKeys[i] \in Fields
  BY InlineIs DEF Fields
<1>4. Inline(a) # {} => first \in Inline(a) /\ \A j \in Inline(a) : first <= j
  <2> SUFFICES ASSUME Inline(a) # {} PROVE \E i \in Inline(a) : \A j \in Inline(a) : i <= j
    OBVIOUS
  <2> QED
    BY <1>2
<1> HIDE DEF first
<1>5. resolve_secret(a, ok) \in Nat
  BY <1>1, <1>2, <1>3, <1>4
<1>6. a.extra["api_key"] # 0 => first = 1 /\ Inline(a) # {}
  <2> SUFFICES ASSUME a.extra["api_key"] # 0 PROVE first = 1 /\ Inline(a) # {}
    OBVIOUS
  <2>1. 1 \in Inline(a)
    BY InlineIs DEF Inline
  <2> QED
    BY <2>1, <1>2, <1>4
<1>7. \A i \in 1..4 : Inline(a) = {i} => first = i
  BY <1>4
<1> QED
  BY <1>1, <1>5, <1>6, <1>7, InlineIs

\* Where an account has its credential when it is set up: all that is said of
\* such an account below.
LEMMA PlacedIsAuth ==
    ASSUME NEW p \in builtin, NEW a \in Placements(p)
    PROVE  /\ a \in Auth
           /\ p \in Authenticators => a.refresh = 1 /\ a.client = (p = "kiro") /\ a.stored = 0
           /\ p = "kiro" => a.tag \in Methods /\ a.method \in {"none"} \cup Methods
           /\ p # "kiro" => a.tag = "none" /\ a.method = "none"
<1>1. Methods \subseteq Tags /\ "none" \in Tags
  BY CredentialsAssumption DEF Tags
<1>2. "access_token" \in Fields /\ "api_key" \in Fields /\ "session_key" \in Fields
      /\ "cookies" \in Fields /\ "token" \in Fields
  BY DEF Fields
<1>3. CASE p = "kiro"
  <2>1. a \in {KiroLogin(t, m) : t \in Methods, m \in {"none"} \cup Methods}
    BY <1>3 DEF Placements, Authenticators
  <2>2. PICK t \in Methods, m \in {"none"} \cup Methods : a = KiroLogin(t, m)
    BY <2>1
  <2>3. t \in Tags /\ m \in Tags
    BY <1>1
  <2>4. /\ KiroLogin(t, m) \in Auth /\ KiroLogin(t, m).refresh = 1 /\ KiroLogin(t, m).stored = 0
        /\ KiroLogin(t, m).client = TRUE /\ KiroLogin(t, m).tag = t /\ KiroLogin(t, m).method = m
    BY <2>3, KiroRefreshable
  <2>5. /\ a \in Auth /\ a.refresh = 1 /\ a.stored = 0
        /\ a.client = TRUE /\ a.tag = t /\ a.method = m
    BY <2>2, <2>4
  <2> QED
    BY <1>3, <2>5
<1>4. CASE p \in Authenticators \ {"kiro"}
  <2>1. a \in {WithRefresh(f) : f \in {"api_key", "access_token"}}
    BY <1>4 DEF Placements, Authenticators
  <2> QED
    BY <1>2, <1>4, <2>1, Refreshable
<1>5. CASE p \notin Authenticators
  <2>1. p # "kiro"
    BY <1>5 DEF Authenticators
  <2>2. \/ \E f \in Fields : a = In(f)
        \/ a = InStore \/ a = InSecretRef
    BY <1>2, <1>5 DEF Placements, builtin, Authenticators
  <2> QED
    BY <1>5, <2>1, <2>2, InOneField, NotInline
<1> QED
  BY <1>3, <1>4, <1>5 DEF Authenticators

\* An account without an authenticator presents what it was set up with, when
\* what it has stored can be read.
LEMMA PlacedIsPresented ==
    ASSUME NEW p \in builtin \ Authenticators, NEW a \in Placements(p), NEW ok \in BOOLEAN,
           a.stored # 0 => ok
    PROVE  Presents(p, a, resolve_secret(a, ok)) = 1
<1> DEFINE s == resolve_secret(a, ok)
<1>1. "access_token" \in Fields /\ "api_key" \in Fields /\ "session_key" \in Fields
      /\ "cookies" \in Fields /\ "token" \in Fields
  BY DEF Fields
<1>2. \A f, g \in Fields : In(f).extra[g] = IF g = f THEN 1 ELSE 0
  BY InOneField
<1>3. a \in Auth
  BY PlacedIsAuth
<1>4. ASSUME NEW i \in 1..4, a = In(InlineKeys[i]) PROVE s = 1
  <2>1. InlineKeys[i] \in Fields /\ \A j \in 1..4 : InlineKeys[j] \in Fields /\ (InlineKeys[j] = InlineKeys[i] => j = i)
    BY <1>1, InlineIs
  <2>2. \A j \in 1..4 : a.extra[InlineKeys[j]] = IF j = i THEN 1 ELSE 0
    BY <1>2, <1>4, <2>1
  <2>3. Inline(a) = {i} /\ a.extra[InlineKeys[i]] = 1
    BY <2>2, InlineIs DEF Inline
  <2> QED
    BY <1>3, <2>3, Resolves
<1>5. a = InStore => s = 1
  <2>1. a = InStore => Inline(a) = {}
    BY <1>1, InlineIs, NotInline DEF Inline, NoExtra
  <2> QED
    BY <1>3, <2>1, Resolves, NotInline
<1>6. a = InSecretRef => s = 0 /\ a.literal = 1 /\ a.extra["session_key"] = 0
  <2>1. a = InSecretRef => Inline(a) = {}
    BY <1>1, InlineIs, NotInline DEF Inline, NoExtra
  <2> QED
    BY <1>1, <1>3, <2>1, Resolves, NotInline DEF NoExtra
<1>7. a = In("token") \/ a = In("session_key") \/ a = In("api_key") => s = 1
  BY <1>4, InlineIs
<1>8. a = In("cookies") => a.extra["cookies"] = 1
  BY <1>1, <1>2
<1>9. a = In("api_key") => a.extra["cookies"] = 0
  BY <1>1, <1>2
<1> HIDE DEF s
<1>10. CASE p = "claude"
  <2>1. a = In("session_key") \/ a = InStore \/ a = InSecretRef
    BY <1>10 DEF Placements
  <2>2. ClaudePresents(a, s) = 1
    BY <1>5, <1>6, <1>7, <2>1 DEF ClaudePresents
  <2> QED
    BY <1>10, <2>2 DEF Presents, s
<1>11. CASE p = "perplexity"
  <2>1. PerplexityPresents(a, s) = 1
    BY <1>8, <1>11 DEF Placements, PerplexityPresents
  <2> QED
    BY <1>11, <2>1 DEF Presents, s
<1>12. CASE p = "gemini"
  <2>1. a = In("cookies") \/ a = In("api_key")
    BY <1>12 DEF Placements
  <2>2. GeminiPresents(a, s) = 1
    BY <1>7, <1>8, <1>9, <2>1 DEF GeminiPresents
  <2> QED
    BY <1>12, <2>2 DEF Presents, s
<1>13. CASE p \in {"openai", "anthropic", "chatgpt", "glm", "windsurf"}
  <2>1. a = In("token") \/ a = InStore
    BY <1>13 DEF Placements, Authenticators
  <2>2. s = 1 /\ a.kind = "api_key"
    BY <1>3, <1>5, <1>7, <2>1 DEF Auth
  <2>3. /\ OpenaiPresents(a, s) = 1 /\ AnthropicPresents(a, s) = 1 /\ ChatgptPresents(a, s) = 1
        /\ GlmPresents(a, s) = 1 /\ WindsurfPresents(a, s) = 1
    BY <2>2 DEF OpenaiPresents, AnthropicPresents, ChatgptPresents, GlmPresents, WindsurfPresents
  <2> QED
    BY <1>13, <2>3 DEF Presents, s
<1> QED
  BY <1>10, <1>11, <1>12, <1>13 DEF builtin

\* The adapters with an authenticator present the resolved secret.
LEMMA RefreshedIsPresented ==
    ASSUME NEW p \in Authenticators, NEW a, NEW s PROVE Presents(p, a, s) = s
BY DEF Authenticators, Presents, CursorPresents, CodexPresents, GeminiCliPresents, AntigravityPresents,
       KiroPresents

\* What a refresh makes of the credentials of an account.
Grants == [access : Positive, refresh : Nat]
LEMMA RefreshedIs ==
    ASSUME NEW p \in Authenticators, NEW a \in Auth, NEW g \in Grants
    PROVE  LET b == Refreshed(p, a, g)
           IN  /\ b \in Auth /\ b.extra["api_key"] = g.access
               /\ b.refresh = Keep(g.refresh, a.refresh)
               /\ b.stored = a.stored /\ b.method = a.method /\ b.client = a.client
               /\ b.tag = IF p = "kiro" THEN encode_refresh_token(KiroMethod(a), FALSE) ELSE a.tag
<1> DEFINE one == [a.extra EXCEPT !.api_key = g.access]
           both == [a.extra EXCEPT !.access_token = g.access, !.api_key = g.access]
           n == Keep(g.refresh, a.refresh)
           t == encode_refresh_token(KiroMethod(a), FALSE)
<1>1. /\ one \in [Fields -> Nat] /\ one["api_key"] = g.access
      /\ both \in [Fields -> Nat] /\ both["api_key"] = g.access
  BY DEF Auth, Fields, Grants, Positive
<1>2. n \in Nat /\ t \in Tags
  BY DEF Auth, Grants, Keep, encode_refresh_token, Tags
<1>3. /\ KiroRefreshed(a, g) = [a EXCEPT !.extra = both, !.refresh = n, !.tag = t]
      /\ CursorRefreshed(a, g) = [a EXCEPT !.extra = one, !.refresh = n]
      /\ CodexRefreshed(a, g) = [a EXCEPT !.extra = one, !.refresh = n]
      /\ GeminiCliRefreshed(a, g) = [a EXCEPT !.extra = both, !.refresh = n]
      /\ AntigravityRefreshed(a, g) = [a EXCEPT !.extra = both, !.refresh = n]
  BY DEF KiroRefreshed, CursorRefreshed, CodexRefreshed, GeminiCliRefreshed, AntigravityRefreshed
<1> HIDE DEF one, both, n, t
<1>4. CASE p = "kiro"
  <2>1. Refreshed(p, a, g) = [a EXCEPT !.extra = both, !.refresh = n, !.tag = t]
    BY <1>3, <1>4 DEF Refreshed
  <2>2. LET b == [a EXCEPT !.extra = both, !.refresh = n, !.tag = t]
        IN  /\ b \in Auth /\ b.extra = both /\ b.refresh = n /\ b.stored = a.stored
            /\ b.method = a.method /\ b.client = a.client /\ b.tag = t
    BY <1>1, <1>2 DEF Auth
  <2> QED
    BY <1>1, <1>4, <2>1, <2>2 DEF n, t
<1>5. CASE p # "kiro"
  <2>1. \/ Refreshed(p, a, g) = [a EXCEPT !.extra = one, !.refresh = n]
        \/ Refreshed(p, a, g) = [a EXCEPT !.extra = both, !.refresh = n]
    BY <1>3, <1>5 DEF Refreshed, Authenticators
  <2>2. \A e \in {one, both} :
            LET b == [a EXCEPT !.extra = e, !.refresh = n]
            IN  /\ b \in Auth /\ b.extra = e /\ b.refresh = n /\ b.stored = a.stored
                /\ b.method = a.method /\ b.client = a.client /\ b.tag = a.tag
    BY <1>1, <1>2 DEF Auth
  <2> QED
    BY <1>1, <1>5, <2>1, <2>2 DEF n
<1> QED
  BY <1>4, <1>5

-----------------------------------------------------------------------------
(***************************************************************************)
(* Where a refresh goes.                                                   *)
(***************************************************************************)
LEMMA EncodedIsNotIdc == \A m : encode_refresh_token(m, FALSE) # "idc"
BY DEF encode_refresh_token

LEMMA DesktopStays ==
    ASSUME NEW p, NEW a, a.tag # "idc", a.method # "idc"
    PROVE  Endpoint(p, a) = "desktop"
BY DEF Endpoint, KiroEndpoint, KiroMethod, decode_refresh_token

LEMMA OidcEndpoint ==
    ASSUME NEW a, a.method \in {"none", "idc"}
    PROVE  Endpoint("kiro", a) = "oidc" <=> a.method = "idc" \/ a.tag = "idc"
BY DEF Endpoint, KiroEndpoint, KiroMethod, decode_refresh_token

LEMMA SoundIsConfigured ==
    ASSUME NEW a, Refreshes, Sound(a), up.refresh \in Positive
    PROVE  Configured(account.provider, a)
<1>1. a.refresh # 0
  BY DEF Sound, SoundAt, Refreshes, Positive
<1>2. account.provider = "kiro" => a.client
  BY Zenon DEF Sound, SoundAt, Refreshes
<1> QED
  BY <1>1, <1>2, Zenon DEF Configured, KiroConfigured

-----------------------------------------------------------------------------
(***************************************************************************)
(* The steps of a chat, as what they change of its record.                 *)
(***************************************************************************)
\* The rest of the record is as it was.
Same(r, s) == r.auth = s.auth /\ r.after = s.after /\ r.domain \in Nat /\ r.secret = s.secret

LEMMA IdleIs == Idle \in Standing /\ Idle.pc = "idle" /\ Idle.auth = NoAuth /\ Idle.after = "idle"
                /\ Idle.outcome = "none" /\ Idle.spoiled = FALSE
BY EmptyIsAuth DEF Idle, Standing, Places

LEMMA MovedIs ==
    ASSUME NEW r \in Standing, NEW q \in Places
    PROVE  LET s == [r EXCEPT !.pc = q]
           IN  s \in Standing /\ s.pc = q /\ Same(s, r) /\ s.outcome = r.outcome /\ s.spoiled = r.spoiled
BY DEF Standing, Same

LEMMA OutcomeIs ==
    ASSUME NEW r \in Standing, NEW o \in {"ok", "failed"}
    PROVE  LET s == Outcome(r, o)
           IN  s \in Standing /\ s.pc = "report" /\ Same(s, r) /\ s.outcome = o /\ s.spoiled = r.spoiled
BY DEF Standing, Same, Places, Outcome

LEMMA SpoiledIs ==
    ASSUME NEW r \in Standing
    PROVE  LET s == [r EXCEPT !.spoiled = TRUE]
           IN  s \in Standing /\ s.pc = r.pc /\ Same(s, r) /\ s.outcome = r.outcome /\ s.spoiled
BY DEF Standing, Same

LEMMA UnrefreshedIs ==
    ASSUME NEW r \in Standing
    PROVE  LET s == Unrefreshed(r)
           IN  /\ s \in Standing /\ Same(s, r) /\ s.spoiled = r.spoiled
               /\ \/ s.pc = r.pc /\ s.outcome = r.outcome
                  \/ s.pc = "report" /\ s.outcome = "failed"
<1>1. LET s == [r EXCEPT !.domain = @ + 1]
      IN  s \in Standing /\ Same(s, r) /\ s.spoiled = r.spoiled /\ s.pc = r.pc /\ s.outcome = r.outcome
  BY DEF Standing, Same
<1>2. \/ Unrefreshed(r) = [r EXCEPT !.domain = @ + 1]
      \/ Unrefreshed(r) = Outcome(r, "failed")
  BY DEF Unrefreshed
<1>3. CASE Unrefreshed(r) = [r EXCEPT !.domain = @ + 1]
  BY <1>1, <1>3
<1>4. CASE Unrefreshed(r) = Outcome(r, "failed")
  BY <1>4, OutcomeIs
<1> QED
  BY <1>2, <1>3, <1>4

LEMMA SavingIs ==
    ASSUME NEW r \in Standing, NEW q \in {"idle", "retry"}
    PROVE  LET s == Saving(r, q)
           IN  /\ s \in Standing /\ s.pc = "saving" /\ s.after = q /\ s.auth = r.auth
               /\ s.outcome = r.outcome /\ s.spoiled = r.spoiled
BY DEF Standing, Saving, Places

LEMMA ReleasedIs ==
    ASSUME NEW r \in Standing
    PROVE  LET s == Released(r)
           IN  /\ s \in Standing /\ s.pc = r.after /\ s.after = "idle" /\ s.auth = r.auth
               /\ s.outcome = r.outcome /\ s.spoiled = r.spoiled
               /\ r.auth.extra["api_key"] # 0 => s.secret = r.auth.extra["api_key"]
<1> DEFINE n == resolve_secret(r.auth, Opens(1))
<1>1. n \in Nat /\ (r.auth.extra["api_key"] # 0 => n = r.auth.extra["api_key"])
  <2>1. r.auth \in Auth /\ Opens(1) \in BOOLEAN
    BY DEF Standing, Opens
  <2> QED
    BY <2>1, Resolves
<1> HIDE DEF n
<1>2. LET s == [r EXCEPT !.pc = r.after, !.after = "idle", !.secret = n]
      IN  /\ s \in Standing /\ s.pc = r.after /\ s.after = "idle" /\ s.auth = r.auth
          /\ s.outcome = r.outcome /\ s.spoiled = r.spoiled /\ s.secret = n
  BY <1>1 DEF Standing, Places
<1>3. Released(r) = [r EXCEPT !.pc = r.after, !.after = "idle", !.secret = n]
  BY DEF Released, n
<1> QED
  BY <1>1, <1>2, <1>3

LEMMA RefreshedChat ==
    ASSUME NEW r \in Standing, NEW a \in Auth
    PROVE  LET s == [r EXCEPT !.pc = "refreshed", !.auth = a]
           IN  /\ s \in Standing /\ s.pc = "refreshed" /\ s.auth = a /\ s.after = r.after
               /\ s.outcome = r.outcome /\ s.spoiled = r.spoiled
BY DEF Standing, Places

Chosen(a, n, b) == [Idle EXCEPT !.pc = "send", !.auth = a, !.secret = n, !.spoiled = b]
LEMMA ChosenIs ==
    ASSUME NEW a \in Auth, NEW n \in Nat, NEW b \in BOOLEAN
    PROVE  LET s == Chosen(a, n, b)
           IN  /\ s \in Standing /\ s.pc = "send" /\ s.auth = a /\ s.secret = n /\ s.after = "idle"
               /\ s.outcome = "none" /\ s.spoiled = b
BY IdleIs DEF Chosen, Idle, Standing, Places

-----------------------------------------------------------------------------
LEMMA InitIInv == Init => IInv
<1> SUFFICES ASSUME Init PROVE IInv
  OBVIOUS
<1>1. PICK p \in Providers, legacy \in BOOLEAN, setting \in BOOLEAN :
          account = [provider |-> p, form |-> IF legacy THEN "accounts" ELSE "emails",
                     name |-> IF legacy /\ p = "glm" THEN "zlm" ELSE p, secrets_encrypted |-> setting]
  BY DEF Init
<1>2. account.provider = p /\ p \in builtin
  BY <1>1, CredentialsAssumption
<1>3. PICK auth \in Placements(p), rotates \in BOOLEAN, sealed \in BOOLEAN :
          /\ Consistent(auth)
          /\ up = [valid |-> {1}, access |-> 1, refresh |-> 1, rotates |-> rotates,
                   home |-> IF auth.tag = "idc" THEN "oidc" ELSE "desktop"]
          /\ disk = [auth |-> auth, key |-> IF sealed THEN 1 ELSE 0, torn |-> FALSE]
          /\ key \in IF sealed \/ auth.stored # 0 THEN {Written(1)} ELSE {NoKey, EmptyKey, Written(1)}
  BY <1>2 DEF Init
<1>4. /\ mem = NotLoaded /\ chat = [c \in Chats |-> Idle] /\ lock = Free
      /\ faults = 0 /\ lost = FALSE
  BY DEF Init
<1>5. auth \in Auth
  BY <1>2, PlacedIsAuth
<1>6. /\ up.valid = {1} /\ up.refresh = 1 /\ up.home = (IF auth.tag = "idc" THEN "oidc" ELSE "desktop")
      /\ disk.auth = auth /\ disk.key = (IF sealed THEN 1 ELSE 0) /\ up \in Upstream /\ disk \in AccountsFile
  BY <1>3, <1>5 DEF Upstream, AccountsFile, Positive
<1>7. mem \in Manager /\ mem.loaded = FALSE
  BY <1>4, EmptyIsAuth DEF NotLoaded, Manager
<1>8. \A c \in Chats : chat[c] \in Standing /\ chat[c].pc = "idle" /\ chat[c].outcome = "none"
                       /\ chat[c].after = "idle"
  BY <1>4, IdleIs
<1>9. Shape
  <2>1. account \in Account
    BY <1>1 DEF Account
  <2>2. key \in KeyFile
    BY <1>3 DEF KeyFile, NoKey, EmptyKey, Written
  <2>4. faults \in 0..MaxFaults /\ lock \in Chats \cup {Free}
    <3>1. MaxFaults \in Nat
      BY CredentialsAssumption
    <3> QED
      BY <1>4, <3>1
  <2>5. lost \in BOOLEAN
    BY <1>4
  <2>3. chat \in [Chats -> Standing]
    BY <1>4, IdleIs
  <2> QED
    BY <1>6, <1>7, <2>1, <2>2, <2>3, <2>4, <2>5 DEF Shape
<1>10. Locked /\ SavedUnlessOnItsWay
  BY <1>7, <1>8 DEF Locked, SavedUnlessOnItsWay, Saves
<1>11. KeysHold
  <2>1. /\ sealed \/ auth.stored # 0 => key.file = "written" /\ key.made = 1
        /\ key.file = "written" => key.made # 0
    BY <1>3 DEF NoKey, EmptyKey, Written
  <2> QED
    BY <1>6, <1>7, <1>8, <2>1 DEF KeysHold, Keyed, Kept
<1>12. Sound(auth) /\ (up.home = "oidc" => p = "kiro")
  <2>1. /\ auth.tag = "idc" => p = "kiro"
        /\ p \in Authenticators => auth.refresh = 1 /\ auth.client = (p = "kiro")
    BY <1>2, PlacedIsAuth
  <2>2. auth.method # "none" => auth.method = auth.tag
    BY <1>3 DEF Consistent
  <2> QED
    BY <1>2, <1>3, <1>6, <2>1, <2>2 DEF Sound, SoundAt, Refreshes
<1>13. CopiesSound
  BY <1>2, <1>6, <1>7, <1>8, <1>12 DEF CopiesSound
<1>14. OneTook /\ CopiesCurrent /\ Presented /\ ElsewhereStays
  BY <1>8 DEF OneTook, CopiesCurrent, Presented, ElsewhereStays, Took, MayTake, Refreshing
<1>15. NewestIsKept
  BY <1>6, <1>7, <1>12 DEF NewestIsKept, Sound, SoundAt, Refreshes
<1>16. NoNeedlessFailure
  BY <1>4, <1>8 DEF NoNeedlessFailure
<1> QED
  BY <1>9, <1>10, <1>11, <1>13, <1>14, <1>15, <1>16 DEF IInv

-----------------------------------------------------------------------------
\* What the steps below take from the shape of the state.
LEMMA Shaped ==
    ASSUME Shape
    PROVE  /\ account.provider \in builtin /\ account.provider \in Providers
           /\ up.valid \subseteq Positive /\ up.access \in Positive /\ up.refresh \in Positive
           /\ up.rotates \in BOOLEAN /\ up.home \in {"desktop", "oidc"}
           /\ mem.auth \in Auth /\ mem.loaded \in BOOLEAN /\ mem.encrypt \in BOOLEAN /\ mem.unsaved \in BOOLEAN
           /\ disk.auth \in Auth /\ disk.key \in Nat /\ disk.torn \in BOOLEAN
           /\ key.made \in Nat
           /\ \A c \in Chats : chat[c] \in Standing /\ chat[c].auth \in Auth
BY CredentialsAssumption DEF Shape, Account, Upstream, Manager, AccountsFile, KeyFile, Standing

LEMMA OneMoves ==
    ASSUME Shape, NEW c \in Chats, NEW r \in Standing, chat' = [chat EXCEPT ![c] = r]
    PROVE  /\ chat' \in [Chats -> Standing] /\ chat'[c] = r
           /\ \A d \in Chats \ {c} : chat'[d] = chat[d]
BY DEF Shape

\* A step that changes where a chat is, with the rest of the account left alone.
LEMMA ChatOnly ==
    ASSUME IInv, NEW c \in Chats, NEW r \in Standing,
           chat' = [chat EXCEPT ![c] = r],
           UNCHANGED <<account, up, mem, disk, key, lost>>,
           faults' \in 0..MaxFaults,
           lock' = lock \/ (lock = Free /\ lock' = c),
           chat[c].pc \in {"send", "refused", "retry", "report"},
           r.pc \in {"refused", "saving", "report"},
           r.auth = chat[c].auth,
           r.pc = "refused" => Refreshes /\ MayTake(c) /\ (chat[c].spoiled => r.spoiled),
           r.pc = "saving" => lock' = c,
           r.after = "idle",
           r.outcome = "failed" /\ ~r.spoiled /\ ~lost /\ ~Downgraded => ~Refreshes /\ up.valid = {}
    PROVE  IInv'
<1>1. /\ chat'[c] = r /\ \A d \in Chats \ {c} : chat'[d] = chat[d]
      /\ chat' \in [Chats -> Standing]
  BY OneMoves DEF IInv
<1>2. Shape'
  BY <1>1 DEF IInv, Shape
<1>3. chat[c].after = "idle"
  BY DEF IInv, Locked, Saves, Shape, Standing
<1>4. Locked'
  BY <1>1, <1>3, ChatsAssumption DEF IInv, Locked, Saves
<1>5. SavedUnlessOnItsWay'
  BY <1>1, <1>3 DEF IInv, SavedUnlessOnItsWay
<1>6. KeysHold'
  BY <1>1 DEF IInv, KeysHold, Keyed, Kept
<1>7. CopiesSound'
  BY <1>1 DEF IInv, CopiesSound, Sound, SoundAt, Refreshes
<1>8. OneTook' /\ NewestIsKept' /\ CopiesCurrent'
  BY <1>1 DEF IInv, OneTook, NewestIsKept, CopiesCurrent, Took, MayTake, Refreshes
<1>9. Presented'
  BY <1>1, <1>3 DEF IInv, Presented, Refreshing, Refreshes
<1>10. ElsewhereStays'
  BY <1>1 DEF IInv, ElsewhereStays, Elsewhere, Took, MayTake
<1>11. NoNeedlessFailure'
  BY <1>1 DEF IInv, NoNeedlessFailure, Downgraded, Refreshes
<1> QED
  BY <1>2, <1>4, <1>5, <1>6, <1>7, <1>8, <1>9, <1>10, <1>11 DEF IInv

\* A chat that is not on its way to save has nothing to do after a save.
LEMMA AfterIsIdle ==
    ASSUME IInv, NEW c \in Chats, ~Saves(c) PROVE chat[c].after = "idle"
BY DEF IInv, Locked, Shape, Standing

LEMMA SendKeeps == ASSUME IInv, NEW c \in Chats, Send(c) PROVE IInv'
<1> DEFINE r == chat[c]
<1>1. /\ r.pc = "send" /\ r \in Standing /\ account.provider \in builtin
      /\ UNCHANGED <<account, up, mem, disk, key, lock, faults, lost>>
      /\ faults \in 0..MaxFaults
  BY Shaped DEF Send, IInv, Shape
<1>2. r.after = "idle"
  BY <1>1, AfterIsIdle DEF Saves
<1>3. r.outcome = "failed" /\ ~r.spoiled /\ ~lost /\ ~Downgraded => ~Refreshes /\ up.valid = {}
  BY DEF IInv, NoNeedlessFailure, Refreshes
<1>4. CASE Honoured(r.auth, r.secret)
  <2>1. chat' = [chat EXCEPT ![c] = Outcome(r, "ok")]
    BY <1>4 DEF Send, To
  <2>2. LET s == Outcome(r, "ok")
        IN  s \in Standing /\ s.pc = "report" /\ Same(s, r) /\ s.outcome = "ok" /\ s.spoiled = r.spoiled
    BY <1>1, OutcomeIs
  <2> QED
    BY <1>1, <1>2, <2>1, <2>2, ChatOnly DEF Same
<1>5. CASE ~Honoured(r.auth, r.secret) /\ Refreshes
  <2>1. chat' = [chat EXCEPT ![c] = [r EXCEPT !.pc = "refused"]]
    BY <1>5 DEF Send, To, Refreshes
  <2>2. LET s == [r EXCEPT !.pc = "refused"]
        IN  /\ s \in Standing /\ s.pc = "refused" /\ Same(s, r) /\ s.outcome = r.outcome
            /\ s.spoiled = r.spoiled
    BY <1>1, MovedIs DEF Places
  <2> QED
    BY <1>1, <1>2, <1>3, <1>5, <2>1, <2>2, ChatOnly DEF Same, MayTake
<1>6. CASE ~Honoured(r.auth, r.secret) /\ ~Refreshes
  <2>1. chat' = [chat EXCEPT ![c] = Outcome(r, "failed")]
    BY <1>6 DEF Send, To, Refreshes
  <2>2. LET s == Outcome(r, "failed")
        IN  s \in Standing /\ s.pc = "report" /\ Same(s, r) /\ s.outcome = "failed" /\ s.spoiled = r.spoiled
    BY <1>1, OutcomeIs
  <2>3. Presents(account.provider, r.auth, r.secret) = 1 /\ up.valid \subseteq {1}
    BY <1>1, <1>6 DEF IInv, Presented, CopiesSound
  <2>4. up.valid = {}
    BY <1>6, <2>3 DEF Honoured
  <2> QED
    BY <1>1, <1>2, <1>6, <2>1, <2>2, <2>4, ChatOnly DEF Same
<1> QED
  BY <1>4, <1>5, <1>6

\* Why the token endpoint refuses a chat that was not overtaken.
LEMMA RefusedElsewhere ==
    ASSUME IInv, NEW c \in Chats, MayTake(c), Refreshes, ~chat[c].spoiled, ~lost, ~Accepts(chat[c])
    PROVE  Downgraded
<1>1. chat[c].auth.refresh = up.refresh
  BY DEF IInv, CopiesCurrent
<1>2. Endpoint(account.provider, chat[c].auth) # up.home
  BY <1>1 DEF Accepts
<1>3. Sound(chat[c].auth) /\ up.home \in {"desktop", "oidc"}
  BY Shaped DEF IInv, CopiesSound, MayTake
<1>4. up.home = "oidc"
  BY <1>2, <1>3, DesktopStays DEF Sound, SoundAt
<1>5. Elsewhere(chat[c].auth)
  BY <1>2, <1>4 DEF Elsewhere
<1>6. Elsewhere(mem.auth)
  BY <1>5 DEF IInv, ElsewhereStays
<1> QED
  BY <1>6 DEF Elsewhere, Downgraded

LEMMA RefuseKeeps == ASSUME IInv, NEW c \in Chats, Refuse(c) PROVE IInv'
<1> DEFINE r == chat[c]
           s == Unrefreshed(r)
<1>1. /\ r.pc = "refused" /\ r \in Standing /\ account.provider \in builtin
      /\ UNCHANGED <<account, up, mem, disk, key, lock, faults, lost>>
      /\ faults \in 0..MaxFaults /\ Refreshes /\ Sound(r.auth)
  BY Shaped DEF Refuse, IInv, Shape, Presented, CopiesSound
<1>2. r.after = "idle"
  BY <1>1, AfterIsIdle DEF Saves
<1>3. r.outcome = "failed" /\ ~r.spoiled /\ ~lost /\ ~Downgraded => ~Refreshes /\ up.valid = {}
  BY DEF IInv, NoNeedlessFailure, Refreshes
<1>4. Configured(account.provider, r.auth)
  BY <1>1, SoundIsConfigured, Shaped DEF IInv
<1>5. chat' = [chat EXCEPT ![c] = s] /\ ~Accepts(r)
  BY <1>4 DEF Refuse, To
<1>6. /\ s \in Standing /\ Same(s, r) /\ s.spoiled = r.spoiled
      /\ \/ s.pc = r.pc /\ s.outcome = r.outcome
         \/ s.pc = "report" /\ s.outcome = "failed"
  BY <1>1, UnrefreshedIs
<1>7. ~r.spoiled /\ ~lost => Downgraded
  BY <1>1, <1>5, RefusedElsewhere DEF MayTake
<1> HIDE DEF s
<1> QED
  BY <1>1, <1>2, <1>3, <1>5, <1>6, <1>7, ChatOnly DEF Same, MayTake

LEMMA UnreachedKeeps == ASSUME IInv, NEW c \in Chats, Unreached(c) PROVE IInv'
<1> DEFINE r == chat[c]
           u == Unrefreshed(r)
           s == [u EXCEPT !.spoiled = TRUE]
<1>1. /\ r.pc = "refused" /\ r \in Standing /\ Refreshes
      /\ UNCHANGED <<account, up, mem, disk, key, lock, lost>>
      /\ chat' = [chat EXCEPT ![c] = s]
  BY Shaped DEF Unreached, IInv, Presented, To
<1>2. r.after = "idle"
  BY <1>1, AfterIsIdle DEF Saves
<1>3. faults' \in 0..MaxFaults
  BY CredentialsAssumption DEF Unreached, IInv, Shape
<1>4. u \in Standing /\ Same(u, r) /\ (u.pc = r.pc \/ u.pc = "report")
  BY <1>1, UnrefreshedIs
<1> HIDE DEF u
<1>5. s \in Standing /\ s.pc = u.pc /\ Same(s, u) /\ s.spoiled
  BY <1>4, SpoiledIs
<1> HIDE DEF s
<1> QED
  BY <1>1, <1>2, <1>3, <1>4, <1>5, ChatOnly DEF Same, MayTake

LEMMA ReportKeeps == ASSUME IInv, NEW c \in Chats, Report(c) PROVE IInv'
<1> DEFINE r == chat[c]
           s == Saving(r, "idle")
<1>1. /\ r.pc = "report" /\ r \in Standing /\ lock = Free /\ lock' = c
      /\ UNCHANGED <<account, up, mem, disk, key, faults, lost>>
      /\ chat' = [chat EXCEPT ![c] = s] /\ faults \in 0..MaxFaults
  BY Shaped DEF Report, IInv, Shape, To
<1>2. /\ s \in Standing /\ s.pc = "saving" /\ s.after = "idle" /\ s.auth = r.auth
      /\ s.outcome = r.outcome /\ s.spoiled = r.spoiled
  BY <1>1, SavingIs
<1>3. r.outcome = "failed" /\ ~r.spoiled /\ ~lost /\ ~Downgraded => ~Refreshes /\ up.valid = {}
  BY DEF IInv, NoNeedlessFailure, Refreshes
<1> HIDE DEF s
<1> QED
  BY <1>1, <1>2, <1>3, ChatOnly

LEMMA RetryKeeps == ASSUME IInv, NEW c \in Chats, Retry(c) PROVE IInv'
<1> DEFINE r == chat[c]
           s == Outcome(r, "ok")
<1>1. /\ r.pc = "retry" /\ r \in Standing /\ faults \in 0..MaxFaults
      /\ UNCHANGED <<account, up, mem, disk, key, lock, faults, lost>>
  BY Shaped DEF Retry, IInv, Shape
<1>2. /\ c \in Refreshing
  BY <1>1 DEF Refreshing
<1>3. r.after = "idle"
  BY <1>1, AfterIsIdle DEF Saves
<1>4. Refreshes /\ r.auth.extra["api_key"] \in up.valid /\ r.secret = r.auth.extra["api_key"]
  BY <1>1, <1>2 DEF IInv, Presented
<1>5. Honoured(r.auth, r.secret)
  BY <1>4, RefreshedIsPresented DEF Honoured, Refreshes
<1>6. chat' = [chat EXCEPT ![c] = s]
  BY <1>5 DEF Retry, To
<1>7. s \in Standing /\ s.pc = "report" /\ Same(s, r) /\ s.outcome = "ok"
  BY <1>1, OutcomeIs
<1> HIDE DEF s
<1> QED
  BY <1>1, <1>3, <1>6, <1>7, ChatOnly DEF Same

-----------------------------------------------------------------------------
(***************************************************************************)
(* The key file: a key that is needed is there, and is not replaced.       *)
(***************************************************************************)
LEMMA KeyStays ==
    ASSUME IInv
    PROVE  /\ is_encrypted_content => get_or_create_key = key /\ Opens(disk.key)
           /\ mem.loaded /\ mem.auth.stored # 0 => get_or_create_key = key /\ Opens(1)
BY DEF IInv, KeysHold, Keyed, Kept, get_or_create_key, Opens, is_encrypted_content

\* The manager that a load builds.
LEMMA LoadedIs ==
    ASSUME NEW a \in Auth, NEW e \in BOOLEAN
    PROVE  LET m == [NotLoaded EXCEPT !.loaded = TRUE, !.auth = a, !.encrypt = e]
           IN  m \in Manager /\ m.loaded /\ m.auth = a /\ m.encrypt = e
BY EmptyIsAuth DEF NotLoaded, Manager

LEMMA MigratedIs ==
    ASSUME Shape
    PROVE  /\ migrate_value(account) \in Account
           /\ migrate_value(account).provider = account.provider
BY DEF Shape, Account, migrate_value, rewrite_provider_names

LEMMA LoadKeeps == ASSUME IInv, Load PROVE IInv'
<1>1. /\ ~mem.loaded /\ key' = key /\ account' = migrate_value(account)
      /\ mem' = [NotLoaded EXCEPT !.loaded = TRUE, !.auth = disk.auth, !.encrypt = encrypt_on_save(key)]
      /\ UNCHANGED <<up, disk, chat, lock, faults, lost>>
  BY KeyStays DEF Load
<1>2. /\ mem' \in Manager /\ mem'.loaded /\ mem'.auth = disk.auth
      /\ mem'.encrypt = encrypt_on_save(key)
  <2>1. encrypt_on_save(key) \in BOOLEAN /\ disk.auth \in Auth
    BY Shaped DEF IInv, encrypt_on_save
  <2> QED
    BY <1>1, <2>1, LoadedIs
<1>3. account'.provider = account.provider
  BY <1>1, MigratedIs DEF IInv
<1>4. \A c \in Chats : chat[c].pc = "idle" /\ chat[c].outcome = "none"
  BY <1>1, Shaped DEF IInv, Locked
<1>5. Shape'
  BY <1>1, <1>2, MigratedIs DEF IInv, Shape
<1>6. Locked' /\ SavedUnlessOnItsWay'
  BY <1>1, <1>2, <1>4 DEF IInv, Locked, Saves, SavedUnlessOnItsWay
<1>7. KeysHold'
  <2>1. disk.key # 0 => Kept(disk.key) /\ encrypt_on_save(key)
    BY DEF IInv, KeysHold, Kept, encrypt_on_save
  <2> QED
    BY <1>1, <1>2, <1>4, <2>1 DEF IInv, KeysHold, Keyed, Kept
<1>8. CopiesSound'
  BY <1>1, <1>2, <1>3, <1>4 DEF IInv, CopiesSound, Sound, SoundAt, Refreshes
<1>9. OneTook' /\ CopiesCurrent' /\ Presented' /\ ElsewhereStays'
  BY <1>1, <1>4 DEF OneTook, CopiesCurrent, Presented, ElsewhereStays, Took, MayTake, Refreshing,
                    IInv, Locked, Saves
<1>10. NewestIsKept'
  BY <1>1, <1>2, <1>3 DEF IInv, NewestIsKept, Refreshes
<1>11. NoNeedlessFailure'
  BY <1>1, <1>4 DEF IInv, NoNeedlessFailure
<1> QED
  BY <1>5, <1>6, <1>7, <1>8, <1>9, <1>10, <1>11 DEF IInv

LEMMA ChooseKeeps == ASSUME IInv, NEW c \in Chats, Choose(c) PROVE IInv'
<1> DEFINE n == resolve_secret(mem.auth, Opens(1))
           b == up.rotates /\ \E d \in Chats : chat[d].pc = "refreshed"
           s == Chosen(mem.auth, n, b)
<1>1. /\ mem.loaded /\ lock = Free /\ key' = key /\ chat' = [chat EXCEPT ![c] = s]
      /\ chat[c].pc = "idle"
      /\ UNCHANGED <<account, up, mem, disk, lock, faults, lost>>
  BY KeyStays DEF Choose, To, Chosen
<1>2. n \in Nat
  BY Resolves, Shaped DEF IInv, Opens
<1>3. ~Refreshes => Presents(account.provider, mem.auth, n) = 1
  <2> SUFFICES ASSUME ~Refreshes PROVE Presents(account.provider, mem.auth, n) = 1
    OBVIOUS
  <2>1. mem.auth \in Placements(account.provider) /\ account.provider \in builtin \ Authenticators
    BY <1>1, Shaped DEF IInv, CopiesSound, Sound, SoundAt, Refreshes
  <2>2. Opens(1) \in BOOLEAN /\ (mem.auth.stored # 0 => Opens(1))
    BY <1>1, KeyStays DEF Opens
  <2> QED
    BY <2>1, <2>2, PlacedIsPresented
<1>4. /\ s \in Standing /\ s.pc = "send" /\ s.auth = mem.auth /\ s.secret = n /\ s.after = "idle"
      /\ s.outcome = "none" /\ s.spoiled = b
  <2>1. b \in BOOLEAN /\ mem.auth \in Auth
    BY Shaped DEF IInv
  <2> HIDE DEF b, n
  <2> QED
    BY <1>2, <2>1, ChosenIs
<1>5. ~s.spoiled => ~up.rotates \/ \A d \in Chats : ~Took(d)
  BY <1>4 DEF Took
<1> HIDE DEF s, n, b
<1>6. /\ chat'[c] = s /\ \A d \in Chats \ {c} : chat'[d] = chat[d]
      /\ chat' \in [Chats -> Standing]
  BY <1>1, <1>4, OneMoves DEF IInv
<1>7. Shape'
  BY <1>1, <1>6 DEF IInv, Shape
<1>8. Locked' /\ SavedUnlessOnItsWay'
  BY <1>1, <1>4, <1>6, AfterIsIdle DEF IInv, Locked, Saves, SavedUnlessOnItsWay
<1>9. KeysHold'
  BY <1>1, <1>4, <1>6 DEF IInv, KeysHold, Keyed, Kept
<1>10. CopiesSound'
  BY <1>1, <1>4, <1>6 DEF IInv, CopiesSound, Sound, SoundAt, Refreshes
<1>11. OneTook'
  BY <1>1, <1>4, <1>6 DEF IInv, OneTook, Took, MayTake
<1>12. NewestIsKept'
  BY <1>1, <1>4, <1>6 DEF IInv, NewestIsKept, Took, Refreshes
<1>13. CopiesCurrent'
  <2>1. ~lost /\ Refreshes /\ ~s.spoiled => mem.auth.refresh = up.refresh
    <3>1. ~up.rotates /\ Refreshes => mem.auth.refresh = up.refresh
      BY <1>1 DEF IInv, CopiesSound, Sound, SoundAt, Refreshes
    <3> QED
      BY <1>1, <1>5, <3>1 DEF IInv, NewestIsKept
  <2> QED
    BY <1>1, <1>4, <1>6, <2>1 DEF IInv, CopiesCurrent, MayTake, Refreshes
<1>14. Presented'
  BY <1>1, <1>3, <1>4, <1>6, AfterIsIdle DEF IInv, Presented, Refreshing, Refreshes
<1>15. ElsewhereStays'
  BY <1>1, <1>4, <1>6 DEF IInv, ElsewhereStays, Elsewhere, Took, MayTake
<1>16. NoNeedlessFailure'
  BY <1>1, <1>4, <1>6 DEF IInv, NoNeedlessFailure, Downgraded
<1> QED
  BY <1>7, <1>8, <1>9, <1>10, <1>11, <1>12, <1>13, <1>14, <1>15, <1>16 DEF IInv

-----------------------------------------------------------------------------
(***************************************************************************)
(* The upstream mints a token, and the answer arrives or is lost.          *)
(***************************************************************************)
LEMMA MintedIs ==
    ASSUME Shape
    PROVE  /\ Minted \in Upstream /\ Minted.access = up.access + 1
           /\ Minted.valid = up.valid \cup {up.access + 1}
           /\ Minted.refresh = IF up.rotates THEN up.refresh + 1 ELSE up.refresh
           /\ Minted.rotates = up.rotates /\ Minted.home = up.home
           /\ Grant \in Grants /\ Grant.access = up.access + 1
           /\ Grant.refresh = IF up.rotates THEN up.refresh + 1 ELSE 0
<1>1. /\ up.valid \in SUBSET Positive /\ up.access \in Nat /\ up.access + 1 \in Positive
      /\ up.refresh \in Positive /\ up.refresh + 1 \in Positive /\ up \in Upstream
  BY Shaped DEF Shape, Positive
<1> DEFINE n == up.access + 1
           v == up.valid \cup {up.access + 1}
           m == IF up.rotates THEN up.refresh + 1 ELSE up.refresh
<1>3. n \in Positive /\ v \in SUBSET Positive /\ m \in Positive
  BY <1>1
<1>4. Minted = [up EXCEPT !.access = n, !.valid = v, !.refresh = m]
  BY DEF Minted
<1> HIDE DEF n, v, m
<1>5. /\ Minted \in Upstream /\ Minted.access = n /\ Minted.valid = v /\ Minted.refresh = m
      /\ Minted.rotates = up.rotates /\ Minted.home = up.home
  BY <1>1, <1>3, <1>4 DEF Upstream
<1>6. Grant = [access |-> n, refresh |-> IF up.rotates THEN m ELSE 0]
  BY <1>5 DEF Grant
<1>7. Grant \in Grants /\ Grant.access = n /\ Grant.refresh = IF up.rotates THEN m ELSE 0
  BY <1>3, <1>6 DEF Grants, Positive
<1> QED
  BY <1>5, <1>7 DEF n, v, m

\* What a rotation does to the other chats.
LEMMA Overtaken ==
    ASSUME Shape, NEW c \in Chats, NEW to \in Standing, chat' = Overtaking(c, to)
    PROVE  /\ chat' \in [Chats -> Standing] /\ chat'[c] = to
           /\ \A d \in Chats \ {c} :
                 /\ chat'[d].pc = chat[d].pc /\ Same(chat'[d], chat[d])
                 /\ chat'[d].outcome = chat[d].outcome
                 /\ chat[d].spoiled \/ (up.rotates /\ MayTake(d)) => chat'[d].spoiled
<1>1. \A d \in Chats \ {c} : LET s == [chat[d] EXCEPT !.spoiled = TRUE]
                             IN  /\ s \in Standing /\ s.pc = chat[d].pc /\ Same(s, chat[d])
                                 /\ s.outcome = chat[d].outcome /\ s.spoiled
  BY Shaped, SpoiledIs
<1>2. \A d \in Chats \ {c} : chat[d] \in Standing /\ Same(chat[d], chat[d]) /\ chat[d].spoiled \in BOOLEAN
  BY Shaped DEF Standing, Same
<1>3. \A d \in Chats \ {c} : chat'[d] = IF up.rotates /\ MayTake(d)
                                        THEN [chat[d] EXCEPT !.spoiled = TRUE] ELSE chat[d]
  BY DEF Overtaking, MayTake
<1>4. \A d \in Chats : chat'[d] \in Standing
  BY <1>1, <1>2, <1>3 DEF Overtaking
<1>5. chat' \in [Chats -> Standing] /\ chat'[c] = to
  BY <1>4 DEF Overtaking
<1>6. ASSUME NEW d \in Chats \ {c}
      PROVE  /\ chat'[d].pc = chat[d].pc /\ Same(chat'[d], chat[d])
             /\ chat'[d].outcome = chat[d].outcome
             /\ chat[d].spoiled \/ (up.rotates /\ MayTake(d)) => chat'[d].spoiled
  <2>1. CASE up.rotates /\ MayTake(d)
    BY <1>1, <1>3, <2>1
  <2>2. CASE ~(up.rotates /\ MayTake(d))
    BY <1>2, <1>3, <2>2
  <2> QED
    BY <2>1, <2>2
<1> QED
  BY <1>5, <1>6

\* What a mint leaves sound.
LEMMA SoundAfterMint ==
    ASSUME Shape, NEW a, Sound(a), account.provider \in Authenticators
    PROVE  SoundAt(account.provider, Minted, a)
<1>1. up.refresh \in Nat /\ up.rotates \in BOOLEAN
  BY Shaped DEF Positive
<1>2. Minted.home = up.home /\ (Minted.refresh = up.refresh \/ Minted.refresh = up.refresh + 1)
  BY MintedIs
<1>3. a.refresh \in 1..up.refresh => a.refresh \in 1..Minted.refresh
  BY <1>1, <1>2
<1> QED
  BY <1>2, <1>3, Zenon DEF Sound, SoundAt

\* What both have in common: s is what becomes of the chat that asked.
LEMMA MintKeeps ==
    ASSUME IInv, NEW c \in Chats, NEW s \in Standing, chat[c].pc = "refused", Accepts(chat[c]),
           up' = Minted, chat' = Overtaking(c, s),
           UNCHANGED <<account, mem, disk, key, lock>>,
           faults' \in 0..MaxFaults, lost' \in BOOLEAN, lost => lost',
           s.after = "idle",
           s.auth.stored = chat[c].auth.stored, s.auth.method = chat[c].auth.method,
           SoundAt(account.provider, Minted, s.auth),
           s.pc \in {"refreshed", "refused", "report"},
           s.pc = "refreshed" => /\ s.auth.refresh = Minted.refresh
                                 /\ s.auth.extra["api_key"] \in Minted.valid
                                 /\ up.home = "oidc" => s.auth.tag # "idc"
                                 /\ s.outcome = chat[c].outcome /\ (chat[c].spoiled => s.spoiled),
           s.pc # "refreshed" => /\ s.auth = chat[c].auth /\ s.spoiled
                                 /\ up.rotates => lost'
    PROVE  IInv'
<1>1. /\ Refreshes /\ account.provider \in Authenticators /\ Sound(chat[c].auth) /\ mem.loaded
      /\ chat[c].auth.method = mem.auth.method /\ Keyed(chat[c].auth) /\ chat[c].auth \in Auth
      /\ chat[c].auth.refresh = up.refresh
  BY Shaped DEF IInv, Presented, CopiesSound, Locked, KeysHold, Refreshes, Accepts
<1>2. /\ up.access \in Positive /\ up.refresh \in Positive /\ up.rotates \in BOOLEAN
      /\ up.home \in {"desktop", "oidc"} /\ up.valid \subseteq Positive
  BY Shaped DEF IInv
<1>3. /\ up' \in Upstream /\ up'.valid = up.valid \cup {up.access + 1}
      /\ up'.refresh = (IF up.rotates THEN up.refresh + 1 ELSE up.refresh)
      /\ up'.rotates = up.rotates /\ up'.home = up.home
  BY MintedIs DEF IInv
<1>4. /\ chat' \in [Chats -> Standing] /\ chat'[c] = s
      /\ \A d \in Chats \ {c} :
            /\ chat'[d].pc = chat[d].pc /\ Same(chat'[d], chat[d])
            /\ chat'[d].outcome = chat[d].outcome
            /\ chat[d].spoiled \/ (up.rotates /\ MayTake(d)) => chat'[d].spoiled
  BY Overtaken DEF IInv
<1>5. ~up.rotates => up.refresh = 1
  BY DEF IInv, CopiesSound
<1>6. Shape'
  BY <1>3, <1>4 DEF IInv, Shape
<1>7. Locked' /\ SavedUnlessOnItsWay'
  BY <1>1, <1>4 DEF IInv, Locked, Saves, SavedUnlessOnItsWay, Same
<1>8. KeysHold'
  BY <1>1, <1>4 DEF IInv, KeysHold, Keyed, Kept, Same
<1>9. CopiesSound'
  <2>1. SoundAt(account.provider, up', disk.auth) /\ SoundAt(account.provider, up', mem.auth)
    BY <1>1, SoundAfterMint DEF IInv, CopiesSound
  <2>2. ASSUME NEW d \in Chats, chat'[d].pc # "idle"
        PROVE  SoundAt(account.provider, up', chat'[d].auth) /\ chat'[d].auth.method = mem.auth.method
    <3>1. CASE d = c
      BY <1>1, <1>4, <3>1
    <3>2. CASE d # c
      <4>1. Sound(chat[d].auth) /\ chat[d].auth.method = mem.auth.method /\ chat'[d].auth = chat[d].auth
        BY <1>4, <2>2, <3>2 DEF IInv, CopiesSound, Same
      <4> QED
        BY <1>1, <4>1, SoundAfterMint DEF IInv
    <3> QED
      BY <3>1, <3>2
  <2> QED
    BY <1>1, <1>3, <1>5, <2>1, <2>2 DEF IInv, CopiesSound, Sound, Refreshes
<1>10. OneTook'
  <2> SUFFICES ASSUME up.rotates, ~lost', NEW e \in Chats, Took(e)'
               PROVE  /\ chat'[e].auth.refresh = up'.refresh
                      /\ mem.auth.refresh < up'.refresh
                      /\ \A d \in Chats \ {e} : (MayTake(d) \/ Took(d))' => chat'[d].auth.refresh < up'.refresh
    BY <1>3 DEF OneTook
  <2>1. s.pc = "refreshed" /\ ~lost
    OBVIOUS
  <2>2. e = c
    <3> SUFFICES ASSUME e # c PROVE FALSE
      OBVIOUS
    <3>1. Took(e)
      BY <1>4 DEF Took
    <3> QED
      BY <1>1, <1>2, <2>1, <3>1 DEF IInv, OneTook, MayTake, Positive
  <2>3. mem.auth.refresh \in 1..up.refresh
    BY <1>1 DEF IInv, CopiesSound, Sound, SoundAt
  <2>4. \A d \in Chats \ {c} : (MayTake(d) \/ Took(d))' => chat'[d].auth.refresh \in 1..up.refresh
    BY <1>1, <1>4 DEF IInv, CopiesSound, MayTake, Took, Sound, SoundAt, Same
  <2> QED
    BY <1>2, <1>3, <1>4, <2>1, <2>2, <2>3, <2>4 DEF Positive
<1>11. NewestIsKept'
  <2>1. CASE s.pc = "refreshed"
    BY <1>1, <1>4, <2>1 DEF NewestIsKept, Took
  <2>2. CASE s.pc # "refreshed"
    BY <1>1, <1>3, <1>4, <2>2 DEF IInv, NewestIsKept, Took, Refreshes
  <2> QED
    BY <2>1, <2>2
<1>12. CopiesCurrent'
  <2> SUFFICES ASSUME ~lost', NEW d \in Chats, MayTake(d)', ~chat'[d].spoiled
               PROVE  chat'[d].auth.refresh = up'.refresh
    BY DEF CopiesCurrent
  <2>1. d # c
    BY <1>4 DEF MayTake
  <2>2. MayTake(d) /\ ~chat[d].spoiled /\ ~up.rotates /\ chat'[d].auth = chat[d].auth
    BY <1>4, <2>1 DEF MayTake, Same
  <2> QED
    BY <1>1, <1>3, <2>2 DEF IInv, CopiesCurrent
<1>13. Presented'
  BY <1>1, <1>3, <1>4 DEF IInv, Presented, Refreshing, Refreshes, Same
<1>14. ElsewhereStays'
  BY <1>1, <1>3, <1>4 DEF IInv, ElsewhereStays, Elsewhere, Took, MayTake, Same
<1>15. NoNeedlessFailure'
  <2> SUFFICES ASSUME NEW d \in Chats, chat'[d].outcome = "failed", ~chat'[d].spoiled, ~lost', ~Downgraded'
               PROVE  FALSE
    BY DEF NoNeedlessFailure
  <2>1. chat[d].outcome = "failed" /\ ~chat[d].spoiled
    BY <1>4
  <2>2. ~Downgraded
    BY <1>3 DEF Downgraded
  <2> QED
    BY <1>1, <2>1, <2>2 DEF IInv, NoNeedlessFailure
<1> QED
  BY <1>6, <1>7, <1>8, <1>9, <1>10, <1>11, <1>12, <1>13, <1>14, <1>15 DEF IInv

\* What the chat has that was granted a token.
LEMMA GrantedIs ==
    ASSUME Shape, NEW a \in Auth, Sound(a), Refreshes, a.refresh = up.refresh,
           up.home = "oidc" => account.provider = "kiro"
    PROVE  LET b == Refreshed(account.provider, a, Grant)
           IN  /\ b \in Auth /\ b.stored = a.stored /\ b.method = a.method
               /\ SoundAt(account.provider, Minted, b) /\ b.refresh = Minted.refresh
               /\ b.extra["api_key"] \in Minted.valid
               /\ up.home = "oidc" => b.tag # "idc"
<1> DEFINE b == Refreshed(account.provider, a, Grant)
<1>1. /\ Grant \in Grants /\ Grant.access = up.access + 1
      /\ Grant.refresh = (IF up.rotates THEN up.refresh + 1 ELSE 0)
      /\ Minted.refresh = (IF up.rotates THEN up.refresh + 1 ELSE up.refresh)
      /\ Minted.valid = up.valid \cup {up.access + 1} /\ Minted.home = up.home
      /\ up.refresh \in Positive
  BY MintedIs, Shaped
<1>2. account.provider \in Authenticators
  BY DEF Refreshes
<1>3. /\ b \in Auth /\ b.extra["api_key"] = Grant.access
      /\ b.refresh = Keep(Grant.refresh, a.refresh)
      /\ b.stored = a.stored /\ b.method = a.method /\ b.client = a.client
      /\ b.tag = IF account.provider = "kiro" THEN encode_refresh_token(KiroMethod(a), FALSE) ELSE a.tag
  BY <1>1, <1>2, RefreshedIs
<1> HIDE DEF b
<1>4. b.refresh = Minted.refresh /\ b.refresh \in 1..Minted.refresh
  BY <1>1, <1>3 DEF Keep, Positive
<1>5. b.tag = a.tag \/ b.tag # "idc"
  BY <1>3, EncodedIsNotIdc
<1>6. up.home = "oidc" => b.tag # "idc"
  BY <1>3, EncodedIsNotIdc
<1>7. SoundAt(account.provider, Minted, b)
  BY <1>1, <1>2, <1>3, <1>4, <1>5, Zenon DEF Sound, SoundAt
<1> QED
  BY <1>1, <1>3, <1>4, <1>6, <1>7 DEF b

LEMMA ExchangeKeeps == ASSUME IInv, NEW c \in Chats, Exchange(c) PROVE IInv'
<1> DEFINE r == chat[c]
           b == Refreshed(account.provider, r.auth, Grant)
           s == [r EXCEPT !.pc = "refreshed", !.auth = b]
<1>1. /\ r.pc = "refused" /\ Accepts(r) /\ up' = Minted /\ chat' = Overtaking(c, s)
      /\ UNCHANGED <<account, mem, disk, key, lock, faults, lost>>
  BY DEF Exchange
<1>2. /\ r \in Standing /\ r.auth \in Auth /\ Refreshes /\ Sound(r.auth) /\ r.auth.refresh = up.refresh
      /\ up.home = "oidc" => account.provider = "kiro"
  BY <1>1, Shaped DEF IInv, Presented, CopiesSound, Accepts
<1>3. /\ b \in Auth /\ b.stored = r.auth.stored /\ b.method = r.auth.method
      /\ SoundAt(account.provider, Minted, b) /\ b.refresh = Minted.refresh
      /\ b.extra["api_key"] \in Minted.valid
      /\ up.home = "oidc" => b.tag # "idc"
  BY <1>2, GrantedIs DEF IInv
<1> HIDE DEF b
<1>4. /\ s \in Standing /\ s.pc = "refreshed" /\ s.auth = b /\ s.after = r.after
      /\ s.outcome = r.outcome /\ s.spoiled = r.spoiled
  BY <1>2, <1>3, RefreshedChat
<1>5. r.after = "idle"
  BY <1>1, AfterIsIdle DEF Saves
<1>6. faults' \in 0..MaxFaults /\ lost' \in BOOLEAN
  BY <1>1 DEF IInv, Shape
<1> HIDE DEF s
<1> QED
  BY <1>1, <1>3, <1>4, <1>5, <1>6, MintKeeps

LEMMA AnswerLostKeeps == ASSUME IInv, NEW c \in Chats, AnswerLost(c) PROVE IInv'
<1> DEFINE r == chat[c]
           u == Unrefreshed(r)
           s == [u EXCEPT !.spoiled = TRUE]
<1>1. /\ r.pc = "refused" /\ Accepts(r) /\ up' = Minted /\ chat' = Overtaking(c, s)
      /\ UNCHANGED <<account, mem, disk, key, lock>> /\ lost' = (lost \/ up.rotates)
  BY DEF AnswerLost
<1>2. r \in Standing /\ Refreshes /\ Sound(r.auth)
  BY <1>1, Shaped DEF IInv, Presented, CopiesSound
<1>3. u \in Standing /\ Same(u, r) /\ (u.pc = r.pc \/ u.pc = "report")
  BY <1>2, UnrefreshedIs
<1> HIDE DEF u
<1>4. s \in Standing /\ s.pc = u.pc /\ Same(s, u) /\ s.spoiled
  BY <1>3, SpoiledIs
<1> HIDE DEF s
<1>5. r.after = "idle"
  BY <1>1, AfterIsIdle DEF Saves
<1>6. faults' \in 0..MaxFaults
  BY CredentialsAssumption DEF AnswerLost, IInv, Shape
<1>7. lost' \in BOOLEAN
  BY <1>1, Shaped DEF IInv, Shape
<1>8. SoundAt(account.provider, Minted, r.auth)
  BY <1>2, SoundAfterMint DEF IInv, Refreshes
<1> QED
  BY <1>1, <1>3, <1>4, <1>5, <1>6, <1>7, <1>8, MintKeeps DEF Same

-----------------------------------------------------------------------------
(***************************************************************************)
(* A refreshed credential is stored, and the file is written.              *)
(***************************************************************************)
\* What sends the newest token elsewhere sends every later one there.
LEMMA ElsewhereForGood ==
    ASSUME IInv, NEW c \in Chats, Took(c), Elsewhere(mem.auth)
    PROVE  Elsewhere(chat[c].auth)
<1>1. /\ up.home = "oidc" /\ account.provider = "kiro" /\ chat[c].auth.tag # "idc"
      /\ Sound(chat[c].auth) /\ chat[c].auth.method = mem.auth.method
      /\ Endpoint("kiro", mem.auth) # "oidc"
  BY DEF IInv, CopiesSound, ElsewhereStays, Elsewhere, Took
<1>2. chat[c].auth.method \in {"none", "idc"}
  BY <1>1 DEF Sound, SoundAt
<1>3. chat[c].auth.method # "idc"
  BY <1>1, <1>2, OidcEndpoint
<1> QED
  BY <1>1, <1>2, <1>3, OidcEndpoint DEF Elsewhere

LEMMA UpdateAuthKeeps == ASSUME IInv, NEW c \in Chats, UpdateAuth(c) PROVE IInv'
<1> DEFINE r == chat[c]
           s == Saving(r, "retry")
<1>1. /\ Took(c) /\ r.pc = "refreshed" /\ lock = Free /\ lock' = c /\ r \in Standing /\ r.auth \in Auth
      /\ mem' = [mem EXCEPT !.auth = r.auth] /\ chat' = [chat EXCEPT ![c] = s]
      /\ UNCHANGED <<account, up, disk, key, faults, lost>>
  BY Shaped DEF UpdateAuth, IInv, To, Took
<1>2. /\ mem' \in Manager /\ mem'.auth = r.auth /\ mem'.loaded = mem.loaded /\ mem'.encrypt = mem.encrypt
  BY <1>1 DEF IInv, Shape, Manager
<1>3. /\ s \in Standing /\ s.pc = "saving" /\ s.after = "retry" /\ s.auth = r.auth
      /\ s.outcome = r.outcome /\ s.spoiled = r.spoiled
  BY <1>1, SavingIs
<1> HIDE DEF s
<1>4. /\ chat'[c] = s /\ \A d \in Chats \ {c} : chat'[d] = chat[d]
      /\ chat' \in [Chats -> Standing]
  BY <1>1, <1>3, OneMoves DEF IInv
<1>5. /\ mem.loaded /\ Refreshes /\ Sound(r.auth) /\ r.auth.method = mem.auth.method /\ Keyed(r.auth)
      /\ r.auth.extra["api_key"] \in up.valid
  BY <1>1 DEF IInv, Locked, Presented, CopiesSound, KeysHold, Refreshing
<1>6. Elsewhere(mem.auth) => Elsewhere(r.auth)
  BY <1>1, ElsewhereForGood
<1>7. Shape'
  BY <1>1, <1>2, <1>4 DEF IInv, Shape
<1>8. Locked'
  BY <1>1, <1>2, <1>3, <1>4, <1>5, ChatsAssumption DEF IInv, Locked, Saves
<1>9. SavedUnlessOnItsWay'
  BY <1>3, <1>4 DEF SavedUnlessOnItsWay
<1>10. KeysHold'
  BY <1>1, <1>2, <1>3, <1>4, <1>5 DEF IInv, KeysHold, Keyed, Kept
<1>11. CopiesSound'
  BY <1>1, <1>2, <1>3, <1>4, <1>5 DEF IInv, CopiesSound, Sound, Refreshes
<1>12. OneTook'
  <2> SUFFICES ASSUME up.rotates, ~lost, NEW e \in Chats, Took(e)' PROVE FALSE
    BY <1>1 DEF OneTook
  <2>1. e # c /\ Took(e)
    BY <1>3, <1>4 DEF Took
  <2>2. /\ r.auth.refresh = up.refresh /\ r.auth.refresh < up.refresh
    BY <1>1, <2>1 DEF IInv, OneTook
  <2> QED
    BY <2>2, Shaped DEF IInv, Positive
<1>13. NewestIsKept'
  <2>1. ~lost => r.auth.refresh = up.refresh
    <3>1. CASE up.rotates
      BY <1>1, <3>1 DEF IInv, OneTook
    <3>2. CASE ~up.rotates
      BY <1>5, <3>2 DEF IInv, CopiesSound, Sound, SoundAt, Refreshes
    <3> QED
      BY <3>1, <3>2
  <2> QED
    BY <1>1, <1>2, <1>5, <2>1 DEF NewestIsKept
<1>14. CopiesCurrent'
  BY <1>1, <1>3, <1>4 DEF IInv, CopiesCurrent, MayTake, Refreshes
<1>15. Presented'
  BY <1>1, <1>3, <1>4, <1>5 DEF IInv, Presented, Refreshing, Refreshes
<1>16. ElsewhereStays'
  <2>1. ASSUME NEW d \in Chats, MayTake(d)', Elsewhere(chat'[d].auth) PROVE Elsewhere(mem'.auth)
    <3>1. MayTake(d) /\ chat'[d] = chat[d]
      BY <1>3, <1>4, <2>1 DEF MayTake
    <3> QED
      BY <1>2, <1>6, <2>1, <3>1 DEF IInv, ElsewhereStays
  <2>2. ASSUME NEW d \in Chats, Took(d)', up.home = "oidc" PROVE chat'[d].auth.tag # "idc"
    BY <1>3, <1>4, <2>2 DEF IInv, ElsewhereStays, Took
  <2> QED
    BY <1>1, <2>1, <2>2 DEF ElsewhereStays, Elsewhere
<1>17. NoNeedlessFailure'
  <2>1. Downgraded => Downgraded'
    BY <1>1, <1>2, <1>6 DEF Downgraded, Elsewhere
  <2> QED
    BY <1>1, <1>3, <1>4, <2>1 DEF IInv, NoNeedlessFailure
<1> QED
  BY <1>7, <1>8, <1>9, <1>10, <1>11, <1>12, <1>13, <1>14, <1>15, <1>16, <1>17 DEF IInv

\* A save goes a step further: the manager has not changed, the file has kept
\* what it says.
LEMMA SaveMovesOn ==
    ASSUME IInv, NEW c \in Chats, Saves(c), NEW p \in {"keying", "sealing", "writing"},
           chat' = [chat EXCEPT ![c] = [chat[c] EXCEPT !.pc = p]],
           UNCHANGED <<account, up, mem, lock, faults, lost>>,
           disk' \in AccountsFile, disk'.auth = disk.auth, disk'.key = disk.key,
           key' \in KeyFile,
           key' # key => key.file # "written" /\ (key'.file = "written" => key'.made # 0),
           p = "keying" => key'.file # "written",
           p \in {"sealing", "writing"} /\ mem.encrypt => key'.file = "written"
    PROVE  IInv'
<1> DEFINE r == chat[c]
           s == [r EXCEPT !.pc = p]
<1>1. r \in Standing /\ mem.loaded
  BY Shaped DEF IInv, Locked, Saves
<1>2. s \in Standing /\ s.pc = p /\ Same(s, r) /\ s.outcome = r.outcome /\ s.spoiled = r.spoiled
  <2>1. p \in Places
    BY DEF Places
  <2> QED
    BY <1>1, <2>1, MovedIs
<1>3. /\ chat'[c] = s /\ \A d \in Chats \ {c} : chat'[d] = chat[d]
      /\ chat' \in [Chats -> Standing]
  BY <1>1, <1>2, OneMoves DEF IInv
<1>4. s.pc \in {"keying", "sealing", "writing"} /\ r.pc \in {"saving", "keying", "sealing", "writing"}
  BY <1>2 DEF Saves
<1> HIDE DEF s
<1>5. Shape'
  BY <1>3 DEF IInv, Shape
<1>6. Locked' /\ SavedUnlessOnItsWay'
  BY <1>1, <1>2, <1>3, <1>4 DEF IInv, Locked, Saves, SavedUnlessOnItsWay, Same
<1>7. KeysHold'
  <2>1. \A d \in Chats \ {c} : chat'[d].pc \notin {"keying", "sealing", "writing"}
    BY <1>3 DEF IInv, Locked, Saves
  <2>2. /\ chat'[c].pc = "keying" => key'.file # "written"
        /\ chat'[c].pc \in {"sealing", "writing"} /\ mem.encrypt => key'.file = "written"
    BY <1>2, <1>3
  <2>3. \A d \in Chats : chat'[d].pc # "idle" => chat[d].pc # "idle" /\ chat'[d].auth = chat[d].auth
    BY <1>2, <1>3, <1>4 DEF Same
  <2>4. CASE key' = key
    BY <2>1, <2>2, <2>3, <2>4 DEF IInv, KeysHold, Keyed, Kept
  <2>5. CASE key' # key
    <3>1. key.file # "written" /\ (key'.file = "written" => key'.made # 0)
      BY <2>5
    <3>2. disk.key = 0 /\ disk.auth.stored = 0 /\ mem.auth.stored = 0
      BY <1>1, <3>1 DEF IInv, KeysHold, Keyed, Kept
    <3>3. \A d \in Chats : chat[d].pc # "idle" => chat[d].auth.stored = 0
      BY <3>1 DEF IInv, KeysHold, Keyed, Kept
    <3> QED
      BY <2>1, <2>2, <2>3, <3>1, <3>2, <3>3 DEF KeysHold, Keyed
  <2> QED
    BY <2>4, <2>5
<1>8. CopiesSound'
  BY <1>2, <1>3, <1>4 DEF IInv, CopiesSound, Sound, Refreshes, Same
<1>9. OneTook' /\ NewestIsKept' /\ CopiesCurrent'
  BY <1>3, <1>4 DEF IInv, OneTook, NewestIsKept, CopiesCurrent, Took, MayTake, Refreshes
<1>10. Presented'
  BY <1>2, <1>3, <1>4 DEF IInv, Presented, Refreshing, Refreshes, Same
<1>11. ElsewhereStays'
  BY <1>3, <1>4 DEF IInv, ElsewhereStays, Elsewhere, Took, MayTake
<1>12. NoNeedlessFailure'
  BY <1>2, <1>3 DEF IInv, NoNeedlessFailure, Downgraded
<1> QED
  BY <1>5, <1>6, <1>7, <1>8, <1>9, <1>10, <1>11, <1>12 DEF IInv

LEMMA CreateKeyKeeps == ASSUME IInv, NEW c \in Chats, CreateKey(c) PROVE IInv'
<1>1. /\ Saves(c) /\ chat' = [chat EXCEPT ![c] = [chat[c] EXCEPT !.pc = "keying"]]
      /\ key.file # "written" /\ key' = [key EXCEPT !.file = "empty"]
      /\ UNCHANGED <<account, up, mem, disk, lock, faults, lost>>
  BY DEF CreateKey, NeedsKey, Saves, To
<1>2. key' \in KeyFile /\ key'.file = "empty" /\ disk' \in AccountsFile
  BY <1>1 DEF IInv, Shape, KeyFile
<1> QED
  BY <1>1, <1>2, SaveMovesOn

LEMMA WriteKeyKeeps == ASSUME IInv, NEW c \in Chats, WriteKey(c) PROVE IInv'
<1>1. /\ Saves(c) /\ chat' = [chat EXCEPT ![c] = [chat[c] EXCEPT !.pc = "sealing"]]
      /\ key.file # "written" /\ key' = Written(key.made + 1)
      /\ UNCHANGED <<account, up, mem, disk, lock, faults, lost>>
  BY DEF WriteKey, Saves, To, IInv, KeysHold
<1>2. /\ key' \in KeyFile /\ key'.file = "written" /\ key'.made # 0 /\ disk' \in AccountsFile
  BY <1>1, Shaped DEF IInv, Shape, KeyFile, Written
<1> QED
  BY <1>1, <1>2, SaveMovesOn

LEMMA SealKeeps == ASSUME IInv, NEW c \in Chats, Seal(c) PROVE IInv'
<1>1. /\ Saves(c) /\ chat' = [chat EXCEPT ![c] = [chat[c] EXCEPT !.pc = "writing"]]
      /\ disk' = [disk EXCEPT !.torn = TRUE]
      /\ UNCHANGED <<account, up, mem, key, lock, faults, lost>>
  BY DEF Seal, Saves, To
<1>2. /\ key' \in KeyFile /\ disk' \in AccountsFile /\ disk'.auth = disk.auth /\ disk'.key = disk.key
  BY <1>1 DEF IInv, Shape, AccountsFile
<1>3. mem.encrypt => key'.file = "written"
  BY <1>1 DEF Seal, NeedsKey, IInv, KeysHold
<1> QED
  BY <1>1, <1>2, <1>3, SaveMovesOn

\* The end of a save, whether it wrote the file or not.
LEMMA SavedKeeps ==
    ASSUME IInv, NEW c \in Chats, Saves(c),
           chat' = [chat EXCEPT ![c] = Released(chat[c])], lock' = Free,
           UNCHANGED <<account, up, key, lost>>, faults' \in 0..MaxFaults,
           mem' \in Manager, mem'.auth = mem.auth, mem'.loaded = mem.loaded, mem'.encrypt = mem.encrypt,
           disk' \in AccountsFile,
           \/ disk' = disk /\ mem'.unsaved
           \/ disk'.auth = mem.auth /\ (disk'.key # 0 => Kept(disk'.key) /\ mem.encrypt)
    PROVE  IInv'
<1> DEFINE r == chat[c]
           s == Released(r)
<1>1. r \in Standing /\ mem.loaded /\ r.pc # "idle"
  BY Shaped DEF IInv, Locked, Saves
<1>2. /\ s \in Standing /\ s.pc = r.after /\ s.after = "idle" /\ s.auth = r.auth
      /\ s.outcome = r.outcome /\ s.spoiled = r.spoiled
      /\ r.auth.extra["api_key"] # 0 => s.secret = r.auth.extra["api_key"]
  BY <1>1, ReleasedIs
<1>3. s.pc \in {"idle", "retry"} /\ (s.pc = "retry" => c \in Refreshing)
  BY <1>1, <1>2 DEF Standing, Refreshing
<1> HIDE DEF s
<1>4. /\ chat'[c] = s /\ \A d \in Chats \ {c} : chat'[d] = chat[d]
      /\ chat' \in [Chats -> Standing]
  BY <1>2, OneMoves DEF IInv, s
<1>5. Shape'
  BY <1>4 DEF IInv, Shape
<1>6. Locked'
  <2>1. \A d \in Chats \ {c} : ~Saves(d)
    BY DEF IInv, Locked
  <2> QED
    BY <1>1, <1>2, <1>3, <1>4, <2>1 DEF IInv, Locked, Saves
<1>7. SavedUnlessOnItsWay'
  BY DEF SavedUnlessOnItsWay
<1>8. KeysHold'
  BY <1>1, <1>2, <1>3, <1>4 DEF IInv, KeysHold, Keyed, Kept
<1>9. CopiesSound'
  BY <1>1, <1>2, <1>3, <1>4 DEF IInv, CopiesSound, Sound, Refreshes
<1>10. OneTook' /\ NewestIsKept' /\ CopiesCurrent'
  BY <1>1, <1>3, <1>4 DEF IInv, OneTook, NewestIsKept, CopiesCurrent, Took, MayTake, Refreshes, Saves
<1>11. Presented'
  <2>1. c \in Refreshing => r.auth.extra["api_key"] \in up.valid /\ r.auth.extra["api_key"] # 0
    BY Shaped DEF IInv, Presented, Positive
  <2> QED
    BY <1>2, <1>3, <1>4, <2>1 DEF IInv, Presented, Refreshing, Refreshes
<1>12. ElsewhereStays'
  BY <1>3, <1>4 DEF IInv, ElsewhereStays, Elsewhere, Took, MayTake
<1>13. NoNeedlessFailure'
  BY <1>2, <1>4 DEF IInv, NoNeedlessFailure, Downgraded
<1> QED
  BY <1>5, <1>6, <1>7, <1>8, <1>9, <1>10, <1>11, <1>12, <1>13 DEF IInv

LEMMA SaveAccountsKeeps == ASSUME IInv, NEW c \in Chats, save_accounts(c) PROVE IInv'
<1>1. /\ chat[c].pc = "writing" /\ lock' = Free /\ chat' = [chat EXCEPT ![c] = Released(chat[c])]
      /\ disk' = [auth |-> mem.auth, key |-> IF mem.encrypt THEN key.made ELSE 0, torn |-> FALSE]
      /\ mem' = [mem EXCEPT !.unsaved = FALSE]
      /\ UNCHANGED <<account, up, key, faults, lost>>
  BY DEF save_accounts, To
<1>2. /\ mem' \in Manager /\ mem'.auth = mem.auth /\ mem'.loaded = mem.loaded
      /\ mem'.encrypt = mem.encrypt
  BY <1>1 DEF IInv, Shape, Manager
<1>3. key.made \in Nat /\ mem.auth \in Auth /\ (mem.encrypt => Kept(key.made))
  BY <1>1, Shaped DEF IInv, KeysHold, Kept
<1>4. /\ disk' \in AccountsFile /\ disk'.auth = mem.auth
      /\ disk'.key # 0 => Kept(disk'.key) /\ mem.encrypt
  BY <1>1, <1>3 DEF AccountsFile
<1>5. faults' \in 0..MaxFaults /\ Saves(c)
  BY <1>1 DEF IInv, Shape, Saves
<1> QED
  BY <1>1, <1>2, <1>4, <1>5, SavedKeeps

LEMMA SaveFailsKeeps == ASSUME IInv, NEW c \in Chats, SaveFails(c) PROVE IInv'
<1>1. /\ Saves(c) /\ lock' = Free /\ chat' = [chat EXCEPT ![c] = Released(chat[c])]
      /\ mem' = [mem EXCEPT !.unsaved = TRUE]
      /\ UNCHANGED <<account, up, disk, key, lost>>
  BY DEF SaveFails, Saves, To
<1>2. /\ mem' \in Manager /\ mem'.auth = mem.auth /\ mem'.loaded = mem.loaded
      /\ mem'.encrypt = mem.encrypt /\ mem'.unsaved
  BY <1>1 DEF IInv, Shape, Manager
<1>3. faults' \in 0..MaxFaults /\ disk' \in AccountsFile
  BY <1>1, CredentialsAssumption DEF SaveFails, IInv, Shape
<1> QED
  BY <1>1, <1>2, <1>3, SavedKeeps

-----------------------------------------------------------------------------
(***************************************************************************)
(* The upstream and the end of the process.                                *)
(***************************************************************************)
LEMMA ExpireKeeps == ASSUME IInv, Expire PROVE IInv'
<1>1. /\ UNCHANGED <<account, mem, disk, key, chat, lock, faults, lost>>
      /\ Refreshing = {} /\ up' = [up EXCEPT !.valid = {}]
  BY DEF Expire
<1>2. /\ up' \in Upstream /\ up'.valid = {} /\ up'.refresh = up.refresh /\ up'.rotates = up.rotates
      /\ up'.home = up.home
  BY <1>1 DEF IInv, Shape, Upstream
<1>3. Shape' /\ Locked' /\ SavedUnlessOnItsWay' /\ KeysHold'
  BY <1>1, <1>2 DEF IInv, Shape, Locked, Saves, SavedUnlessOnItsWay, KeysHold, Keyed, Kept
<1>4. CopiesSound'
  BY <1>1, <1>2 DEF IInv, CopiesSound, Sound, SoundAt, Refreshes
<1>5. OneTook' /\ NewestIsKept' /\ CopiesCurrent'
  BY <1>1, <1>2 DEF IInv, OneTook, NewestIsKept, CopiesCurrent, Took, MayTake, Refreshes
<1>6. Presented'
  BY <1>1 DEF IInv, Presented, Refreshing, Refreshes
<1>7. ElsewhereStays' /\ NoNeedlessFailure'
  BY <1>1, <1>2 DEF IInv, ElsewhereStays, NoNeedlessFailure, Elsewhere, Took, MayTake,
                    Downgraded
<1> QED
  BY <1>3, <1>4, <1>5, <1>6, <1>7 DEF IInv

LEMMA CrashKeeps == ASSUME IInv, Crash PROVE IInv'
<1>1. /\ mem.loaded /\ mem' = NotLoaded /\ lock' = Free /\ chat' = [c \in Chats |-> Idle]
      /\ lost' = (lost \/ disk.torn \/ mem.unsaved \/ Refreshing # {})
      /\ UNCHANGED <<account, up, disk, key>>
  BY DEF Crash
<1>2. mem' \in Manager /\ mem'.loaded = FALSE
  BY <1>1, EmptyIsAuth DEF NotLoaded, Manager
<1>3. \A c \in Chats : chat'[c] = Idle /\ chat'[c].pc = "idle" /\ chat'[c].outcome = "none"
                       /\ chat'[c].after = "idle" /\ chat'[c] \in Standing
  BY <1>1, IdleIs
<1>4. Shape'
  <2>1. lost' \in BOOLEAN
    BY <1>1, Shaped DEF IInv, Shape
  <2>2. faults' \in 0..MaxFaults
    BY CredentialsAssumption DEF Crash, IInv, Shape
  <2>3. chat' \in [Chats -> Standing]
    BY <1>1, IdleIs
  <2> QED
    BY <1>1, <1>2, <2>1, <2>2, <2>3 DEF IInv, Shape
<1>5. Locked' /\ SavedUnlessOnItsWay'
  BY <1>2, <1>3 DEF Locked, Saves, SavedUnlessOnItsWay
<1>6. KeysHold'
  BY <1>1, <1>2, <1>3 DEF IInv, KeysHold, Keyed, Kept
<1>7. CopiesSound'
  BY <1>1, <1>2, <1>3 DEF IInv, CopiesSound, Sound, Refreshes
<1>8. OneTook' /\ CopiesCurrent' /\ Presented' /\ ElsewhereStays'
  BY <1>3 DEF OneTook, CopiesCurrent, Presented, ElsewhereStays, Took, MayTake, Refreshing
<1>9. NewestIsKept'
  <2> SUFFICES ASSUME ~lost', Refreshes PROVE disk.auth.refresh = up.refresh
    BY <1>1, <1>2 DEF NewestIsKept, Refreshes
  <2>1. ~lost /\ ~mem.unsaved /\ Refreshing = {}
    BY <1>1
  <2>2. \A c \in Chats : ~Took(c) /\ chat[c].after # "retry"
    BY <2>1 DEF Refreshing, Took
  <2>3. mem.auth.refresh = up.refresh
    BY <1>1, <2>1, <2>2 DEF IInv, NewestIsKept
  <2>4. disk.auth = mem.auth
    BY <1>1, <2>1, <2>2 DEF IInv, SavedUnlessOnItsWay
  <2> QED
    BY <2>3, <2>4
<1>10. NoNeedlessFailure'
  BY <1>1, <1>3 DEF IInv, NoNeedlessFailure
<1> QED
  BY <1>4, <1>5, <1>6, <1>7, <1>8, <1>9, <1>10 DEF IInv

LEMMA StutterKeeps == ASSUME IInv, UNCHANGED vars PROVE IInv'
<1>1. UNCHANGED <<account, up, mem, disk, key, chat, lock, faults, lost>>
  BY DEF vars
<1>2. Shape' /\ Locked' /\ SavedUnlessOnItsWay' /\ KeysHold'
  BY <1>1 DEF IInv, Shape, Locked, Saves, SavedUnlessOnItsWay, KeysHold, Keyed, Kept
<1>3. CopiesSound' /\ OneTook' /\ NewestIsKept' /\ CopiesCurrent'
  BY <1>1 DEF IInv, CopiesSound, Sound, OneTook, NewestIsKept, CopiesCurrent, Took, MayTake, Refreshes
<1>4. Presented' /\ ElsewhereStays' /\ NoNeedlessFailure'
  BY <1>1 DEF IInv, Presented, ElsewhereStays, NoNeedlessFailure, Refreshing, Refreshes,
              Elsewhere, Took, MayTake, Downgraded
<1> QED
  BY <1>2, <1>3, <1>4 DEF IInv

LEMMA NextKeeps == IInv /\ [Next]_vars => IInv'
<1> SUFFICES ASSUME IInv, [Next]_vars PROVE IInv'
  OBVIOUS
<1>1. CASE Load
  BY <1>1, LoadKeeps
<1>2. ASSUME NEW c \in Chats, Step(c) PROVE IInv'
  BY <1>2, ChooseKeeps, SendKeeps, ExchangeKeeps, RefuseKeeps, UpdateAuthKeeps, ReportKeeps, CreateKeyKeeps,
     WriteKeyKeeps, SealKeeps,
     SaveAccountsKeeps, RetryKeeps DEF Step
<1>3. ASSUME NEW c \in Chats, Unreached(c) \/ AnswerLost(c) \/ SaveFails(c) PROVE IInv'
  BY <1>3, UnreachedKeeps, AnswerLostKeeps, SaveFailsKeeps
<1>4. CASE Expire \/ Crash
  BY <1>4, ExpireKeeps, CrashKeeps
<1>5. CASE UNCHANGED vars
  BY <1>5, StutterKeeps
<1> QED
  BY <1>1, <1>2, <1>3, <1>4, <1>5 DEF Next

LEMMA Inductive == Spec => []IInv
<1>1. Init => IInv
  BY InitIInv
<1>2. IInv /\ [Next]_vars => IInv'
  BY NextKeeps
<1> QED
  BY <1>1, <1>2, PTL DEF Spec

-----------------------------------------------------------------------------
\* A chat whose credential is refused fails only for lack of a way to refresh
\* (client.rs:242-310 chat_with_manager).
THEOREM FailsOnlyForLackOfARefresh == Spec => []NoNeedlessFailure
<1>1. IInv => NoNeedlessFailure
  BY DEF IInv
<1> QED
  BY <1>1, Inductive, PTL

\* The newest refresh token is in the manager, and what the manager has is on
\* disk, as soon as nobody is on the way to put it there (manager.rs:177
\* update_auth, io.rs:99 save_accounts).
THEOREM NewestTokenIsKept == Spec => []StaysRefreshable
<1>1. IInv => StaysRefreshable
  <2> SUFFICES ASSUME IInv PROVE StaysRefreshable
    OBVIOUS
  <2>1. ASSUME mem.loaded, ~lost, Refreshing = {}, up.refresh > 1 PROVE mem.auth.refresh = up.refresh
    <3>1. Refreshes
      BY <2>1, Shaped DEF IInv, CopiesSound
    <3>2. \A c \in Chats : ~Took(c)
      BY <2>1 DEF Refreshing, Took
    <3> QED
      BY <2>1, <3>1, <3>2 DEF IInv, NewestIsKept
  <2>2. ASSUME mem.loaded, ~mem.unsaved, lock = Free PROVE disk.auth = mem.auth
    <3>1. \A c \in Chats : chat[c].after # "retry"
      BY <2>2, ChatsAssumption DEF IInv, Locked
    <3> QED
      BY <2>2, <3>1 DEF IInv, SavedUnlessOnItsWay
  <2> QED
    BY <2>1, <2>2 DEF StaysRefreshable
<1> QED
  BY <1>1, Inductive, PTL

\* What is sealed has its key in the key file, also while a key is made and
\* after the process was killed at any of its steps: a key is made only when
\* nothing is sealed (store.rs:46 get_or_create_key, io.rs:99 save_accounts).
THEOREM SealsCanBeOpened == Spec => []SealedFileReadable
<1>1. IInv => SealedFileReadable
  BY DEF IInv, KeysHold, Keyed, SealedFileReadable
<1> QED
  BY <1>1, Inductive, PTL

\* A sealed file is never written in the clear again, in the process that has
\* it or in one started later (manager.rs:44 load, io.rs:99 save_accounts).
THEOREM SealedFileStaysSealed == Spec => StaysSealed
<1>1. ASSUME IInv, [Next]_vars, disk.key # 0 PROVE disk'.key # 0
  <2>1. ASSUME NEW c \in Chats, save_accounts(c) PROVE disk'.key # 0
    <3>1. mem.loaded /\ mem.encrypt /\ chat[c].pc = "writing"
      BY <1>1, <2>1, Shaped DEF save_accounts, IInv, Locked, KeysHold
    <3>2. key.made # 0
      BY <1>1, <3>1 DEF IInv, KeysHold
    <3> QED
      BY <2>1, <3>1, <3>2 DEF save_accounts
  <2>2. ASSUME NEW c \in Chats, Seal(c) PROVE disk'.key = disk.key
    BY <1>1, <2>2 DEF Seal, IInv, Shape, AccountsFile
  <2>3. CASE \A c \in Chats : ~save_accounts(c) /\ ~Seal(c)
    <3>1. disk' = disk
      BY <1>1, <2>3 DEF Next, Step, vars, Load, Choose, Send, Exchange, Refuse, UpdateAuth, Report, CreateKey,
                        WriteKey, Retry, Unreached, AnswerLost, SaveFails, Expire, Crash
    <3> QED
      BY <1>1, <3>1
  <2> QED
    BY <1>1, <2>1, <2>2, <2>3
<1>2. IInv /\ [Next]_vars => [disk.key # 0 => disk'.key # 0]_vars
  BY <1>1
<1> QED
  BY <1>2, Inductive, PTL DEF Spec, StaysSealed
=============================================================================
