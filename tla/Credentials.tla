----------------------------- MODULE Credentials -----------------------------
(***************************************************************************)
(* The life of one account's credentials: the accounts file and the key    *)
(* file (gravity-accounts: store.rs, io.rs, manager.rs), the chats of a    *)
(* process that present the credential, refresh it when the upstream       *)
(* refuses it and save what they got (gravity-client/src/client.rs,        *)
(* chat_with_manager), and the process being killed and started again.     *)
(*                                                                         *)
(* Chats run concurrently: each works on the copy of the account it took   *)
(* under the lock of the manager, and takes the lock again to store a      *)
(* refreshed credential or its outcome.  Both files are written in place.  *)
(* Failover to another account and the health of accounts are in           *)
(* AccountRotation; here there is one account.                             *)
(***************************************************************************)
EXTENDS AuthRecords

CONSTANTS Chats,      \* the concurrent calls of the process
          Providers,  \* the providers the account may be of
          Methods,    \* the flows a kiro account may have been set up by
          MaxFaults   \* how many exchanges may go wrong, or the process be killed

Free == "free"

ASSUME CredentialsAssumption ==
    /\ MaxFaults \in Nat
    /\ Methods \subseteq {"desktop", "social", "idc"}
    /\ Providers \subseteq builtin
ASSUME ChatsAssumption == Free \notin Chats

VARIABLES account, \* [provider, form, name, secrets_encrypted]: as the file has them, but for provider
          up,      \* the upstream: [valid: access tokens it honours, access, refresh: the newest of each, rotates, home]
          mem,     \* the manager: [loaded, auth, encrypt, unsaved: a save of it failed], or NotLoaded
          disk,    \* accounts.json: [auth, key: the one that seals it or 0, torn]
          key,     \* .gravity.key: [file: missing, empty or written, made: how many keys there were]
          chat,    \* what each chat holds and where it is
          lock,    \* the chat that holds the manager's lock, or Free
          faults,  \* how many faults there were
          lost     \* a fault destroyed the only copy of the newest refresh token, or a file

vars == <<account, up, mem, disk, key, chat, lock, faults, lost>>

NotLoaded == [loaded |-> FALSE, auth |-> NoAuth, encrypt |-> FALSE, unsaved |-> FALSE]
Idle == [pc |-> "idle", auth |-> NoAuth, secret |-> 0, domain |-> 1, after |-> "idle",
         outcome |-> "none", spoiled |-> FALSE]

\* Where an account of a provider has its credential when it is set up: in a
\* field, in the store, in secret_ref itself, or with a refresh token.
In(f) == [NoAuth EXCEPT !.extra = [@ EXCEPT ![f] = 1]]
InStore == [NoAuth EXCEPT !.stored = 1]
InSecretRef == [NoAuth EXCEPT !.literal = 1]
WithRefresh(f) == [In(f) EXCEPT !.refresh = 1]
KiroLogin(t, m) == [WithRefresh("access_token") EXCEPT !.tag = t, !.method = m, !.client = TRUE]

Placements(p) ==
    CASE p = "claude" -> {In("session_key"), InStore, InSecretRef}
      [] p = "perplexity" -> {In("cookies")}
      [] p = "gemini" -> {In("cookies"), In("api_key")}
      [] p = "kiro" -> {KiroLogin(t, m) : t \in Methods, m \in {"none"} \cup Methods}
      [] p \in Authenticators \ {"kiro"} -> {WithRefresh(f) : f \in {"api_key", "access_token"}}
      [] p \in {"openai", "anthropic", "chatgpt", "glm", "windsurf"} -> {In("token"), InStore}

\* The key file: a kill between its creation and its one write leaves it empty.
NoKey == [file |-> "missing", made |-> 0]
EmptyKey == [file |-> "empty", made |-> 0]
Written(n) == [file |-> "written", made |-> n]

Consistent(auth) == auth.method # "none" => auth.method = auth.tag

Init ==
    /\ \E p \in Providers, legacy, setting \in BOOLEAN :
          account = [provider |-> p, form |-> IF legacy THEN "accounts" ELSE "emails",
                     name |-> IF legacy /\ p = "glm" THEN "zlm" ELSE p, secrets_encrypted |-> setting]
    /\ \E auth \in Placements(account.provider), rotates \in BOOLEAN, sealed \in BOOLEAN :
          /\ Consistent(auth)
          /\ up = [valid |-> {1}, access |-> 1, refresh |-> 1, rotates |-> rotates,
                   home |-> IF auth.tag = "idc" THEN "oidc" ELSE "desktop"]
          /\ disk = [auth |-> auth, key |-> IF sealed THEN 1 ELSE 0, torn |-> FALSE]
          /\ key \in IF sealed \/ auth.stored # 0 THEN {Written(1)} ELSE {NoKey, EmptyKey, Written(1)}
    /\ mem = NotLoaded
    /\ chat = [c \in Chats |-> Idle]
    /\ lock = Free
    /\ faults = 0
    /\ lost = FALSE

(***************************************************************************)
(* The files.                                                              *)
(***************************************************************************)
\* get_or_create_key: a missing or empty key file gets a new key, which opens
\* nothing that was sealed before.
get_or_create_key == IF key.file = "written" THEN key ELSE Written(key.made + 1)

\* decrypt_str with that key, of what is sealed with k.
Opens(k) == get_or_create_key.made = k
is_encrypted_content == disk.key # 0

\* migrate_value and rewrite_provider_names: a top-level list becomes a bundle.
rewrite_provider_names(a) == [a EXCEPT !.name = IF @ = "zlm" THEN "glm" ELSE @]
migrate_value(a) == [rewrite_provider_names(a) EXCEPT !.form = "emails"]

\* parse_accounts: the strict model has bundles and knows the names of today.
Parses(a) == a.form = "emails" /\ a.name = a.provider

\* What is saved is sealed if the file says so or there is a key file, which
\* may be empty.
encrypt_on_save_SettingOnly(k) == account.secrets_encrypted
encrypt_on_save(k) == account.secrets_encrypted \/ k.file # "missing"

\* Load: the manager is built from the file.  One that cannot be read is an
\* error of the caller.
Load ==
    /\ ~mem.loaded /\ ~disk.torn /\ Parses(migrate_value(account))
    /\ key' = IF is_encrypted_content THEN get_or_create_key ELSE key
    /\ IF is_encrypted_content => Opens(disk.key)
       THEN /\ mem' = [NotLoaded EXCEPT !.loaded = TRUE, !.auth = disk.auth,
                                        !.encrypt = encrypt_on_save(key')]
            /\ account' = migrate_value(account)
       ELSE UNCHANGED <<mem, account>>
    /\ UNCHANGED <<up, disk, chat, lock, faults, lost>>

(***************************************************************************)
(* A chat.                                                                 *)
(***************************************************************************)
To(c, to) == chat' = [chat EXCEPT ![c] = to]
Outcome(r, result) == [r EXCEPT !.pc = "report", !.outcome = result]
Honoured(auth, secret) == Presents(account.provider, auth, secret) \in up.valid

\* Choose: under the lock, a copy of the account and its secret.  What cannot
\* be resolved is an empty secret.
Choose(c) ==
    /\ mem.loaded /\ lock = Free /\ chat[c].pc = "idle" /\ chat[c].outcome = "none"
    /\ key' = IF mem.auth.stored # 0 THEN get_or_create_key ELSE key
    /\ To(c, [Idle EXCEPT !.pc = "send", !.auth = mem.auth, !.secret = resolve_secret(mem.auth, Opens(1)),
                          !.spoiled = up.rotates /\ \E d \in Chats : chat[d].pc = "refreshed"])
    /\ UNCHANGED <<account, up, mem, disk, lock, faults, lost>>

\* Send: an adapter with an authenticator refreshes a refused credential.
Send(c) ==
    LET r == chat[c] IN
    /\ r.pc = "send"
    /\ To(c, CASE Honoured(r.auth, r.secret) -> Outcome(r, "ok")
               [] ~Honoured(r.auth, r.secret) /\ account.provider \in Authenticators
                    -> [r EXCEPT !.pc = "refused"]
               [] OTHER -> Outcome(r, "failed"))
    /\ UNCHANGED <<account, up, mem, disk, key, lock, faults, lost>>

\* refresh_credentials: the next domain, or the failure of the chat.
Unrefreshed(r) ==
    IF r.domain < Domains(account.provider) THEN [r EXCEPT !.domain = @ + 1] ELSE Outcome(r, "failed")

Accepts(r) == r.auth.refresh = up.refresh /\ Endpoint(account.provider, r.auth) = up.home

\* The upstream mints an access token; one that rotates replaces the refresh
\* token too, and the one before is refused from then on.
Minted == [up EXCEPT !.access = @ + 1, !.valid = @ \cup {up.access + 1},
                     !.refresh = IF up.rotates THEN @ + 1 ELSE @]
Grant == [access |-> Minted.access, refresh |-> IF up.rotates THEN Minted.refresh ELSE 0]

\* A rotation makes the copies of the other chats stale (spoiled is history:
\* the chat met a fault, or its copy was overtaken by a rotation).
Overtaking(c, to) ==
    [d \in Chats |-> IF d = c THEN to
                     ELSE IF up.rotates /\ chat[d].pc \in {"send", "refused"}
                     THEN [chat[d] EXCEPT !.spoiled = TRUE] ELSE chat[d]]

Exchange(c) ==
    LET r == chat[c] IN
    /\ r.pc = "refused" /\ Configured(account.provider, r.auth) /\ Accepts(r)
    /\ up' = Minted
    /\ chat' = Overtaking(c, [r EXCEPT !.pc = "refreshed", !.auth = Refreshed(account.provider, @, Grant)])
    /\ UNCHANGED <<account, mem, disk, key, lock, faults, lost>>

Refuse(c) ==
    LET r == chat[c] IN
    /\ r.pc = "refused"
    /\ To(c, IF ~Configured(account.provider, r.auth) THEN Outcome(r, "failed") ELSE Unrefreshed(r))
    /\ Configured(account.provider, r.auth) => ~Accepts(r)
    /\ UNCHANGED <<account, up, mem, disk, key, lock, faults, lost>>

\* A request that does not get through, or whose answer is lost on its way.
Unreached(c) ==
    LET r == chat[c] IN
    /\ r.pc = "refused" /\ Configured(account.provider, r.auth) /\ faults < MaxFaults
    /\ faults' = faults + 1
    /\ To(c, [Unrefreshed(r) EXCEPT !.spoiled = TRUE])
    /\ UNCHANGED <<account, up, mem, disk, key, lock, lost>>

AnswerLost(c) ==
    LET r == chat[c] IN
    /\ r.pc = "refused" /\ Configured(account.provider, r.auth) /\ Accepts(r)
    /\ faults < MaxFaults
    /\ faults' = faults + 1
    /\ up' = Minted
    /\ lost' = (lost \/ up.rotates)
    /\ chat' = Overtaking(c, [Unrefreshed(r) EXCEPT !.spoiled = TRUE])
    /\ UNCHANGED <<account, mem, disk, key, lock>>

\* UpdateAuth and Report take the lock: the one stores the refreshed
\* credential, the other marks the account with the outcome; both save.
Saving(r, after) == [r EXCEPT !.pc = "saving", !.after = after]
UpdateAuth_AccessOnly(c) ==
    /\ chat[c].pc = "refreshed" /\ lock = Free
    /\ lock' = c
    /\ mem' = [mem EXCEPT !.auth.extra = chat[c].auth.extra]
    /\ To(c, Saving(chat[c], "retry"))
    /\ UNCHANGED <<account, up, disk, key, faults, lost>>
UpdateAuth(c) ==
    /\ chat[c].pc = "refreshed" /\ lock = Free
    /\ lock' = c
    /\ mem' = [mem EXCEPT !.auth = chat[c].auth]
    /\ To(c, Saving(chat[c], "retry"))
    /\ UNCHANGED <<account, up, disk, key, faults, lost>>

Report(c) ==
    /\ chat[c].pc = "report" /\ lock = Free
    /\ lock' = c
    /\ To(c, Saving(chat[c], "idle"))
    /\ UNCHANGED <<account, up, mem, disk, key, faults, lost>>

\* save_accounts: the key first, if what is saved is to be sealed and there is
\* none; then the file, which is emptied and written, as the key file is.
NeedsKey_Always == mem.encrypt
NeedsKey == mem.encrypt /\ key.file # "written"

CreateKey(c) ==
    /\ chat[c].pc = "saving" /\ NeedsKey
    /\ key' = [key EXCEPT !.file = "empty"]
    /\ To(c, [chat[c] EXCEPT !.pc = "keying"])
    /\ UNCHANGED <<account, up, mem, disk, lock, faults, lost>>

WriteKey(c) ==
    /\ chat[c].pc = "keying"
    /\ key' = Written(key.made + 1)
    /\ To(c, [chat[c] EXCEPT !.pc = "sealing"])
    /\ UNCHANGED <<account, up, mem, disk, lock, faults, lost>>

Seal(c) ==
    /\ chat[c].pc = "sealing" \/ (chat[c].pc = "saving" /\ ~NeedsKey)
    /\ disk' = [disk EXCEPT !.torn = TRUE]
    /\ To(c, [chat[c] EXCEPT !.pc = "writing"])
    /\ UNCHANGED <<account, up, mem, key, lock, faults, lost>>

\* The lock is given back with the secret of the stored credential resolved.
Released(r) == [r EXCEPT !.pc = r.after, !.after = "idle", !.secret = resolve_secret(r.auth, Opens(1))]

save_accounts(c) ==
    /\ chat[c].pc = "writing"
    /\ disk' = [auth |-> mem.auth, key |-> IF mem.encrypt THEN key.made ELSE 0, torn |-> FALSE]
    /\ mem' = [mem EXCEPT !.unsaved = FALSE]
    /\ lock' = Free
    /\ To(c, Released(chat[c]))
    /\ UNCHANGED <<account, up, key, faults, lost>>

\* The key or the file cannot be written: the error of save is not looked at.
SaveFails(c) ==
    /\ chat[c].pc \in {"saving", "keying", "sealing"} /\ faults < MaxFaults
    /\ faults' = faults + 1
    /\ mem' = [mem EXCEPT !.unsaved = TRUE]
    /\ lock' = Free
    /\ To(c, Released(chat[c]))
    /\ UNCHANGED <<account, up, disk, key, lost>>

\* Retry: the refreshed credential is presented once, and not refreshed again.
Retry(c) ==
    LET r == chat[c] IN
    /\ r.pc = "retry"
    /\ To(c, Outcome(r, IF Honoured(r.auth, r.secret) THEN "ok" ELSE "failed"))
    /\ UNCHANGED <<account, up, mem, disk, key, lock, faults, lost>>

(***************************************************************************)
(* The upstream forgets its access tokens; the process is killed.          *)
(***************************************************************************)
Refreshing == {c \in Chats : chat[c].pc \in {"refreshed", "retry"} \/ chat[c].after = "retry"}

Expire ==
    /\ up.valid # {} /\ Refreshing = {}
    /\ up' = [up EXCEPT !.valid = {}]
    /\ UNCHANGED <<account, mem, disk, key, chat, lock, faults, lost>>

Crash ==
    /\ mem.loaded /\ faults < MaxFaults
    /\ faults' = faults + 1
    /\ mem' = NotLoaded
    /\ chat' = [c \in Chats |-> Idle]
    /\ lock' = Free
    /\ lost' = (lost \/ disk.torn \/ mem.unsaved \/ Refreshing # {})
    /\ UNCHANGED <<account, up, disk, key>>

Step(c) ==
    \/ Choose(c)
    \/ Send(c)
    \/ Exchange(c)
    \/ Refuse(c)
    \/ UpdateAuth(c)
    \/ Report(c)
    \/ CreateKey(c)
    \/ WriteKey(c)
    \/ Seal(c)
    \/ save_accounts(c)
    \/ Retry(c)

Next ==
    \/ Load
    \/ \E c \in Chats : Step(c) \/ Unreached(c) \/ AnswerLost(c) \/ SaveFails(c)
    \/ Expire
    \/ Crash

Spec == Init /\ [][Next]_vars

\* The bounds that matter, and the shape of the files.
TypeOK ==
    /\ account.provider \in Providers
    /\ up.valid \subseteq 1..up.access
    /\ mem.loaded \in BOOLEAN
    /\ key.file \in {"missing", "empty", "written"} /\ disk.key \in 0..key.made
    /\ lock \in Chats \cup {Free}
    /\ \A c \in Chats : chat[c].pc \in {"idle", "send", "refused", "refreshed", "saving", "keying", "sealing", "writing", "retry", "report"}
    /\ faults \in 0..MaxFaults

\* A kiro account of the idc flow whose client is only in its refresh token
\* loses it with the first refresh (Credentials_idc.cfg).
Downgraded == up.home = "oidc" /\ Endpoint(account.provider, mem.auth) # up.home

\* A chat whose credential the upstream no longer honours is answered all the
\* same when there is a refresh token: it fails only if the account cannot be
\* refreshed, if one of its requests was lost, or if another chat used up the
\* refresh token it had a copy of (client.rs:268-282: resolve, refresh, store,
\* resolve again, send again).
NoNeedlessFailure ==
    \A c \in Chats :
        chat[c].outcome = "failed" /\ ~chat[c].spoiled /\ ~lost /\ ~Downgraded
            => account.provider \notin Authenticators /\ up.valid = {}

\* Unless a fault destroyed it, the refresh token the upstream honours is in
\* the manager when no chat is on its way to store it, and in the file when no
\* save is under way (manager.rs:177 update_auth, io.rs:99 save_accounts).
StaysRefreshable ==
    /\ mem.loaded /\ ~lost /\ Refreshing = {} /\ up.refresh > 1 => mem.auth.refresh = up.refresh
    /\ mem.loaded /\ ~mem.unsaved /\ lock = Free => disk.auth = mem.auth

\* What is sealed can be opened: a sealed file, and a stored secret, have
\* their key in the key file whenever the process may be killed, also while a
\* key is made (store.rs:46 get_or_create_key, io.rs:99 save_accounts).
Kept(k) == key.file = "written" /\ key.made = k
SealedFileReadable ==
    /\ disk.key # 0 => Kept(disk.key)
    /\ disk.auth.stored # 0 => Kept(1)

\* A sealed file is never written in the clear again, by this process or one
\* started later, whatever the file itself asks for (manager.rs:44, "Preserve
\* the file's encryption posture on save").
StaysSealed == [][disk.key # 0 => disk'.key # 0]_vars

\* A refresh of an idc account goes to the oidc endpoint (kiro/auth.rs:7-8).
IdcRefreshedAtOidc ==
    \A c \in Chats : chat[c].pc = "refused" /\ ~lost => Endpoint(account.provider, chat[c].auth) = up.home
=============================================================================
