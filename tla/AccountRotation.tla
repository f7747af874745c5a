-------------------------- MODULE AccountRotation ---------------------------
(***************************************************************************)
(* gravity-accounts/src/manager.rs and chat_with_manager of gravity-client *)
(* /src/client.rs: concurrent chats over one Mutex<AccountManager>. A chat *)
(* snapshots its candidates under the lock, calls the provider without it, *)
(* and writes the account's health back under the lock, saving the file.   *)
(***************************************************************************)
EXTENDS Errors, FiniteSets

CONSTANTS Accounts,        \* numbered in the order accounts_for sorts them
          Tasks,           \* concurrent calls of chat_with_manager
          Upstream,        \* the ProviderErrors the adapter builds
          Refreshes,       \* provider.authenticator() is Some
          Anonymous,       \* the provider has an anon_fallback
          DefaultCooldown, \* DEFAULT_COOLDOWN
          MaxTime,         \* bound: the clock stops here
          MaxFaults        \* bound on failed saves, crashes and set_enabled calls

ASSUME AccountsAssumption == Accounts \subseteq Nat \ {0}
ASSUME UpstreamAssumption == Upstream \subseteq ProviderErrorType
ASSUME ParamsAssumption == /\ Refreshes \in BOOLEAN /\ Anonymous \in BOOLEAN
                           /\ DefaultCooldown \in Nat \ {0}
                           /\ MaxTime \in Nat /\ MaxFaults \in Nat

VARIABLES now,     \* env.clock
          phase,   \* "up", "down" after a crash, "refused": load failed
          acct,    \* the manager's accounts: health, credential, enabled
          disk,    \* accounts.json; torn when a write was cut short
          task,    \* task[t]: where chat t stands
          minted   \* the newest credential the upstream has handed out

\* What has happened so far, for the properties only.
VARIABLES streak,  \* failures written back since the last success
          parked,  \* until when a failure asked to skip the account
          faults,  \* faults so far
          dirty    \* the last change of acct did not reach the disk

vars == <<now, phase, acct, disk, task, minted, streak, parked, faults, dirty>>
file == <<acct, disk, faults, dirty>>

Anon == 0
NoError == Plain("None")
CallErrors == Upstream \cup {NetworkError, ValidationError}

\* anon_fallback: a synthetic account the manager knows nothing of.
Ids == Accounts \cup {Anon}

Init == /\ now = 0
        /\ phase = "up"
        /\ acct = [a \in Accounts |-> [state |-> "healthy", fails |-> 0, until |-> None,
                                       auth |-> 0, enabled |-> TRUE]]
        /\ disk = [torn |-> FALSE, file |-> acct]
        /\ task = [t \in Tasks |-> [pc |-> "idle", left |-> {}, cur |-> Anon, auth |-> 0,
                                    err |-> NoError, snap |-> [a \in Accounts |-> 0],
                                    tries |-> [a \in Ids |-> 0]]]
        /\ minted = [a \in Accounts |-> 0]
        /\ streak = [a \in Accounts |-> 0]
        /\ parked = [a \in Accounts |-> 0]
        /\ faults = 0
        /\ dirty = FALSE

-----------------------------------------------------------------------------
\* AccountManager

in_cooldown(a) == acct[a].until > now

\* The set of accounts_for; the order of the result is the order of Accounts.
accounts_for == {a \in Accounts : acct[a].enabled /\ ~in_cooldown(a)}

IsFirst(a, S) == a \in S /\ \A b \in S : a <= b

\* mgr.save(), its error ignored: fs::write either replaces the file, fails
\* before it touches it, or leaves it cut short.
save ==
    \/ disk' = [torn |-> FALSE, file |-> acct'] /\ dirty' = FALSE /\ UNCHANGED faults
    \/ /\ faults < MaxFaults /\ faults' = faults + 1
       /\ dirty' = TRUE
       /\ disk' \in {disk, [disk EXCEPT !.torn = TRUE]}

Recovered_KeepsCooldown(h) == [h EXCEPT !.state = "healthy", !.fails = 0]

Recovered(h) == [h EXCEPT !.state = "healthy", !.fails = 0, !.until = None]

mark_success(a) ==
    IF a \in Accounts
    THEN /\ acct' = [acct EXCEPT ![a] = Recovered(@)]
         /\ streak' = [streak EXCEPT ![a] = 0]
         /\ parked' = [parked EXCEPT ![a] = 0]
    ELSE UNCHANGED <<acct, streak, parked>>

Failed_NotCounted(h, cooldown) ==
    [h EXCEPT !.state = IF cooldown = 0 THEN "degraded" ELSE "cooldown",
              !.fails = 1, !.until = now + cooldown]

Failed(h, cooldown) ==
    [h EXCEPT !.state = IF cooldown = 0 THEN "degraded" ELSE "cooldown",
              !.fails = @ + 1, !.until = now + cooldown]

mark_failure(a, cooldown) ==
    IF a \in Accounts
    THEN /\ acct' = [acct EXCEPT ![a] = Failed(@, cooldown)]
         /\ streak' = [streak EXCEPT ![a] = @ + 1]
         /\ parked' = [parked EXCEPT ![a] = IF now + cooldown > @ THEN now + cooldown ELSE @]
    ELSE UNCHANGED <<acct, streak, parked>>

update_auth_Stale(a, auth) == acct' = [acct EXCEPT ![a].auth = @]

update_auth(a, auth) == acct' = [acct EXCEPT ![a].auth = auth]

\* set_enabled(..): in memory only, until some later save.
set_enabled(a) ==
    /\ phase = "up" /\ faults < MaxFaults
    /\ faults' = faults + 1
    /\ acct' = [acct EXCEPT ![a].enabled = ~@]
    /\ dirty' = TRUE
    /\ UNCHANGED <<now, phase, disk, task, minted, streak, parked>>

\* reload(): back to the file; a torn file is an error and changes nothing.
reload ==
    /\ phase = "up" /\ ~disk.torn
    /\ acct' = disk.file
    /\ dirty' = FALSE
    /\ streak' = [a \in Accounts |-> disk.file[a].fails]
    /\ parked' = [a \in Accounts |-> IF disk.file[a].until = None THEN 0 ELSE disk.file[a].until]
    /\ UNCHANGED <<now, phase, disk, task, minted, faults>>

-----------------------------------------------------------------------------
\* chat_with_manager

\* classify_failure: (cooldown, should_failover).
CooldownOf(e) ==
    IF e.tag = "Provider" /\ e.kind \in {"RateLimit", "QuotaExceeded"}
    THEN IF e.retry_after = None THEN DefaultCooldown ELSE e.retry_after
    ELSE 0

Failover_NetworkFatal(e) == should_failover(e) /\ e.tag # "Network"

Failover(e) == should_failover(e)

At(t, pc) == phase = "up" /\ task[t].pc = pc

\* A call of provider.chat for the first of cands, with the credential of the
\* snapshot snap.
TryFirst(t, cands, snap) ==
    \E a \in Accounts :
        /\ IsFirst(a, cands)
        /\ task' = [task EXCEPT ![t].pc = "calling", ![t].cur = a, ![t].left = cands \ {a},
                                ![t].snap = snap, ![t].auth = snap[a],
                                ![t].tries[a] = @ + 1]

\* Snapshot of the candidates and their credentials under one lock; without
\* candidates the anonymous account is called, or the chat ends.
Select(t) ==
    /\ At(t, "idle")
    /\ \/ accounts_for # {} /\ TryFirst(t, accounts_for, [a \in Accounts |-> acct[a].auth])
       \/ /\ accounts_for = {} /\ Anonymous
          /\ task' = [task EXCEPT ![t].pc = "calling", ![t].cur = Anon, ![t].tries[Anon] = @ + 1]
       \/ /\ accounts_for = {} /\ ~Anonymous
          /\ task' = [task EXCEPT ![t].pc = "no_accounts"]
    /\ UNCHANGED <<now, phase, file, minted, streak, parked>>

\* run_afc(..) came back with Ok, on the first call or after a refresh.
Succeed(t) ==
    /\ At(t, "calling") \/ At(t, "retrying")
    /\ mark_success(task[t].cur)
    /\ save
    /\ task' = [task EXCEPT ![t].pc = "answered"]
    /\ UNCHANGED <<now, phase, minted>>

\* The failure is written back; the next candidate, or Err(e).
WriteBack(t, e) ==
    /\ mark_failure(task[t].cur, CooldownOf(e))
    /\ save
    /\ IF Failover(e) /\ task[t].left # {}
       THEN TryFirst(t, task[t].left, task[t].snap)
       ELSE task' = [task EXCEPT ![t].pc = "failed", ![t].err = e]
    /\ UNCHANGED <<now, phase, minted>>

\* On an authentication failure an Authenticator is asked for a refresh.
WantsRefresh(e) == Refreshes /\ e.tag = "Provider" /\ e.kind = "Authentication"

\* run_afc(..) came back with Err(e).
Fail(t, e) ==
    \/ At(t, "calling") /\ ~WantsRefresh(e) /\ WriteBack(t, e)
    \/ /\ At(t, "calling") /\ WantsRefresh(e)
       /\ task' = [task EXCEPT ![t].pc = "refreshing", ![t].err = e]
       /\ UNCHANGED <<now, phase, file, minted, streak, parked>>
    \/ At(t, "retrying") /\ WriteBack(t, e)

\* refresh_credentials: the upstream rotates refresh tokens, so only the newest
\* one is honoured, and it hands out its successor. The anonymous account has
\* no refresh token.
RefreshMint(t) ==
    /\ At(t, "refreshing")
    /\ task[t].cur # Anon /\ task[t].auth = minted[task[t].cur]
    /\ minted' = [minted EXCEPT ![task[t].cur] = @ + 1]
    /\ task' = [task EXCEPT ![t].pc = "refreshed", ![t].auth = @ + 1]
    /\ UNCHANGED <<now, phase, file, streak, parked>>

RefreshFail_Ignored(t) == At(t, "refreshing") /\ UNCHANGED vars

\* .. or fails: the original error is written back.
RefreshFail(t) == At(t, "refreshing") /\ WriteBack(t, task[t].err)

\* update_auth under the lock, save, and the one retry.
RefreshStore(t) ==
    /\ At(t, "refreshed")
    /\ update_auth(task[t].cur, task[t].auth)
    /\ save
    /\ task' = [task EXCEPT ![t].pc = "retrying", ![t].tries[task[t].cur] = @ + 1]
    /\ UNCHANGED <<now, phase, minted, streak, parked>>

-----------------------------------------------------------------------------
Ended == {"answered", "failed", "no_accounts", "lost"}

Tick == /\ now < MaxTime
        /\ now' = now + 1
        /\ UNCHANGED <<phase, acct, disk, task, minted, streak, parked, faults, dirty>>

\* The process dies; the chats it was running die with it.
Crash ==
    /\ phase = "up" /\ faults < MaxFaults
    /\ faults' = faults + 1
    /\ phase' = "down"
    /\ task' = [t \in Tasks |-> IF task[t].pc = "idle" THEN task[t]
                                ELSE [task[t] EXCEPT !.pc = IF @ \in Ended THEN @ ELSE "lost"]]
    /\ UNCHANGED <<now, acct, disk, minted, streak, parked, dirty>>

load_TornIsEmpty ==
    /\ phase = "down"
    /\ phase' = "up"
    /\ acct' = IF disk.torn THEN [a \in Accounts |-> [acct[a] EXCEPT !.enabled = FALSE]] ELSE disk.file
    /\ dirty' = FALSE
    /\ UNCHANGED <<now, disk, task, minted, streak, parked, faults>>

\* AccountManager::load: a torn file is an error, not an empty account list.
load ==
    /\ phase = "down"
    /\ IF disk.torn
       THEN phase' = "refused" /\ UNCHANGED <<acct, dirty, streak, parked>>
       ELSE /\ phase' = "up"
            /\ acct' = disk.file
            /\ dirty' = FALSE
            /\ streak' = [a \in Accounts |-> disk.file[a].fails]
            /\ parked' = [a \in Accounts |-> IF disk.file[a].until = None THEN 0 ELSE disk.file[a].until]
    /\ UNCHANGED <<now, disk, task, minted, faults>>

Done == /\ phase = "refused" \/ \A t \in Tasks : task[t].pc \in Ended
        /\ now = MaxTime
        /\ UNCHANGED vars

ChatStep(t) == \/ Select(t) \/ Succeed(t) \/ RefreshMint(t) \/ RefreshFail(t) \/ RefreshStore(t)
               \/ \E e \in CallErrors : Fail(t, e)

Next == \/ Tick \/ Crash \/ load \/ reload \/ Done
        \/ \E a \in Accounts : set_enabled(a)
        \/ \E t \in Tasks : ChatStep(t)

Spec == Init /\ [][Next]_vars

\* Every provider call comes back (requests carry a timeout), every task is
\* polled, and a process that died is started again.
FairSpec == /\ Spec
            /\ WF_vars(load)
            /\ \A t \in Tasks : WF_vars(ChatStep(t))

-----------------------------------------------------------------------------
TaskType == [pc : {"idle", "calling", "refreshing", "refreshed", "retrying"} \cup Ended,
             left : SUBSET Accounts, cur : Ids, auth : Nat,
             err : CallErrors \cup {NoError},
             snap : [Accounts -> Nat], tries : [Ids -> Nat]]
HealthType == [state : {"healthy", "degraded", "cooldown"}, fails : Nat,
               until : Nat \cup {None}, auth : Nat, enabled : BOOLEAN]

TypeOK == /\ now \in 0..MaxTime
          /\ phase \in {"up", "down", "refused"}
          /\ acct \in [Accounts -> HealthType]
          /\ disk \in [torn : BOOLEAN, file : [Accounts -> HealthType]]
          /\ task \in [Tasks -> TaskType]
          /\ minted \in [Accounts -> Nat] /\ streak \in [Accounts -> Nat]
          /\ parked \in [Accounts -> Nat]
          /\ faults \in 0..MaxFaults /\ dirty \in BOOLEAN

\* No failure is lost between concurrent chats: consecutive_failures is the
\* number of failures written back since the last success, whoever wrote them.
FailuresCounted == phase = "up" => \A a \in Accounts : acct[a].fails = streak[a]

\* The fields of RotationState agree, whatever order concurrent successes and
\* failures are written back in: only "cooldown" parks an account, and a
\* healthy one carries no failure and no cooldown.
HealthConsistent ==
    \A a \in Accounts : /\ acct[a].state = "healthy" <=> acct[a].fails = 0
                        /\ acct[a].state = "healthy" => acct[a].until = None
                        /\ in_cooldown(a) => acct[a].state = "cooldown"

\* A chat calls each candidate once, and once more only after a refresh.
TriesBounded ==
    \A t \in Tasks, a \in Ids : task[t].tries[a] <= IF Refreshes /\ a # Anon THEN 2 ELSE 1

\* A chat gives up on an error another account might not have only when it has
\* no candidate left.
NoEarlyGiveUp ==
    \A t \in Tasks : task[t].pc = "failed" /\ (\/ task[t].err.tag = "Network"
                                               \/ task[t].err.kind \in {"RateLimit", "Server"})
                     => task[t].left = {}

\* "persisting after each outcome": unless a save failed, or set_enabled is
\* not saved yet, the file is whole and holds what the manager holds; after a
\* crash that includes the file the manager is started from.
OutcomesPersisted == phase = "up" /\ ~dirty => disk = [torn |-> FALSE, file |-> acct]

\* While nothing crashes and no save fails, the newest credential the upstream
\* has handed out is in the manager, or in the hands of the chat that asked for
\* it: concurrent refreshes of one account never lose it.
NoCredentialLost ==
    faults = 0 => \A a \in Accounts :
        \/ acct[a].auth = minted[a]
        \/ \E t \in Tasks : task[t].pc = "refreshed" /\ task[t].cur = a /\ task[t].auth = minted[a]

\* Every chat ends, unless the accounts file can no longer be loaded.
ChatsEnd == \A t \in Tasks : <>(task[t].pc \in Ended \/ phase = "refused")

\* "`cooldown` is how long to skip this account": until it is over, or a call
\* has succeeded, accounts_for does not offer the account.
CooldownHonoured == phase = "up" => \A a \in accounts_for : parked[a] <= now
=============================================================================
