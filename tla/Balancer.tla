------------------------------ MODULE Balancer ------------------------------
(***************************************************************************)
(* The gateway's load balancer and the requests that go through it:        *)
(* balancer.py (health, in-flight counts, candidate order, Lease), llm.py  *)
(* (generate_response, generate_stream, the client cache) and the          *)
(* concurrency gauge of chat_completions in main.py, for one api key and   *)
(* provider. The handlers share one event loop and interleave at their     *)
(* awaits and yields; accounts are edited by other threads at any time.    *)
(***************************************************************************)
EXTENDS Integers, FiniteSets

CONSTANTS Accts,       \* account ids, numbered in the order they are listed
          DefaultPool, \* the shared accounts of the provider
          AnonPool,    \* the synthesized account of a free provider, or {}
          Weight, Priority,
          Reqs,        \* requests
          BaseCooldown, MaxCooldown, FailResetAfter, \* the tunables
          MaxTime,     \* bound: the clock stops here
          MaxEdits,    \* bound on account edits
          MaxDrops     \* bound on disconnects and restarts

ASSUME PoolsAssumption ==
    /\ Accts \subseteq Nat \ {0} /\ IsFiniteSet(Accts) /\ IsFiniteSet(Reqs)
    /\ DefaultPool \subseteq Accts /\ AnonPool \subseteq Accts
ASSUME ScoresAssumption == Weight \in [Accts -> Nat] /\ Priority \in [Accts -> Int]
ASSUME TunablesAssumption ==
    /\ BaseCooldown \in Nat \ {0} /\ MaxCooldown \in Nat \ {0} /\ FailResetAfter \in Nat
    /\ MaxTime \in Nat /\ MaxEdits \in Nat /\ MaxDrops \in Nat

VARIABLES now,      \* time.time()
          custom,   \* the key's own enabled accounts
          cred,     \* version of each account's stored credential
          health,   \* lb:health:<key>, in the database
          inflight, \* _inflight
          conc,     \* _conc of the caller
          client,   \* _client_cache: the credential version a client was built with
          req,      \* req[r]: where request r stands
          edits, drops

\* Leases and gauge increments whose request is gone, for the properties only.
VARIABLES abandoned, leaked

vars == <<now, custom, cred, health, inflight, conc, client, req, edits, drops,
          abandoned, leaked>>

NoClient == 0
NoAcct == 0
Fresh == [fails |-> 0, until |-> 0, last_fail |-> 0]
Idle == [pc |-> "idle", kind |-> "plain", cands |-> {}, left |-> {}, rank |-> [a \in Accts |-> 0],
         cur |-> NoAcct, creds |-> [a \in Accts |-> 0], started |-> FALSE, ok |-> FALSE]

Init == /\ now = 0
        /\ custom \in SUBSET (Accts \ (DefaultPool \cup AnonPool))
        /\ cred = [a \in Accts |-> 1]
        /\ health = [a \in Accts |-> Fresh]
        /\ inflight = [a \in Accts |-> 0]
        /\ conc = 0
        /\ client = [a \in Accts |-> NoClient]
        /\ req = [r \in Reqs |-> Idle]
        /\ edits = 0 /\ drops = 0
        /\ abandoned = [a \in Accts |-> 0] /\ leaked = 0

-----------------------------------------------------------------------------
\* balancer.py

_accounts_for == IF custom # {} THEN custom
                 ELSE IF DefaultPool # {} THEN DefaultPool ELSE AnonPool

_is_available(h) == h.until <= now

\* Failures older than FailResetAfter are forgotten, cooldown included.
Stale(h) == h.fails # 0 /\ now - h.last_fail > FailResetAfter

Forget(h) == IF Stale(h) THEN Fresh ELSE h

AtLeast1(w) == IF w > 1 THEN w ELSE 1
OrDefault(p) == IF p = 0 THEN 100 ELSE p

\* inflight / weight of a below that of b, equal, as fractions.
LighterLoad(a, b) == inflight[a] * AtLeast1(Weight[b]) < inflight[b] * AtLeast1(Weight[a])
SameLoad(a, b) == inflight[a] * AtLeast1(Weight[b]) = inflight[b] * AtLeast1(Weight[a])

Before_NoPenalty(a, b, h) ==
    \/ LighterLoad(a, b)
    \/ SameLoad(a, b) /\ \/ h[a].fails < h[b].fails
                         \/ h[a].fails = h[b].fails /\ a < b

\* The sort of select_candidates: available, then load, then priority, then
\* failures; the sort is stable.
Before(a, b, h) ==
    \/ _is_available(h[a]) /\ ~_is_available(h[b])
    \/ /\ _is_available(h[a]) <=> _is_available(h[b])
       /\ \/ LighterLoad(a, b)
          \/ /\ SameLoad(a, b)
             /\ \/ OrDefault(Priority[a]) > OrDefault(Priority[b])
                \/ /\ OrDefault(Priority[a]) = OrDefault(Priority[b])
                   /\ \/ h[a].fails < h[b].fails
                      \/ h[a].fails = h[b].fails /\ a < b

\* A failure doubles the cooldown, up to the cap.
Backoff(fails) == LET c == BaseCooldown * 2^(fails - 1)
                  IN  IF c < MaxCooldown THEN c ELSE MaxCooldown

mark_success(h) == [h EXCEPT !.fails = 0, !.until = 0]

mark_failure(h) == [fails |-> h.fails + 1, until |-> now + Backoff(h.fails + 1), last_fail |-> now]

-----------------------------------------------------------------------------
\* llm.py: a request walks down its candidates, one Lease at a time.

First(S, rank) == CHOOSE a \in S : \A b \in S : rank[a] <= rank[b]

\* _client_for: a client built earlier is used again.
_client_for(a, creds) ==
    client' = [client EXCEPT ![a] = IF @ = NoClient THEN creds[a] ELSE @]

\* The request's record when it enters the Lease of the best of left.
Leased(q, left) ==
    [q EXCEPT !.pc = "calling", !.cur = First(left, q.rank),
              !.left = left \ {First(left, q.rank)}]

\* The record after select_candidates has ordered the accounts.
Selected(q) ==
    LET h == [a \in Accts |-> IF a \in _accounts_for THEN Forget(health[a]) ELSE health[a]]
        rank == [a \in Accts |-> Cardinality({b \in _accounts_for : Before(b, a, h)})]
    IN  [q EXCEPT !.cands = _accounts_for, !.left = _accounts_for, !.rank = rank, !.creds = cred]

\* select_candidates and the first Lease; without candidates NoAccountError,
\* which leaves the request at pc = none.
Select(r, q, none) ==
    /\ health' = [a \in Accts |-> IF a \in _accounts_for THEN Forget(health[a]) ELSE health[a]]
    /\ IF _accounts_for = {}
       THEN /\ req' = [req EXCEPT ![r] = [q EXCEPT !.pc = none]]
            /\ UNCHANGED <<inflight, client>>
       ELSE LET l == Leased(Selected(q), _accounts_for)
            IN  /\ req' = [req EXCEPT ![r] = l]
                /\ _client_for(l.cur, cred)
                /\ inflight' = [inflight EXCEPT ![l.cur] = @ + 1]

Dec(n) == IF n > 0 THEN n - 1 ELSE 0

exit_FailureKeepsLease(a, ok) ==
    /\ inflight' = IF ok THEN [inflight EXCEPT ![a] = Dec(@)] ELSE inflight
    /\ health' = [health EXCEPT ![a] = IF ok THEN mark_success(@) ELSE mark_failure(@)]

\* Lease.__exit__
exit(a, ok) ==
    /\ inflight' = [inflight EXCEPT ![a] = Dec(@)]
    /\ health' = [health EXCEPT ![a] = IF ok THEN mark_success(@) ELSE mark_failure(@)]

Live(r) == req[r].pc \in {"calling", "streaming"}

-----------------------------------------------------------------------------
\* chat_completions, non-streaming: the gauge is held around the whole call.
BeginPlain(r) ==
    /\ req[r].pc = "idle"
    /\ Select(r, [req[r] EXCEPT !.kind = "plain"], "failed")
    /\ conc' = IF _accounts_for = {} THEN conc ELSE conc + 1
    /\ UNCHANGED <<now, custom, cred, edits, drops, abandoned, leaked>>

\* streaming: the gauge is taken here and handed to the generator, which sends
\* its first chunk before it asks for candidates.
BeginStream(r) ==
    /\ req[r].pc = "idle"
    /\ req' = [req EXCEPT ![r].pc = "head", ![r].kind = "stream"]
    /\ conc' = conc + 1
    /\ UNCHANGED <<now, custom, cred, health, inflight, client, edits, drops, abandoned, leaked>>

StreamSelect(r) ==
    /\ req[r].pc = "head"
    /\ Select(r, req[r], "tail")
    /\ UNCHANGED <<now, custom, cred, conc, edits, drops, abandoned, leaked>>

\* The first token is passed on to the client.
Token(r) ==
    /\ req[r].pc = "calling" /\ req[r].kind = "stream"
    /\ req' = [req EXCEPT ![r].pc = "streaming", ![r].started = TRUE]
    /\ UNCHANGED <<now, custom, cred, health, inflight, conc, client, edits, drops, abandoned, leaked>>

\* Where a request goes when it has its answer or its last error: a stream has
\* its closing chunks to send, a plain call releases the gauge at once.
End(r, ok) ==
    /\ req' = [req EXCEPT ![r].ok = ok,
                          ![r].pc = IF req[r].kind = "stream" THEN "tail"
                                    ELSE IF ok THEN "answered" ELSE "failed"]
    /\ conc' = IF req[r].kind = "stream" THEN conc ELSE Dec(conc)

\* The provider answered, or the stream came to its end.
CallOk(r) ==
    /\ Live(r)
    /\ exit(req[r].cur, TRUE)
    /\ End(r, TRUE)
    /\ UNCHANGED <<now, custom, cred, client, edits, drops, abandoned, leaked>>

\* The lease of req[r].cur fails and that of the next candidate is entered.
NextCandidate(r) ==
    LET a == req[r].cur
        l == Leased(req[r], req[r].left)
    IN  /\ req' = [req EXCEPT ![r] = l]
        /\ health' = [health EXCEPT ![a] = mark_failure(@)]
        /\ inflight' = [inflight EXCEPT ![a] = Dec(@), ![l.cur] = @ + 1]
        /\ _client_for(l.cur, req[r].creds)
        /\ UNCHANGED conc

CallErr_FailsOverMidStream(r) ==
    /\ Live(r)
    /\ \/ /\ req[r].left # {}
          /\ NextCandidate(r)
       \/ /\ req[r].left = {}
          /\ exit(req[r].cur, FALSE)
          /\ End(r, FALSE)
          /\ UNCHANGED client
    /\ UNCHANGED <<now, custom, cred, edits, drops, abandoned, leaked>>

CallErr_GivesUp(r) ==
    /\ Live(r)
    /\ exit(req[r].cur, FALSE)
    /\ End(r, FALSE)
    /\ UNCHANGED <<now, custom, cred, client, edits, drops, abandoned, leaked>>

\* The provider failed: the next candidate, unless bytes were sent already or
\* there is none left.
CallErr(r) ==
    /\ Live(r)
    /\ \/ /\ ~req[r].started /\ req[r].left # {}
          /\ NextCandidate(r)
       \/ /\ req[r].started \/ req[r].left = {}
          /\ exit(req[r].cur, FALSE)
          /\ End(r, FALSE)
          /\ UNCHANGED client
    /\ UNCHANGED <<now, custom, cred, edits, drops, abandoned, leaked>>

Finish_KeepsGauge(r) ==
    /\ req[r].pc = "tail"
    /\ req' = [req EXCEPT ![r].pc = IF req[r].ok THEN "answered" ELSE "failed"]
    /\ UNCHANGED <<now, custom, cred, health, inflight, conc, client, edits, drops, abandoned, leaked>>

Finish_Stalls(r) == req[r].pc = "tail" /\ UNCHANGED vars

\* gen()'s finally.
Finish(r) ==
    /\ req[r].pc = "tail"
    /\ req' = [req EXCEPT ![r].pc = IF req[r].ok THEN "answered" ELSE "failed"]
    /\ conc' = Dec(conc)
    /\ UNCHANGED <<now, custom, cred, health, inflight, client, edits, drops, abandoned, leaked>>

\* The client of a stream goes away: the generators are closed or cancelled
\* where they stand. Only Exception is caught in generate_stream, so a Lease is
\* not exited; and the first chunk is yielded outside gen()'s try.
Disconnect(r) ==
    /\ req[r].pc \in {"head", "calling", "streaming", "tail"} /\ req[r].kind = "stream"
    /\ drops < MaxDrops /\ drops' = drops + 1
    /\ req' = [req EXCEPT ![r].pc = "dropped"]
    /\ conc' = IF req[r].pc = "head" THEN conc ELSE Dec(conc)
    /\ leaked' = IF req[r].pc = "head" THEN leaked + 1 ELSE leaked
    /\ abandoned' = IF Live(r) THEN [abandoned EXCEPT ![req[r].cur] = @ + 1] ELSE abandoned
    /\ UNCHANGED <<now, custom, cred, health, inflight, client, edits>>

Ended == {"answered", "failed", "dropped", "lost"}

\* The process is restarted: only the database survives.
Restart ==
    /\ drops < MaxDrops /\ drops' = drops + 1
    /\ req' = [r \in Reqs |-> IF req[r].pc \in {"idle"} \cup Ended THEN req[r]
                              ELSE [req[r] EXCEPT !.pc = "lost"]]
    /\ inflight' = [a \in Accts |-> 0] /\ conc' = 0
    /\ client' = [a \in Accts |-> NoClient]
    /\ abandoned' = [a \in Accts |-> 0] /\ leaked' = 0
    /\ UNCHANGED <<now, custom, cred, health, edits>>

\* POST /api/add and DELETE /api/accounts, of one of the key's own accounts.
upsert_account(a) ==
    /\ edits < MaxEdits /\ edits' = edits + 1
    /\ custom' = custom \cup {a}
    /\ cred' = [cred EXCEPT ![a] = @ + 1]
    /\ UNCHANGED <<now, health, inflight, conc, client, req, drops, abandoned, leaked>>

delete_account(a) ==
    /\ edits < MaxEdits /\ edits' = edits + 1
    /\ custom' = custom \ {a}
    /\ UNCHANGED <<now, cred, health, inflight, conc, client, req, drops, abandoned, leaked>>

Tick == /\ now < MaxTime /\ now' = now + 1
        /\ UNCHANGED <<custom, cred, health, inflight, conc, client, req, edits, drops, abandoned, leaked>>

Done == /\ \A r \in Reqs : req[r].pc \in Ended
        /\ UNCHANGED vars

Step(r) == \/ BeginPlain(r) \/ BeginStream(r) \/ StreamSelect(r) \/ Token(r)
           \/ CallOk(r) \/ CallErr(r) \/ Finish(r)

Next == \/ Tick \/ Restart \/ Done
        \/ \E a \in Accts \ (DefaultPool \cup AnonPool) : upsert_account(a) \/ delete_account(a)
        \/ \E r \in Reqs : Step(r) \/ Disconnect(r)

Spec == Init /\ [][Next]_vars

\* Provider calls and streams come to an end (accounts carry a timeout), and
\* the event loop runs every task that can go on.
FairSpec == Spec /\ \A r \in Reqs : WF_vars(Step(r))

-----------------------------------------------------------------------------
HealthType == [fails : Nat, until : Nat, last_fail : Nat]
ReqType == [pc : {"idle", "head", "calling", "streaming", "tail"} \cup Ended,
            kind : {"plain", "stream"}, cands : SUBSET Accts, left : SUBSET Accts,
            rank : [Accts -> Nat], cur : Accts \cup {NoAcct}, creds : [Accts -> Nat],
            started : BOOLEAN, ok : BOOLEAN]

TypeOK == /\ now \in 0..MaxTime
          /\ custom \in SUBSET Accts
          /\ cred \in [Accts -> Nat]
          /\ health \in [Accts -> HealthType]
          /\ inflight \in [Accts -> Nat] /\ conc \in Nat
          /\ client \in [Accts -> Nat]
          /\ req \in [Reqs -> ReqType]
          /\ edits \in 0..MaxEdits /\ drops \in 0..MaxDrops
          /\ abandoned \in [Accts -> Nat] /\ leaked \in Nat

Leases(a) == {r \in Reqs : Live(r) /\ req[r].cur = a}
Holders == {r \in Reqs : req[r].pc \in {"head", "calling", "streaming", "tail"}}

\* The in-flight count of an account, which decides who is asked next, is the
\* number of requests on it plus the leases of streams whose client went away:
\* no failure, failover or success ever loses or releases a lease twice.
InflightAccounted == \A a \in Accts : inflight[a] = Cardinality(Leases(a)) + abandoned[a]

\* The concurrency gauge counts the requests being served, plus the streams
\* whose client went away before the second chunk.
ConcAccounted == conc = Cardinality(Holders) + leaked

\* What successes, failures and forgetting leave in an account's health: no
\* failures, no cooldown; otherwise the cooldown of the last one, doubled by
\* each before it, and the pool is never parked for longer than the cap.
HealthConsistent ==
    \A a \in Accts : /\ health[a].fails = 0 => health[a].until = 0
                     /\ health[a].fails # 0 => health[a].until = health[a].last_fail + Backoff(health[a].fails)
                     /\ health[a].until <= now + MaxCooldown

\* "Tries balancer candidates in order until one succeeds": a request fails
\* without having sent anything only when every candidate has failed it.
FailsOnlyWhenExhausted ==
    \A r \in Reqs : req[r].pc = "failed" /\ ~req[r].started => req[r].left = {}

\* "Fails over between candidates only before the first token is emitted": once
\* a token was passed on, the stream stays on its account.
NeverRestartsStream ==
    [][\A r \in Reqs : req[r].started => req'[r].cur = req[r].cur /\ req'[r].pc # "calling"]_vars

\* A request starts on an account in cooldown only when every candidate is.
PrefersAvailable ==
    [][\A r \in Reqs : req[r].pc \in {"idle", "head"} /\ req'[r].pc = "calling"
                       /\ health'[req'[r].cur].until > now
                       => \A a \in req'[r].cands : health'[a].until > now]_vars

\* Every request comes to an end, whatever fails and whoever goes away.
RequestsEnd == \A r \in Reqs : <>(req[r].pc \in Ended)

\* "tracks an in-flight request": what is not being served is not in flight.
InflightReleased == \A a \in Accts : inflight[a] = Cardinality(Leases(a))

\* "Cache one client per single-account AccountsFile": a request is sent with
\* the credential of the account it was given.
ClientOfItsAccount ==
    \A r \in Reqs : Live(r) => client[req[r].cur] = req[r].creds[req[r].cur]
=============================================================================
