# A TLA+ model of RaspAPI / Gravity

This directory specifies, model-checks and proves properties of the repository
beside it: the Rust client library *Gravity* (`src/API/gravity`), with the provider
adapters and language bindings around it, and the Python gateway that serves it
(`src/src`). Paths below are those of the repository; `crates/` stands for
`src/API/gravity/crates/`.

    tlc -workers 2 -config Balancer_pool.cfg MCBalancer     # one run
    tlapm ChatOverProofs.tla                                # one proof module

`PROJECT.json` lists every run, the lines each definition translates, the mutants
that show each property can fail, the findings and the hazards.

## 1. Inventory

### The Rust client

| Part | State | Operations | Talks to |
|---|---|---|---|
| `gravity-client/afc.rs` | a join set, a semaphore, one slot per tool call | `execute_tools_parallel` | called by the tool loop |
| `gravity-client/client.rs` `chat_over` | the candidate, the retry count, a checkpoint, the last error | open a checkpoint, chat, retry, fail over | adapters, `afc.rs` |
| `gravity-client/client.rs` `chat_with_manager` | a snapshot of the candidates | as above, plus token refresh and health write-back | `Mutex<AccountManager>` |
| `gravity-client/client.rs` tool loops | a running transcript, the calls executed | `run_afc`, `run_json_emulated` | adapters, `afc.rs` |
| `gravity-client/client.rs` streams | none | `chat_stream_over`, `chat_stream_chunks` | adapters, bindings |
| `gravity-client/client.rs` conversations | a map under a mutex, one history file per key | `record_turn`, `history`, `start_persistent`, `conversation` | files |
| `gravity-accounts/manager.rs`, `io.rs` | the accounts, their health and credentials; `accounts.json` | `load`, `save`, `reload`, `accounts_for`, `mark_success`, `mark_failure`, `update_auth`, `set_enabled` | the file, shared by all chats |
| `gravity-accounts/metrics.rs`, `store.rs`, `crypto.rs` | `metrics.json`, the key file | add usage, create the key, encrypt | files |
| `gravity-core` | none | error classes, message and account types | everything |
| `gravity-http` | partial lines of a stream | `lines`, `events` | adapters |
| `gravity-providers` requests | claude: remote conversations | messages to what each of thirteen services takes | services outside the repository |
| `gravity-providers` answers | text and calls so far; a partial frame | bytes to events to deltas, calls, errors, a response | the streams above |
| `gravity-providers` credentials | none of its own | present a credential, refresh it | the account's `auth` |
| `gravity-server`, `-ffi`, `-pyo3`, `-node`, `-cli` | a runtime, a channel per stream | one client call per request | `gravity-client` |

### The Python gateway

One process, one event loop. `async` handlers interleave at their awaits; plain `def`
handlers run in worker threads and interleave with everything.

| Part | State | Operations | Runs on |
|---|---|---|---|
| `balancer.py` | health records in RocksDB, in-flight counts in memory | `select_candidates`, `Lease`, `mark_success`, `mark_failure` | the loop |
| `llm.py` | a cache of clients | `generate_response`, `generate_stream` | the loop |
| `main.py` | the concurrency gauge (with `abuse.py`) | `chat_completions`, its stream generator, the admin handlers | both |
| `quota.py` | usage and window end per key and provider | `try_consume`, `status` | loop, threads |
| `abuse.py` | score, windows, bans per identity | `check`, `record_error`, `hard_ban` | loop, loop, threads |
| `auth.py`, `genapi.py`, `memo.py` | users, keys, a 20 s cache of principals | sign up, log in, resolve, revoke | both |
| `store.py`, `account.py` | rows in DuckDB, pointers to them in RocksDB | upsert, delete, cache | threads, loop |
| `jobs.py` | last run of each job | the scheduler and six sweeps | the loop |

### What is hard, and what makes each part correct

* **Tool batches** join in the order they finish, and a panic loses the index of its
  call. Correct: every slot holds its own call's result, permits are never lost, the
  batch ends.
* **A chat over candidates** nests three loops and carries a checkpoint round them.
  Correct: it gives up only when nothing is left to try, never sends a rejected
  checkpoint, reports the latest error, ends.
* **A turn with tools** grows a transcript that each of thirteen adapters maps to its
  own wire, each with its own rule for what is a turn, a call and a result. Correct: the
  model is shown everything that was said; calls and results pair up; every call is run
  or returned; a retry from the first message does not answer another conversation.
* **A stream** passes through an adapter that may yield events as they come, replay a
  body it has buffered, or report only the end; then through a loop, often a channel, and
  a caller who may leave. Correct: the text arrives once, in order and whole; a cut is
  never reported as a success; everyone stops.
* **Framing**: the network cuts a body anywhere. Correct: reading does not depend on
  where.
* **The account manager** is shared; a chat decides on a snapshot and writes back
  later. Correct: no failure is lost from the count, the health fields agree, the
  newest credential survives concurrent refreshes, the file is what was last saved.
* **Credentials** sit in one of several places, sealed or not, and a refresh rotates
  them. Correct: a chat fails only for want of a way to refresh, and what is sealed can
  be opened again and stays sealed, wherever the process is killed.
* **Conversations and counters** are written in place under a mutex each. Correct: what
  was saved survives, histories only grow, no request goes uncounted.
* **The balancer** keeps two gauges that every way out of a request must release, and
  a cooldown that doubles. Correct: gauges equal the work in hand, a stream never
  restarts, a cooled account is the last resort, every request ends.
* **The quota** is a read-modify-write over two cells from several threads. Correct:
  no window allows more than its limit.
* **Abuse, auth, store, jobs** of the gateway: see the plan.

`PROJECT.json` lists these hazards at their lines, with the properties that would catch
each or a note that says why none does.

## 2. Plan

Done, in this order: `ToolExec`, `Errors`, `ChatOver`, `AccountRotation`, `Balancer`,
`Quota` and their first proofs; then `Failover`, the adapters (`AdapterStreams`,
`AdapterRequests`, `AuthRecords`, `Frames`), the modules that compose them with the client
and the bindings (`Streams`, `Bindings`, `Turn`, `Credentials`), `Histories`; then the
proofs of `Histories`, `Quota`, `Balancer`, `Credentials`, `Streams` and `Turn`. Every
invariant and every safety property of a passing run is a theorem.

What is left, the most valuable first:

1. `Abuse`: `check` (load, save) and `record_error` on the loop against `hard_ban` in a
   thread and `abuse_gc`. Properties: a temporary ban holds for its time and does not
   renew itself; a hard ban sticks (expected to fail: the save of a concurrent `check`
   overwrites it, and a ban for `ip="*"` is stored where nobody looks).
2. `AuthKeys`: the principal cache against revocation and token expiry (stale for at
   most the TTL), sign-up by two threads, the key list.
3. `StorePointers`: rows under a lock, pointers outside it; an abstract map of accounts
   as the specification it should refine.
4. `Jobs`: the scheduler, and the other sweeps against the modules whose state they touch.
5. `Gate`: `Abuse`, `Quota` and `Balancer` composed along `_gate` and `chat_completions`.
6. Proofs: what the readers of `Frames` make of a body of any length, once they are
   recursive functions; the invariants of the modules above.

## 3. Modules

| Module | Models | Composition |
|---|---|---|
| `ToolExec` | `crates/gravity-client/src/afc.rs` | |
| `Errors` | `crates/gravity-core/src/error.rs`, operators only | |
| `Failover` | what a chat over candidates promises; abstract | refined by `ChatOver` |
| `ChatOver` | `chat_over` and the rounds of its tool loop | extends `Errors`, instantiates `Failover` |
| `AccountRotation` | `manager.rs`, `io.rs`, `chat_with_manager` | extends `Errors` |
| `Balancer` | `balancer.py`, the two generation paths of `llm.py`, the gauge of `main.py` | |
| `Quota` | `quota.py`, `quota_sweep` of `jobs.py` | |
| `AdapterStreams` | how thirteen adapters fold an answer into events, operators only | |
| `Streams` | `chat_stream_over`, `chat_stream_chunks` and the loops of the bindings | extends `AdapterStreams` |
| `Frames` | lines, SSE events, frames, objects and protobuf, operators only | checked with `MCStreams` |
| `AdapterRequests` | how the adapters put a transcript on the wire, operators only | extends `AdapterStreams` |
| `Bindings` | what the bindings make of a call and of a response, operators only | extends `AdapterRequests` |
| `Turn` | `run_afc`, `run_json_emulated`, claude's and chatgpt's sessions | extends `Bindings` |
| `AuthRecords` | credentials and the five authenticators, operators only | |
| `Credentials` | the files and the refresh in `chat_with_manager` | extends `AuthRecords` |
| `Histories` | conversations and `metrics.rs` | |
| `MC...` | values for the constants | extend the module they name |
| `...Proofs` | theorems | extend the module they name; `TurnProofs` holds those of `ToolExec` as well |

An operator whose name ends in an underscore and a word (`Retry_NotCounted`) is a mutated
form of the one before the underscore, used only to show that a property can fail.

**ToolExec.** Variables: the next call to spawn, each task's program counter, the
permits, the slots, whether the batch returned or hit its `expect`. A task waits for a
permit, runs its handler, and finishes or panics; the batch joins finished tasks in any
order. Which handlers may panic is a constant; a panic either
ends its task (a build that unwinds) or the process (the release profile, `panic = "abort"`).
Its specification is `ExecSpec`, as the proofs extend it together with `Turn`, for which
the batch is one step.

**Errors.** A provider error is a record of kind, status, whether it is retryable and
whether it carries a `Retry-After`. `with_status`, `should_failover`,
`is_transient_rate_limit` and `invalidates_checkpoint` are translated case by case.

**ChatOver.** `pc` is the place in `chat_over`; `idx`, `attempt` and `round` are the three
loop counters. The upstream's answer to each call is chosen freely from the errors the
adapters build. History variables record how many checkpoints were opened, which were
rejected and the latest error. Tool execution is one step here; `ToolExec` is its inside
and `Turn` its transcript.

**Failover** knows only candidates, retries and failures: no checkpoint, no tool round. Its
steps say that candidates are asked in order, that a transient failure is retried while
there are retries, that the next candidate is asked only after a failure it may not share,
and that the outcome is an answer, the failure that ended the chat, or that there was none
to ask. `ChatOver` maps its `idx`, `attempt` and latest error to it (`Chain == INSTANCE
Failover WITH ...`); opening a checkpoint and a tool round are stuttering steps.

**AccountRotation.** Several chats run at once. Select (a snapshot under the lock), the
provider call, the refresh and the write-back are separate steps, because the lock is
dropped between them. `save` may fail, or be cut short by a crash and leave a torn file
that `load` refuses. `minted` is the newest credential the upstream has handed out: a
refresh retires the credential it was made from, so storing an older one would lock
the account out.

**Balancer.** One API key and provider. A request's record holds its candidates in the
order `select_candidates` gave them and the credentials it read. Everything between two
awaits is one step. Load is compared as a fraction by cross-multiplication; the float
penalty of a cooled account is a separate, more significant comparison, which agrees with
the code while an account's load stays below a million. `abandoned` and `leaked` are
history variables: what dropped streams have left in the two gauges (a stream closed at
its first chunk never reaches the `finally` that lowers the concurrency gauge, `main.py:314`).
With the code's tunables a cooldown may outlive the forget period, so that `Forget` drops
one that is still running. Account edits come from other threads; `custom` is the
resulting list of the key's enabled accounts.

**Quota.** One step per database call. The loop runs one `try_consume` or `quota_sweep`
at a time, for callers of two tiers; each reader is a thread in `status`. `stolen` records
that a reader has found a window expired and is about to roll it, which is what the exact
count cannot survive. `granted` is the set of calls that were allowed, each with its number
and its time, so that the calls of a span of time are counted and not summed. The clock counts whole seconds, as the stored `reset_at` does; the
cost of a call is 1, as in its only caller.

**AdapterStreams** speaks of an upstream's answer as wire events: text, the start, argument
fragments and end of a tool call, an error event, a payload that does not decode, the
`[DONE]` marker. For each adapter it says what the streamed path makes of one event
(`StreamStep`) and what the buffered path makes of all of them (`ChatOf`). Adapters come
in three kinds: `Streaming` ones yield as they read, `Replaying` ones read the whole body
and then yield its deltas, `DoneOnly` ones yield the response alone.

**Streams** is one streamed chat. The upstream sends or cuts (`conn`); the adapter reads
(`read`, `acc`) or replays (`replay`); the loop of one of six bindings hands items on,
directly or over a channel (`chan`); the caller reads, or closes its end. All adapters are
combined with all bindings. An error event may come anywhere, and the body may end or be
reset anywhere, inside a tool call as well: claude's reader checks for no end of a message and
reports what it has. Texts are sequences of characters, whatever these are;
`Flat` puts texts one after the other, and `Delivered` is what the caller has followed by what
is on its way, compared with `Said`, the text of the wire events sent so far. The folds are
recursive functions, not RECURSIVE operators, so that they can be proved about.

**Frames** is under the adapters: bytes to lines and server-sent events
(`gravity-http/src/sse.rs`), kiro's concatenated JSON objects, gemini's frames with a length
in UTF-16 units, and the varints, fields, values and Connect frames of cursor and windsurf.
Its ASSUMEs state that a cut anywhere changes nothing, and compare the incremental readers
with definitions that see the body at once, over every body of a bounded shape. An event
name set before a blank line without data is carried over to the next event, as the code
does; what does not decode is left out; lengths are below 2^31; gzip is taken as done.

**AdapterRequests** maps a transcript to a sequence of wire items [as, text, calls,
answers], one operator per adapter. A text is a sequence of tokens that can be told apart,
so that a message that is lost, repeated or attached to the wrong call shows. A wire is the
items of each message one after the other (`Flat`) or grows message by message (kiro's
`build_history`); both are recursive functions. **Bindings**
gives what each binding passes on of a caller's messages and tools, and of a response.

**Turn** composes them: a call comes in through the client, the manager or a binding, the
tool loop runs natively or as a JSON envelope, the adapter opens or reuses the remote
conversation where it has one (claude, chatgpt), posts results (claude) and asks. The
upstream answers with calls the model was told it may make, or fails; a failed turn is run
again from its first message with the checkpoint it had. Whether every call of an answer
has a handler is one choice per answer, as `run_afc` runs all of them or none; that some of a
batch have one is the choice "not". `Paired` says of
a caller's messages what the wire formats need and the client does not check.

**AuthRecords**: a credential is a number, and an account's `auth` the places it may be
in. `resolve_secret`, what each adapter presents, what each authenticator sends, to which
endpoint, and what it stores of the answer. `MCCredentials` assumes, and TLC evaluates, that a
key a caller passes without an account is the one the adapter presents, perplexity excepted,
which reads only cookies.

**Credentials** is one account of any provider with its credential in any place, a chat
per caller, the manager's memory and lock, `accounts.json` and `.gravity.key`, both written
in place. The upstream may rotate refresh tokens; requests are lost, answers are lost,
saves fail, the process is killed at any step. A manager seals what it saves if the file says
so (`secrets_encrypted`) or there is a key file, be it empty. A save that needs a key and finds
none creates the file, empty, and writes a key into it (`CreateKey`, `WriteKey`); a kill
in between leaves the empty file, in place of which the next save makes a key. `lost` records that a
fault destroyed the only copy of the newest token, or a file. `spoiled` records, per chat, that
one of its requests was lost or that its copy of the credential was overtaken by the rotation
of another chat. The code fails an overtaken chat; it would not have to, as the manager
has the newer token by then or gets it. A token does not expire again while a chat is between its
refresh and its second attempt: the code does not promise a third. Health and other accounts are in `AccountRotation`.

**Histories**: threads of one process chat, are counted (load, add, write under a lock) and
record their turn (under another lock, held while the file is emptied and written).
`kept` is what saves have completed, per key the turns with their places in the file, `reset` what `reset_metrics` has taken away,
`clobbered` names the records that hid their file. Keys that differ in a separator share a
file (`Colliding`); the listed run has none, and the properties leave them out.

## 4. Runs

Passing runs:

| Run | Instance | Shows |
|---|---|---|
| `tools_batch` | 4 calls, 2 workers, 1 without a handler, 2 that may panic | a batch that returns is right in every slot, and every batch ends |
| `chat_loop` | up to 3 candidates, 2 retries, 2 tool rounds, 7 errors | failover, retries, checkpoints, the refinement of `Failover`, termination |
| `accounts_chats` | 2 chats, 2 accounts, refreshes | health and credentials under concurrent write-back |
| `accounts_faults` | 2 chats, 1 account and the anonymous one, 2 faults | the file and the health fields with failed and torn saves, crashes, reloads; termination |
| `balancer_pool` | 2 requests, 2 accounts, 2 ticks, 1 edit, 1 disconnect or restart | selection, cooldown, failover, both gauges, termination |
| `quota_loop` | 1 reader, limits 1 and 2, 5 calls, 4 ticks, window of 2 | the counter and the rate while only the loop rolls windows; the counter never passes the limit whatever a reader does |
| `streams_delivery` | 13 adapters, 6 bindings, up to 4 wire events, texts of at most 1 character | order, completeness, errors, calls from fragments, streamed against buffered responses, termination; and the framings of `Frames` |
| `turn_tools` | 13 adapters, 8 ways in, 5 kinds of transcript, 2 rounds of up to 2 calls, 1 retry | what the model is shown, pairing of calls and results, every call handled, posted results, termination |
| `credentials_refresh` | 13 providers, every placement, with and without a key, 2 chats, 2 faults | refresh and rotation; sealed files can be opened, also after a kill while a key is made, and stay sealed |
| `histories_turns` | 2 threads, 2 keys, 3 turns, 2 faults | saved turns survive, histories grow, the usage counter is exact |

Runs that show a disagreement between the code and what it says of itself, and are
findings:

| Run | The repository says | The trace shows |
|---|---|---|
| `chat_checkpoint` | "Account the session was opened under." (`conversation.rs:112`) | after a 5xx the next account is called with the previous account's checkpoint |
| `accounts_cooldown` | "`cooldown` is how long to skip this account" (`manager.rs:147`) | a later failure of another chat ends a cooldown that is running |

Further configurations, kept beside the runs, reproduce smaller disagreements. They are
run by hand (`tlc -config <file> <module>`) and TLC finds each property violated:

| Configuration | Property | The repository says | The trace shows |
|---|---|---|---|
| `ToolExec_panic` (`ToolExec`) | `PanicBecomesErrorResult` | "A missing handler or a panic becomes an error result rather than aborting the batch." (`afc.rs:75`) | a panic joined before an earlier call finishes: the made-up result is overwritten and the final `expect` fails |
| `Balancer_inflight` (`MCBalancer`) | `InflightReleased` | "tracks an in-flight request" (`balancer.py:212`) | a stream whose client leaves keeps its account in flight |
| `Balancer_client` (`MCBalancer`) | `ClientOfItsAccount` | "one client per single-account AccountsFile" (`llm.py:58`) | an account stored again is called with its old credential |
| `Quota_race` (`Quota`) | `ConsumedAtomically` | "Atomically (under the GIL) consume" (`quota.py:64`) | a reader's late zero lets a window allow one call too many |
| `Streams_python` (`MCStreams`) | `TextOnce` | "Each `next()` call yields the next text delta" (`gravity-pyo3/src/lib.rs:61`) | the text of `Done` follows the deltas it is made of |
| `Streams_done` (`MCStreams`) | `EveryDoneMatchesChat` | "callers that buffer a stream get the same value a non-streaming `chat` would return" (`gravity-core/src/stream.rs:10`) | openai_compat's stream looks at text only: an error in a 200 body, which fails the buffered chat, is skipped, and the stream ends well and empty; tool calls are lost likewise |
| `Streams_halfcall` (`MCStreams`) | `NoHalfCall` | "Terminal event: the complete response" (`gravity-core/src/stream.rs:24`) | a body of claude's ends cleanly inside a tool call, and `Done` has the call with half its arguments |
| `Turn_kiro` (`MCTurn`) | `ResultsSentOnce` | "Build the `history` array from all but the last message" (`kiro/build.rs:73`), the last being the current one | of two results of a round the first is in the history and in the current message |
| `Turn_manager` (`MCTurn`) | `CheckpointBeforeChat` | "Whether a remote checkpoint must be created before chatting." (`capabilities.rs:227`) | `chat_with_manager` opens none, so that claude makes a conversation per round |
| `Credentials_idc` (`MCCredentials`) | `IdcRefreshedAtOidc` | "AWS IDC; refresh at `oidc.{region}.amazonaws.com/token`" (`kiro/auth.rs:8`) | the first refresh stores the token without its client, and the second goes to the desktop endpoint |
| `Histories_borrowed` (`MCHistories`) | `StartLoadsRecord` | "Create (or load) a persistent conversation" (`client.rs:608`) | a record borrowed before hides the file, which is then overwritten |

**What the properties leave out**, because the code does not do it; each is a named set or
condition in the module. `DeliveredInOrder` and `CompleteWhenFinished`: pyo3 and node send
the text again (`SendsTwice`), and perplexity gives up its text for tool calls.
`CallsComplete`: claude's call that the body ends within (`NoHalfCall` shows it).
`WellFormed`: kiro sends all results of a round but the last twice (`SentTwice`), and its current
message is outside the alternation, which is one of the history: after such a round the history
ends with a turn of the user and the current message is another.
`NoNeedlessFailure`: chats that another chat's rotation overtook (`spoiled`).
`ErrorsSurface`: node reports no errors, and eight adapters look at no error event (`ReadsErrors`
are the others). `DoneMatchesChat`: openai_compat's stream, which looks at text only (`TextOnly`).
`ModelSeesTranscript`: five adapters drop what a tool came back with
(`DropsOutput`), four drop system messages (`DropsSystem`). `CallsHandled`: codex, the JSON
loop and node's `chatAsync` ignore calls (`IgnoresCalls`). `NoNeedlessFailure`: the kiro account
above (`Downgraded`). `KeptSurvives`: torn and hidden files (`clobbered`).

**Bounds.** `MaxCands`, `MaxRetries`, `MaxIters`, `Workers` are parameters of the code and
not bounds of the model; three candidates give a first, a middle and a last one, two
retries a first and a last. `MaxTime`, `MaxFaults`, `MaxEdits`, `MaxDrops`, `MaxCalls`,
`MaxEvents`, `MaxTurns` cap what the environment does. Cooldowns and windows are shrunk to
one or two ticks with the order between the code's own tunables kept (base <= forget period
< cap in `Balancer`), and the clock runs past them, so that cooldowns expire, failures are
forgotten and windows roll. Two chats, requests or threads are enough for each race
the properties are about: each needs one actor between two steps of another. Two
faults allow a failed save followed by a crash, and in `Credentials` a kill that leaves an empty
key file followed by one that strikes the process after it. Four
wire events hold a whole tool call with both fragments of its arguments, or text before
and after an empty delta, followed by `[DONE]`; a text is empty, ink or a blank, which is what `trim` and the
tests for an empty text tell apart. Two rounds of two calls are the least in which a
result of an earlier round can be confused with one of the last, and one of several calls
can be treated apart. Three turns on two keys leave a saved turn before and after a
fault. Chats in `Credentials`, and threads and keys in `Histories`, are interchangeable,
so those two runs use symmetry; neither checks a liveness property.

**Fairness.** Safety is checked without any where the specification is `Spec`. `ToolExec`: a
spawned task that can run is run, and the batch goes on, as the runtime guarantees.
`ChatOver`, `AccountRotation`, `Balancer`: weak fairness of a chat's or a request's own
steps, because every request carries a timeout (`timeout_ms` of the account's transport),
and of `load` after a crash. `Turn`: weak fairness of its steps, as each is one await that
the timeout ends or a handler that returns. `Streams`: weak fairness of the end of the
body, which the request's timeout forces, of the loop over the stream, and of a caller who
has not closed it. Nothing is assumed of clients, faults, edits or the clock: weak
fairness of the steps of one actor does not need them. The mutex of the manager is held
for no await, so a chat that wants it gets it.

**Deadlock** is checked in the runs of `ToolExec`, `ChatOver`, `AccountRotation`, `Balancer`
and `Quota`, whose modules say what may happen after the end. A stream, a turn, and the
bounded lives of `Credentials` and `Histories` really stop: there the check is off, and for
streams and turns `StreamsEnd` and `TurnEnds` show that they stop only where they should.

## 5. Proofs

Proved for every value of the constants allowed by the assumptions:

* `ToolExecSafety`, `CrashesOnlyByPanic` (any number of calls and workers): types,
  `PermitsAccounted`, `ResultsInPlace`, `ReturnedIsComplete`, `CrashNeedsPanic`. The
  invariant adds what links a task to its slot (a joined task's result is there, no other
  task's is), which tasks exist, that only handlers declared to panic do, and that the
  batch ends only when every task has been joined. `BatchInCallOrder` draws from it what
  `Turn` takes for granted of a batch: it returns one result per call, in the order of the
  calls.
* `ChatOverSafety`, `ReportsLatestError`, `RejectedCheckpointDropped`, `ChatOverMovesOn`
  (any number of candidates, retries and rounds, any set of provider errors):
  `NoEarlySurrender`, `LatestErrorReported`, `NoRejectedCheckpoint`, `StatefulHasCheckpoint`,
  `BoundedCalls` and the action property `MovesOnForAReason`. The invariant adds that the
  checkpoint in hand is one of those opened and not rejected, and a budget that relates
  calls made to the three counters; a lemma carries the arithmetic.
* `ChatOverImplementsFailover`: every behaviour of `ChatOver` is, through its refinement
  mapping, a behaviour of `Failover`. The proof maps the initial states and then each
  action to a step or a stutter, from the invariant above.
* `AccountRotationSafety`, `CountsEveryFailure`, `HealthFieldsAgree`, `FileHoldsOutcomes`
  (any set of accounts, any number of chats): `FailuresCounted`, `HealthConsistent`,
  `OutcomesPersisted`, `NoCredentialLost`. `HealthInv` says of memory and disk alike that
  the health fields agree, so that a reload keeps it, and that the file equals memory unless
  the last change did not reach it. `CredInv` covers behaviours in which no save has failed
  and nothing has crashed: no chat works with a credential newer than the manager's, except
  the one chat per account that was just given it. Without it the invariant is not
  inductive: a chat could store an outdated credential.
* `GivesUpLast`, `TriesAreBounded` (the same): `NoEarlyGiveUp`, and that no chat calls a
  candidate more than twice, or the anonymous account more than once, which no run states.
  Their invariant (`ChatsOnTheirWay`) says of a chat at each place which candidates it has
  left, how often it called each, and what the error it holds allows.
* `BalancerGauges`, `BalancerConcurrency`, `BalancerExhausts`, `BalancerHealth`,
  `BalancerNeverRestarts`, `BalancerPrefersAvailable` (any finite sets of accounts and
  requests, any weights, priorities and tunables): `InflightAccounted`, `ConcAccounted`,
  `FailsOnlyWhenExhausted`, that health records agree with their failures, and the action
  properties `NeverRestartsStream` and `PrefersAvailable`. The
  gauges are cardinalities of sets of requests, so each step needs what it does to such a
  set: a request enters or leaves the set of one account, or, when it fails over, leaves one
  and enters another in the same step. `RequestsOnTheirWay` adds what a request's place says
  of the candidates it has left and of what it has passed on, without which a failed stream
  could have candidates left. `BalancerPrefersAvailable` needs that every finite set
  of candidates has a best one, and that the penalty of a cooldown outweighs every load.
* `CounterWithinLimit`, `CounterIsExact`, `RateIsBounded` (any limit, tiers, window and number
  of readers): `RemainingNonNegative`, `UsageExact`, `RateBounded`. The
  first invariant adds that the call under way has a tier (`LoopHasTier`), and that the value
  it is about to write is within the limit too (`WritesWithin`): the counter is read in one step and
  written in another, and a reader in between can only have set it to zero. The second (`WInv`)
  follows the loop through the steps of a call (`LoopInOrder`), and says, while no reader has
  found a window expired (`~stolen`), that nobody else rolls one (`LoopRolls`), that the counter is the
  number of calls allowed in the current window (`InWindow`), and that neither this window
  nor the span before it saw more than the limit, nor any span more than twice it
  (`Limited`): the bound on any span is not inductive without those on the last two.
* `UsageCounted`, `ConversationsGrow`, `SavedTurnsSurvive` (any number of threads, keys, turns
  and faults): `UsageExact`, `HistoryGrows` and `KeptSurvives` of `Histories`. The first invariant adds that the counter's lock
  is held by exactly the thread that is between reading and writing it (`OneWriter`), that
  the record being saved is in the map (`SavesWhatIsHeld`), and that the holder of the lock
  carries the right count (`CounterExact`), which is what makes an add in three steps as
  good as one. The second (`KInv`) adds that one caller saves at a time (`OneSaver`) and with
  the turn it brought (`SavesItsTurn`), and that what was kept is in its place both on disk
  (`OnDisk`) and in the map (`InMap`): a save empties the file and writes it again from the
  map, so neither holds without the other.
* `FailsOnlyForLackOfARefresh`, `NewestTokenIsKept`, `SealsCanBeOpened`, `SealedFileStaysSealed`
  (any set of the providers, any number of chats and faults): `NoNeedlessFailure`, `StaysRefreshable`,
  `SealedFileReadable` and the action property `StaysSealed`. The invariant says who holds the lock and what is on its
  way to the file (`Locked`, `SavedUnlessOnItsWay`), that no copy of the account loses the key of
  what it has sealed, that a key is being made only while nothing is sealed, and that the manager
  of a sealed file seals (`KeysHold`), that every copy's tokens are ones the upstream gave out
  (`CopiesSound`), what a chat presents at each place (`Presented`), and that an account
  which lost its client is refreshed elsewhere for good (`ElsewhereStays`). Of a
  rotated refresh token it says that the one chat that took the newest alone has it (`OneTook`),
  that otherwise the manager has it (`NewestIsKept`), and that a copy nobody overtook has it too
  (`CopiesCurrent`); without the three, a chat with an outdated copy could overwrite the
  newest token.
* `TextArrivesInOrder`, `FinishedMeansComplete`, `ErrorsAreNotSwallowed`, `CallsAreWhole`,
  `DoneIsWhatChatReturns` (any sets of adapters and bindings, any texts, answers of any
  length): `DeliveredInOrder`, `CompleteWhenFinished`, `ErrorsSurface`, `CallsComplete` and
  `DoneMatchesChat`; the calls are whole wherever the body ends, but for the one of claude's that
  `CallsComplete` names. The invariant says that the upstream's events follow one another as they may
  (`Wire`), that a streaming adapter in its loop has kept the text of what it read, and no
  error (`Reading`), that its calls are those that ended, with the open one beside them
  (`CallsOfClaude`, `CallsOfAnthropic`), and that the buffered fold of the same events stands
  where it does (`SameFold`); that a buffering adapter has the answer of its chat in hand
  (`InHand`); that what the loop passed on is what was handed over (`Looping`), the end comes
  last in a channel (`Channel`), and an end on its way is a true one (`ToldRight`).
  `NeverAhead` is stronger than `DeliveredInOrder`: text is repeated only once nothing more is said, since
  otherwise the next delta would break the order.
* `TurnTypes`, `TurnHandlesCalls`, `TurnPostsResultsHome`, `TurnShowsTranscript` (any sets of
  adapters and ways in, any messages of a caller, any number of rounds, retries and calls per
  answer): `TypeOK`, `CallsHandled`, `ResultsPostedWhereAsked` and `ModelSeesTranscript`. The
  invariant (`IInv`) says what the way in has settled before the turn begins (`Settled`: the
  messages are there and valid, a batch is of at least one call and, in the JSON loop, of exactly
  one) and that ids of calls are taken in order (`Numbered`), which keeps a call of this turn
  apart from the caller's own. `AtHome` says that while the turn has its checkpoint, the calls
  about to be run, the results in the transcript, those waiting to be posted and those posted
  belong to the checkpoint's conversation or to the caller; the loop starts again from the
  first message with the same checkpoint, so nothing less is inductive. `Shown` says that what
  the upstream has is the wire of the running transcript, and that each call that was run has a
  message with what its handler returned. `WireCarries` is the lemma about the adapters the
  last theorem rests on, format by format: each token of a message is in the wire unless the adapter is one
  of those said to drop it.
* `TurnPairsCalls` (the same): `WellFormed`. Its invariant (`PInv`) says that the request and the
  running transcript are `Paired`, that the calls in them were numbered before, and that
  those about to be run are new and differ from each other; a round then adds calls and
  their results together. The last part of `Paired`, that a transcript which ends in results
  holds all of its last round, is there for kiro alone, whose current message has to answer
  every call of it. For adapters but kiro that name calls by id each message's items hold just its calls
  and its result (`Faithful`), and what they make of a transcript that grows stays in step
  with it (`Pairs`); for kiro, whose formats merge and split turns, each step of
  `build_history` keeps a history that alternates, in which results follow calls and each is
  there once (`Tidy`), and what the current message repeats of them is counted beside it.

The folds of `Streams` (`Flat`, `Deltas`, `Fold`) and of `Turn` (`Flat`, `build_history`) need induction over the length of a
sequence. `SetInduction` derives it for a set instead of a predicate from the
well-foundedness of the naturals; with it the proofs construct the local function of each
fold, show that two of them agree wherever the sequences do, and so obtain what a fold
makes of a sequence that grew by one.

The assumptions are the ones the modules name: counts and bounds are naturals, providers are
built-in ones, provider errors have the type of `ProviderError`, accounts are numbered, the
time bound is at least one tick, some tier has the highest limit, the balancer's accounts
and requests are finite, texts are sequences of characters, the value that stands for a
free lock is not a thread or a chat, and a caller's messages are at least one, made as the constructors of
`Message` make them, with the caller's ids apart from the model's. `TurnPairsCalls` assumes in
addition that the caller's messages are `Paired`; nothing in the client enforces it, and a
caller who passes a result without its call gets a wire that has one. TLC evaluates that
assumption on the chats of `turn_tools` (`ChatsArePaired`).

Only model-checked: the liveness properties (`BatchEnds`, `ChatEnds`, `ChatsEnd`,
`RequestsEnd`, `StreamsEnd`, `TurnEnds`), which need fairness and ENABLED. `Frames`
is checked over bounded inputs only: its readers are RECURSIVE operators, which the prover
does not support.

## 6. Not modelled

* **Gateway**: `abuse.py`, `auth.py` and `genapi.py`, the pointers and the response cache of
  `store.py` and `account.py`, the scheduler of `jobs.py`: in the plan above. Of the balancer,
  `health_snapshot` and `list_models_for_provider`, which only read. `set_limit` of `quota.py`
  has no caller; the explicit limit is a constant. Data models, configuration, process
  entry points: no state.
* **Data**: signatures, proof of work, headers, sampling parameters, images and the text of
  requests beyond what tokens tell apart; the text of the JSON envelope and structured
  output; the bytes of Fernet, gzip and TLS fingerprints, cookies and connection handling.
* **Discovery**: `discover_models` changes no state and returns what the endpoint lists or the
  static list; only the kind of account a caller's key becomes for it is in `AuthRecords`.
* **Tables**: the catalogue of models, capabilities, provider registration.
* **Bindings**: ownership of memory across the C boundary, and the conversion of types.
* **Outside**: HTTP, the providers' services, RocksDB and DuckDB are external; a single
  database call is atomic.
* **Conversations**: the list of remote checkpoints a record may hold, which the client
  neither reads nor writes, and the system prompt in front of the turns.
* **Several processes** on one `~/.gravity`: the files have no lock between processes, and
  the code makes no promise about it.

`PROJECT.json` lists every part under `components` with its status.
