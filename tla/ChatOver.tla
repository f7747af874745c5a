------------------------------ MODULE ChatOver ------------------------------
(***************************************************************************)
(* AsyncGravityClient::chat_over and run_afc of gravity-client/src/        *)
(* client.rs: one chat over an ordered list of candidate accounts, with    *)
(* same-account retries on transient rate limits, failover to the next     *)
(* candidate, remote checkpoints and the tool loop.                        *)
(***************************************************************************)
EXTENDS Errors

CONSTANTS Upstream,      \* the ProviderErrors the provider's adapter builds
          MaxCands,      \* bound on candidates.len()
          MaxRetries,    \* policy.rate_limit_max_retries
          MaxIters       \* policy.max_afc_iterations

ASSUME UpstreamAssumption == Upstream \subseteq ProviderErrorType
ASSUME BoundsAssumption == MaxCands \in Nat /\ MaxRetries \in Nat /\ MaxIters \in Nat

VARIABLES n,           \* candidates.len()
          stateful,    \* capabilities().requires_remote_checkpoint
          auto,        \* function_calling == Auto, with a registered tool
          pc,          \* where chat_over stands
          idx,         \* the candidate it is on, from 1
          attempt,     \* rate-limit retries already spent on that candidate
          round,       \* iterations run_afc has completed
          checkpoint,  \* the Checkpoint carried round the loop, or NoCheckpoint
          last_err,    \* last_err
          outcome      \* what chat_over returned

\* What has happened so far, for the properties only.
VARIABLES opened,      \* checkpoints opened
          rejected,    \* checkpoints an error of run_afc has invalidated
          chats,       \* calls of provider.chat
          latest       \* the error met last, and where it was met

params  == <<n, stateful, auto>>
history == <<opened, rejected, chats, latest>>
vars == <<n, stateful, auto, pc, idx, attempt, round, checkpoint, last_err,
          outcome, opened, rejected, chats, latest>>

NoCheckpoint == [owner |-> 0, gen |-> 0]
NoError == Plain("None")
Answered == Plain("Ok")
AccountSelection == Plain("AccountSelection")
AfcExhausted == new("Other", FALSE)

\* A request that fails validate(), or an unregistered provider.
EntryErrors == {ValidationError, Plain("ProviderNotRegistered")}

\* What open_checkpoint and chat may fail with.
CallErrors == Upstream \cup {NetworkError, ValidationError}

Init == /\ n \in 0..MaxCands
        /\ stateful \in BOOLEAN
        /\ auto \in BOOLEAN
        /\ pc = "enter"
        /\ idx = 1 /\ attempt = 0 /\ round = 0
        /\ checkpoint = NoCheckpoint
        /\ last_err = NoError /\ outcome = NoError
        /\ opened = 0 /\ rejected = {} /\ chats = 0
        /\ latest = [at |-> "none", err |-> NoError]

Return(result) == pc' = "done" /\ outcome' = result

\* The early returns before the candidate loop, or the first iteration.
Enter ==
    /\ pc = "enter"
    /\ \/ \E e \in EntryErrors : Return(e)
       \/ n = 0 /\ Return(AccountSelection)
       \/ n > 0 /\ pc' = "open" /\ UNCHANGED outcome
    /\ UNCHANGED <<params, idx, attempt, round, checkpoint, last_err, history>>

\* break: the next candidate, or the end of the for loop with last_err in hand.
NextCandidate(err) ==
    /\ last_err' = err
    /\ attempt' = 0
    /\ \/ idx < n /\ idx' = idx + 1 /\ pc' = "open" /\ UNCHANGED outcome
       \/ idx = n /\ UNCHANGED idx /\ Return(err)

\* A stateful provider with no checkpoint in hand has to open one first.
NeedsOpen == stateful /\ checkpoint = NoCheckpoint

\* provider.open_checkpoint(&ctx).await came back with Ok(Some(cp)).
OpenOk ==
    /\ pc = "open" /\ NeedsOpen
    /\ opened' = opened + 1
    /\ checkpoint' = [owner |-> idx, gen |-> opened + 1]
    /\ pc' = "chat"
    /\ round' = 0
    /\ UNCHANGED <<params, idx, attempt, last_err, outcome, rejected, chats, latest>>

OpenErr_TriesAgain(e) ==
    /\ pc = "open" /\ NeedsOpen
    /\ last_err' = e
    /\ latest' = [at |-> "open", err |-> e]
    /\ UNCHANGED <<params, pc, idx, attempt, round, checkpoint, outcome, opened, rejected, chats>>

OpenErr_KeepsFirst(e) ==
    /\ pc = "open" /\ NeedsOpen
    /\ NextCandidate(IF last_err = NoError THEN e ELSE last_err)
    /\ latest' = [at |-> "open", err |-> e]
    /\ UNCHANGED <<params, round, checkpoint, opened, rejected, chats>>

\* .. or with Err(e): whatever the error, the next candidate is tried.
OpenErr(e) ==
    /\ pc = "open" /\ NeedsOpen
    /\ NextCandidate(e)
    /\ latest' = [at |-> "open", err |-> e]
    /\ UNCHANGED <<params, round, checkpoint, opened, rejected, chats>>

\* No checkpoint needed, or one left over from an earlier iteration.
SkipOpen ==
    /\ pc = "open" /\ ~NeedsOpen
    /\ pc' = "chat"
    /\ round' = 0
    /\ UNCHANGED <<params, idx, attempt, checkpoint, last_err, outcome, history>>

DropCheckpoint_Kept(e) ==
    /\ UNCHANGED checkpoint
    /\ rejected' = IF invalidates_checkpoint(e)
                   THEN rejected \cup ({checkpoint} \ {NoCheckpoint}) ELSE rejected

\* if pe.invalidates_checkpoint() { checkpoint = None; }
DropCheckpoint(e) ==
    IF invalidates_checkpoint(e)
    THEN /\ checkpoint' = NoCheckpoint
         /\ rejected' = rejected \cup ({checkpoint} \ {NoCheckpoint})
    ELSE UNCHANGED <<checkpoint, rejected>>

MayFailOver_LastTooSoon(e) == should_failover(e) /\ idx + 1 < n

\* err.should_failover() && !is_last
MayFailOver(e) == should_failover(e) /\ idx < n

DueForRetry_FailoverFirst(e) ==
    is_transient_rate_limit(e) /\ attempt < MaxRetries /\ ~MayFailOver(e)

\* pe.is_transient_rate_limit() && attempt < rate_limit_max_retries
DueForRetry(e) == is_transient_rate_limit(e) /\ attempt < MaxRetries

\* attempt += 1; sleep(rate_limit_delay).await; continue
RetrySame == attempt' = attempt + 1 /\ pc' = "sleep" /\ UNCHANGED <<idx, last_err, outcome>>

\* run_afc came back with Err(e): retry, fail over, or give up.
HandleErr(e) ==
    /\ DropCheckpoint(e)
    /\ latest' = [at |-> "chat", err |-> e]
    /\ \/ DueForRetry(e) /\ RetrySame
       \/ ~DueForRetry(e) /\ MayFailOver(e) /\ NextCandidate(e)
       \/ /\ ~DueForRetry(e) /\ ~MayFailOver(e)
          /\ Return(e)
          /\ UNCHANGED <<idx, attempt, last_err>>

\* provider.chat(&ctx).await failed.
ChatErr(e) ==
    /\ pc = "chat" /\ round < MaxIters
    /\ chats' = chats + 1
    /\ HandleErr(e)
    /\ UNCHANGED <<params, round, opened>>

\* It answered, and asks for no tools that the client can run: Ok(resp).
ChatFinal ==
    /\ pc = "chat" /\ round < MaxIters
    /\ chats' = chats + 1
    /\ Return(Answered)
    /\ UNCHANGED <<params, idx, attempt, round, checkpoint, last_err, opened, rejected, latest>>

\* It asks for tools: they are executed and the loop goes round.
ChatTools ==
    /\ pc = "chat" /\ round < MaxIters /\ auto
    /\ chats' = chats + 1
    /\ round' = round + 1
    /\ UNCHANGED <<params, pc, idx, attempt, checkpoint, last_err, outcome, opened, rejected, latest>>

\* for _ in 0..max_afc_iterations ran out: "afc_loop_exhausted".
Exhausted ==
    /\ pc = "chat" /\ round = MaxIters
    /\ HandleErr(AfcExhausted)
    /\ UNCHANGED <<params, round, opened, chats>>

\* tokio::time::sleep(rate_limit_delay).await; continue
Wake ==
    /\ pc = "sleep"
    /\ pc' = "open"
    /\ UNCHANGED <<params, idx, attempt, round, checkpoint, last_err, outcome, history>>

Done == pc = "done" /\ UNCHANGED vars

Next == \/ Enter \/ OpenOk \/ SkipOpen \/ ChatFinal \/ ChatTools
        \/ Exhausted \/ Wake \/ Done
        \/ \E e \in CallErrors : OpenErr(e) \/ ChatErr(e)

\* Every await of chat_over is assumed to come back (requests carry a timeout).
Spec == Init /\ [][Next]_vars
FairSpec == Spec /\ WF_vars(Next)

-----------------------------------------------------------------------------
Checkpoints == [owner : 0..MaxCands, gen : Nat]
Results == CallErrors \cup EntryErrors \cup {NoError, Answered, AccountSelection, AfcExhausted}

TypeOK ==
    /\ n \in 0..MaxCands /\ stateful \in BOOLEAN /\ auto \in BOOLEAN
    /\ pc \in {"enter", "open", "chat", "sleep", "done"}
    /\ idx \in Nat \ {0} /\ (pc \in {"open", "chat", "sleep"} => idx <= n)
    /\ attempt \in 0..MaxRetries
    /\ round \in 0..MaxIters
    /\ checkpoint \in Checkpoints
    /\ last_err \in Results /\ outcome \in Results
    /\ latest \in [at : {"none", "open", "chat"}, err : Results]
    /\ opened \in Nat /\ rejected \subseteq Checkpoints /\ chats \in Nat

\* chat_over never gives up early: an error that another account might not
\* have is surfaced only from the last candidate, and a transient rate limit
\* only once the retries of that candidate are spent.
NoEarlySurrender ==
    pc = "done" /\ latest.at = "chat" /\ outcome = latest.err =>
        /\ should_failover(outcome) => idx = n
        /\ is_transient_rate_limit(outcome) => attempt = MaxRetries

\* The classification by status behind it: a 401, 403, 429 or 5xx of one
\* account is never the end of the chat while another candidate is left.
StatusFailsOver ==
    pc = "done" /\ latest.at = "chat" /\ outcome = latest.err
        /\ outcome.status \in {401, 403, 429} \cup (500..599) => idx = n

\* The caller is told the error that ended the chat, never an older one of
\* another candidate, and never the "all candidate accounts failed" fallback.
LatestErrorReported ==
    pc = "done" /\ latest.at # "none" => outcome \in {latest.err, Answered}

\* A checkpoint an upstream has rejected with 401, 403, 404 or 409 is never
\* sent again, on this or on any later candidate.
NoRejectedCheckpoint == pc = "chat" => checkpoint \notin rejected

\* A provider that requires a remote checkpoint is never called without one.
StatefulHasCheckpoint == pc = "chat" /\ stateful => checkpoint # NoCheckpoint

\* Work is bounded: each candidate costs at most 1 + MaxRetries runs of the
\* tool loop, each at most MaxIters provider calls.
BoundedCalls == chats <= n * (MaxRetries + 1) * MaxIters

\* chat_over leaves a candidate for good, and only for a reason: the index
\* never goes back, and it moves after a checkpoint that could not be opened
\* or an error that should fail over and is not due for a retry.
MovesOnForAReason ==
    [][idx' # idx =>
         /\ idx' = idx + 1
         /\ \/ pc = "open"
            \/ /\ should_failover(latest'.err)
               /\ is_transient_rate_limit(latest'.err) => attempt = MaxRetries]_vars


\* The failures of a candidate: a checkpoint that could not be opened, after
\* which any other candidate may do better, or an error of run_afc.
CandidateFailures == [at : {"open", "chat"}, err : CallErrors \cup {AfcExhausted}]

Chain == INSTANCE Failover WITH
    cand <- idx, tries <- attempt, failure <- latest, over <- (pc = "done"),
    Failures <- CandidateFailures,
    Transient <- {f \in CandidateFailures : f.at = "chat" /\ is_transient_rate_limit(f.err)},
    Passing <- {f \in CandidateFailures : f.at = "open" \/ should_failover(f.err)},
    Refusals <- EntryErrors, NoCandidates <- AccountSelection,
    Answer <- Answered, Pending <- NoError, NoFailure <- [at |-> "none", err |-> NoError]

\* chat_over, with its checkpoints, tool rounds and waits hidden, does what
\* Failover promises (client.rs:136-190).
KeepsFailoverPromise == Chain!Spec

\* Every chat ends.
ChatEnds == <>(pc = "done")

\* "Account the session was opened under.": a checkpoint is only ever used
\* with the account that opened it.
CheckpointOfOwnAccount == pc = "chat" /\ stateful => checkpoint.owner = idx
=============================================================================
