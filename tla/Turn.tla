--------------------------------- MODULE Turn ---------------------------------
(***************************************************************************)
(* One turn with tools: run_afc and run_json_emulated of gravity-client/   *)
(* src/client.rs around an adapter of gravity-providers, with what the     *)
(* upstream is sent (AdapterRequests) and what the adapter hears of its    *)
(* answer.  A turn comes in through chat_over, chat_with_manager or one of *)
(* the bindings (Bindings), and one that fails may be run again from its   *)
(* first message: chat_over on a transient rate limit, chat_with_manager   *)
(* once its account's credentials are refreshed.                           *)
(***************************************************************************)
EXTENDS Naturals, Bindings

CONSTANTS Adapters,    \* the adapters a turn may use
          Entries,     \* the ways a turn may come in
          BaseChats,   \* the messages a caller may pass
          MaxIters,    \* policy.max_afc_iterations
          MaxRetries,  \* policy.rate_limit_max_retries
          MaxCalls     \* bound on the tool calls of one answer

\* Ids of the model's calls follow those of the calls the request came with.
BaseIds == 10

ASSUME TurnAssumption ==
    /\ Adapters \subseteq AllAdapters
    /\ Entries \subseteq Bindings \cup {"over", "manager"}
    /\ BaseChats \subseteq Seq(MessageType(1..BaseIds)) \ {<<>>}
    /\ {MaxIters, MaxRetries, MaxCalls} \subseteq Nat

VARIABLES adapter, via,
          request,    \* what the caller passes, then what the client is called with
          json,       \* run_json_emulated, rather than the loop of run_afc
          pc,         \* enter, open, begin, connect, ask, answer, tools, failed, done
          checkpoint, \* <<>>, or the id of its remote conversation, 0 for none
          convs,      \* how many conversations were created at the upstream
          conv,       \* the conversation of this round
          messages,   \* the running transcript
          round,      \* iterations completed
          attempt,    \* retries spent
          posted,     \* results posted to remote conversations, with theirs
          todo,       \* results still to be posted before this completion
          seen,       \* what the upstream was last sent
          asked,      \* how many tool calls the model has made
          made,       \* the calls of its last answer
          heard,      \* the calls the adapter's ChatResponse has of them
          calledIn,   \* <<id, conversation>> of every call the model made
          executed,   \* the calls executed, in order
          returned,   \* the calls in what the caller gets
          outcome     \* "none", "ok" or "error"

vars == <<adapter, via, request, json, pc, checkpoint, convs, conv, messages, round,
          attempt, posted, todo, seen, asked, made, heard, calledIn, executed,
          returned, outcome>>
caller == <<adapter, via, request>>
remote == <<checkpoint, convs, conv, posted, todo>>
progress == <<json, messages, round, attempt, executed>>
answer == <<asked, made, heard, calledIn>>
result == <<returned, outcome>>

Init == /\ adapter \in Adapters /\ via \in Entries
        /\ request \in [messages : BaseChats, sys : {<<>>, <<<<"sys", 0>>>>}, tools : BOOLEAN]
        /\ json = FALSE /\ pc = "enter" /\ messages = <<>>
        /\ checkpoint = <<>> /\ convs = 0 /\ conv = 0
        /\ round = 0 /\ attempt = 0
        /\ posted = <<>> /\ todo = <<>> /\ seen = <<>>
        /\ asked = 0 /\ made = <<>> /\ heard = <<>> /\ calledIn = {}
        /\ executed = <<>> /\ returned = <<>> /\ outcome = "none"

Return(res) == pc' = "done" /\ outcome' = res

\* The binding's parsing, and the validation the client starts with.
Enter ==
    /\ pc = "enter"
    /\ request' = Entered(via, request)
    /\ \/ Valid(request') /\ pc' = "open" /\ UNCHANGED outcome
       \/ ~Valid(request') /\ Return("error")
    /\ UNCHANGED <<adapter, via, remote, progress, seen, answer, returned>>

RequiresCheckpoint == {"claude", "chatgpt"}

\* open_checkpoint: claude creates a remote conversation; chatgpt's names none.
Open ==
    /\ pc = "open"
    /\ checkpoint' = CASE adapter = "claude" -> <<convs + 1>>
                       [] adapter = "chatgpt" -> <<0>>
                       [] OTHER -> <<>>
    /\ convs' = IF adapter = "claude" THEN convs + 1 ELSE convs
    /\ pc' = "begin"
    /\ UNCHANGED <<caller, conv, posted, todo, progress, seen, answer, result>>

\* It fails: chat_over gives up on the account; chat_with_manager goes on
\* without a checkpoint (`.await.ok().flatten()`).
OpenFails ==
    /\ pc = "open" /\ adapter = "claude"
    /\ \/ via = "manager" /\ pc' = "begin" /\ UNCHANGED outcome
       \/ via # "manager" /\ Return("error")
    /\ UNCHANGED <<caller, remote, progress, seen, answer, returned>>

Instruction == user(<<<<"tools", 0>>>>)

\* Handlers are registered with the client of a program of its own.
HasHandlers == request.tools /\ via \notin Bindings
EmulatesJson == HasHandlers /\ adapter \in JsonEmulated \cup {"openai_compat"}

\* run_afc: a provider without native tools gets the instruction of
\* build_json_tool_instruction, if one of the tools has a handler.
Begin ==
    /\ pc = "begin"
    /\ json' \in IF EmulatesJson THEN BOOLEAN ELSE {FALSE}
    /\ messages' = IF json' THEN Append(request.messages, Instruction) ELSE request.messages
    /\ round' = 0 /\ executed' = <<>>
    /\ pc' = "connect"
    /\ UNCHANGED <<caller, remote, attempt, seen, answer, result>>
-----------------------------------------------------------------------------
(* What an adapter asks of its upstream before the chat.  A reply: of       *)
(* which status, and what its body or the account has.                      *)

Replies == [ok : BOOLEAN, arkose : BOOLEAN, pow : {"no", "unseeded", "solved", "unsolved"},
            token : BOOLEAN, known : BOOLEAN, orgs : 0..2]

\* discover_org of claude/mod.rs, unless the account names one.
discover_org(r) == r.known \/ (r.ok /\ r.orgs > 0)

\* get_requirements of chatgpt/provider.rs.
get_requirements(r) == r.ok /\ ~r.arkose /\ r.pow \in {"no", "solved"} /\ r.token

\* bootstrap of gemini/provider.rs, unless the session is warm; and the one of
\* perplexity/mod.rs, which ignores its outcome.
GeminiBootstrap(r) == r.known \/ r.ok
PerplexityBootstrap(r) == TRUE

Connected(r) ==
    CASE adapter = "claude" -> discover_org(r)
      [] adapter = "chatgpt" -> get_requirements(r)
      [] adapter = "gemini" -> GeminiBootstrap(r)
      [] adapter = "perplexity" -> PerplexityBootstrap(r)
      [] OTHER -> TRUE

ensure_conversation_Anew == convs + 1

\* ensure_conversation of claude/mod.rs: the checkpoint's, else a new one.
ensure_conversation == IF checkpoint = <<>> THEN convs + 1 ELSE checkpoint[1]

OfTool(m) == IF m.role = "tool" THEN <<m>> ELSE <<>>
ToolMessages == Each(messages, OfTool)

Connect ==
    /\ pc = "connect" /\ round < MaxIters
    /\ {r \in Replies : Connected(r)} # {}
    /\ IF adapter = "claude"
       THEN /\ conv' = ensure_conversation
            /\ convs' = IF conv' > convs THEN conv' ELSE convs
            /\ todo' = ToolMessages
       ELSE UNCHANGED <<conv, convs, todo>>
    /\ pc' = "ask"
    /\ UNCHANGED <<caller, checkpoint, posted, progress, seen, answer, result>>

\* .. or the reply will not do, or claude's new conversation is not created.
ConnectFails ==
    /\ pc = "connect" /\ round < MaxIters
    /\ \/ {r \in Replies : ~Connected(r)} # {}
       \/ adapter = "claude" /\ checkpoint = <<>>
    /\ pc' = "failed"
    /\ UNCHANGED <<caller, remote, progress, seen, answer, result>>

\* submit_tool_results: every Role::Tool message of the request, one by one.
submit_tool_results ==
    /\ pc = "ask" /\ todo # <<>>
    /\ \/ posted' = Append(posted, [result |-> Head(todo).result, to |-> conv]) /\ UNCHANGED pc
       \/ pc' = "failed" /\ UNCHANGED posted
    /\ todo' = Tail(todo)
    /\ UNCHANGED <<caller, checkpoint, convs, conv, progress, seen, answer, result>>
-----------------------------------------------------------------------------
\* provider.chat sends the request ..
Ask ==
    /\ pc = "ask" /\ todo = <<>>
    /\ seen' = WireOf(adapter, messages, request.sys)
    /\ pc' = "answer"
    /\ UNCHANGED <<caller, remote, progress, answer, result>>

\* .. and fails: transport, or a status that is no success.
AskFails ==
    /\ pc = "answer"
    /\ pc' = "failed"
    /\ UNCHANGED <<caller, remote, progress, seen, answer, result>>

Heard_FirstOnly(calls) == IF adapter \in CallsTools /\ calls # <<>> THEN <<Head(calls)>> ELSE <<>>

\* What of the calls made the ChatResponse has (AdapterStreams).
Heard(calls) == IF adapter \in CallsTools THEN calls ELSE <<>>

\* runnable: there are calls, and all of them are of registered tools; one
\* without a handler makes the answer one that is not registered.
Runnable(registered) == heard' # <<>> /\ registered

Calls(k) == [i \in 1..k |-> BaseIds + asked + i]
Makes(k) ==
    /\ made' = Calls(k) /\ asked' = asked + k
    /\ calledIn' = calledIn \cup {<<made'[i], conv>> : i \in 1..k}

\* run_afc: the model answers with a text, and with tool calls if the request
\* told it of tools.
Answer ==
    /\ pc = "answer" /\ ~json
    /\ \E k \in 0..MaxCalls, registered \in {FALSE, HasHandlers} :
          /\ k > 0 => adapter \in Advertises /\ request.tools
          /\ Makes(k)
          /\ heard' = Heard(made')
          /\ IF Runnable(registered)
             THEN pc' = "tools" /\ UNCHANGED result
             ELSE returned' = Handed(via, heard') /\ Return("ok")
    /\ UNCHANGED <<caller, remote, progress, seen>>

\* run_json_emulated: parse_tool_envelope finds the call of a registered tool;
\* or a final envelope, a plain text, a call of an unknown tool, or no text but
\* a call of the protocol's own, which is not looked at: finalize_emulated.
AnswerJson ==
    /\ pc = "answer" /\ json
    /\ \/ /\ Makes(1)
          /\ heard' = made' /\ pc' = "tools" /\ UNCHANGED result
       \/ /\ \E k \in 0..MaxCalls : (k > 0 => adapter \in CallsTools) /\ Makes(k)
          /\ heard' = <<>> /\ returned' = <<>> /\ Return("ok")
    /\ UNCHANGED <<caller, remote, progress, seen>>

\* What the transcript says of calls that were run, natively ..
NativeRound(calls) ==
    <<assistant_with_tools(<<<<"say", 0>>>>, calls)>>
      \o [i \in DOMAIN calls |-> tool_result(calls[i])]

\* .. and emulated: the envelope, and the result in a text of the user.
JsonRound(calls) == <<assistant(<<<<"say", 0>>>>), user(Result(calls[1]).output)>>

\* execute_tools_parallel (ToolExec), and its results in the transcript.
RunTools ==
    /\ pc = "tools"
    /\ executed' = executed \o heard
    /\ messages' = messages \o (IF json THEN JsonRound(heard) ELSE NativeRound(heard))
    /\ round' = round + 1
    /\ pc' = "connect"
    /\ UNCHANGED <<caller, remote, json, attempt, seen, answer, result>>

\* "afc_loop_exhausted"
Exhausted ==
    /\ pc = "connect" /\ round = MaxIters
    /\ Return("error")
    /\ UNCHANGED <<caller, remote, progress, seen, answer, returned>>

\* The adapters whose authenticator() is not None.
HasAuthenticator == {"kiro", "cursor", "codex", "gemini_cli", "antigravity"}

\* The retries chat_over allows itself, and chat_with_manager: one, after
\* refresh_credentials.
RetriesAllowed ==
    IF via # "manager" THEN MaxRetries ELSE IF adapter \in HasAuthenticator THEN 1 ELSE 0

Retry_NotCounted ==
    /\ pc = "failed"
    /\ pc' = "begin"
    /\ UNCHANGED <<caller, remote, progress, seen, answer, result>>

\* The turn is run again from its first message and with the same checkpoint,
\* on a transient rate limit (chat_over) or a refused credential (the manager);
\* another error ends the turn on this account.
Retry ==
    /\ pc = "failed"
    /\ \/ /\ attempt < RetriesAllowed
          /\ attempt' = attempt + 1 /\ pc' = "begin" /\ UNCHANGED outcome
       \/ Return("error") /\ UNCHANGED attempt
    /\ UNCHANGED <<caller, remote, json, messages, round, executed, seen, answer, returned>>

Next == \/ Enter \/ Open \/ OpenFails \/ Begin \/ Connect \/ ConnectFails \/ submit_tool_results \/ Ask
        \/ AskFails \/ Answer \/ AnswerJson \/ RunTools \/ Exhausted \/ Retry

Spec == Init /\ [][Next]_vars

\* Every await of the turn comes back: requests have a timeout, handlers end.
FairSpec == Spec /\ WF_vars(Next)
-----------------------------------------------------------------------------
Outs(ids) == {<<"out", ids[i]>> : i \in DOMAIN ids}
Posted == {posted[i].result.output[1] : i \in DOMAIN posted}
Received == TokensOf(seen) \cup Posted

TypeOK ==
    /\ adapter \in Adapters /\ json \in BOOLEAN
    /\ round \in 0..MaxIters /\ attempt \in 0..RetriesAllowed
    /\ pc \in {"enter", "open", "begin", "connect", "ask", "answer", "tools", "failed", "done"}
    /\ \A i \in DOMAIN messages : messages[i].role \in {"system", "user", "assistant", "tool"}
    /\ outcome \in {"none", "ok", "error"}

\* The adapters that leave out what the result of a tool message says, and the
\* ones that leave out messages of Role::System.
DropsOutput == {"windsurf", "glm", "chatgpt", "gemini", "antigravity"}
DropsSystem == {"anthropic", "codex", "gemini_cli", "antigravity"}

\* Whenever the model is asked, it is given everything that was said so far
\* and what each tool that was run for it came back with: no message is lost
\* between the transcript and the wire, in any round and after any retry.
ModelSeesTranscript ==
    pc = "answer" =>
        /\ adapter \notin DropsOutput \/ json => Outs(executed) \subseteq Received
        /\ adapter \notin DropsOutput =>
              \A i \in DOMAIN messages : Tokens(messages[i].result.output) \subseteq Received
        /\ \A i \in DOMAIN messages :
              \/ messages[i].role = "system" /\ adapter \in DropsSystem
              \/ Tokens(messages[i].text) \subseteq Received

\* Adapters whose wire names tool calls and results by id.
ById == {"openai_compat", "anthropic", "codex", "gemini_cli", "cursor", "windsurf", "kiro"}

CallsBefore(i) == UNION {Range(seen[j].calls) : j \in 1..(i - 1)}
AnswersIn(items) == UNION {{<<i, k>> : k \in DOMAIN items[i].answers} : i \in DOMAIN items}
AnswersTo(id) == {x \in AnswersIn(seen) : seen[x[1]].answers[x[2]].id = id}

HasResult(m) == m.result # NoResult

\* Messages whose results answer calls made before them, each call answered,
\* once, and a last message that answers one of the calls of a turn follows
\* that turn with the results of all of them: what WellFormed asks of callers,
\* whose messages the client does not check.
Paired(ms) ==
    /\ \A i \in DOMAIN ms : HasResult(ms[i]) => \E j \in 1..(i - 1) : ms[i].result.id \in Range(ms[j].calls)
    /\ \A i, j \in DOMAIN ms :
          HasResult(ms[i]) /\ HasResult(ms[j]) /\ ms[i].result.id = ms[j].result.id => i = j
    /\ \A i \in DOMAIN ms : \A id \in Range(ms[i].calls) :
          \E j \in DOMAIN ms : HasResult(ms[j]) /\ ms[j].result.id = id
    /\ \A i \in DOMAIN ms :
          Last(ms).role = "tool" /\ Last(ms).result.id \in Range(ms[i].calls) =>
             /\ \A j \in (i + 1)..Len(ms) : ms[j].role = "tool"
             /\ {ms[j].result.id : j \in (i + 1)..Len(ms)} = Range(ms[i].calls)

\* The history of kiro's request is of all messages but the last, its current
\* message has the results of all tool messages after the last assistant's: the
\* ones of a round but the last are in both.
SentTwice(id) ==
    /\ adapter = "kiro" /\ Last(messages).role = "tool"
    /\ \E i \in 1..(Len(messages) - 1) :
          messages[i].result.id = id /\ \A j \in i..Len(messages) : messages[j].role # "assistant"

\* A transcript as the upstreams take it: each answer follows the call it is
\* to, each call is answered, and answered once, but for the results that kiro
\* sends twice.  No two turns of the user follow each other in kiro's history,
\* and its current message answers all of the last calls.
WellFormed ==
    pc = "answer" /\ adapter \in ById =>
        /\ \A x \in AnswersIn(seen) : seen[x[1]].answers[x[2]].id \in CallsBefore(x[1])
        /\ \A id \in CallsBefore(Len(seen) + 1) :
              Cardinality(AnswersTo(id)) = IF SentTwice(id) THEN 2 ELSE 1
        /\ adapter = "kiro" =>
              /\ \A i \in 2..(Len(seen) - 1) : IsUser(seen[i]) => ~IsUser(seen[i - 1])
              /\ \A m \in Range(messages) :
                    Last(messages).role = "tool" /\ Last(messages).result.id \in Range(m.calls) =>
                       {a.id : a \in Range(Last(seen).answers)} = Range(m.calls)

\* No call is answered twice in one request (Turn_kiro.cfg).
ResultsSentOnce ==
    pc = "answer" /\ adapter \in ById =>
        \A id \in CallsBefore(Len(seen) + 1) : Cardinality(AnswersTo(id)) = 1

\* The adapter that sends tools and does not look for calls in the answer;
\* the JSON loop, which looks only at its text; and node's chatAsync, whose
\* promise resolves without the calls.
IgnoresCalls == json \/ adapter = "codex" \/ via = "node_async"

\* A call the model makes is run, or is in the response the caller gets: never
\* both, and none of them is dropped.
CallsHandled ==
    pc = "done" /\ outcome = "ok" /\ ~IgnoresCalls =>
        /\ returned = made
        /\ Range(executed) \cap Range(returned) = {}

\* A result that is posted goes to the conversation its call was made in, in
\* every round and after every retry, as long as the turn has its checkpoint.
ResultsPostedWhereAsked ==
    checkpoint # <<>> =>
        \A i \in DOMAIN posted :
            posted[i].result.id > BaseIds => <<posted[i].result.id, posted[i].to>> \in calledIn

\* "Whether a remote checkpoint must be created before chatting."
CheckpointBeforeChat ==
    pc = "answer" /\ adapter \in RequiresCheckpoint => checkpoint # <<>>

\* Every turn ends, however often the model asks for tools.
TurnEnds == <>(pc = "done")
=============================================================================
