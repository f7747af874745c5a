--------------------------- MODULE AdapterRequests ---------------------------
(***************************************************************************)
(* How the adapters of gravity-providers turn the messages of a request    *)
(* into what the upstream is sent.                                         *)
(*                                                                         *)
(* A text is a sequence of tokens: <<"say", k>> is something a person or a *)
(* model said, <<"out", id>> the output of the tool call id.  A message    *)
(* carries a text, the tool calls of an assistant, and for Role::Tool a    *)
(* result.  What goes over the wire is a sequence of items of the same     *)
(* shape: as (the role there), text, calls, and answers, the tool results  *)
(* given under the id of their call.                                       *)
(***************************************************************************)
EXTENDS AdapterStreams, FiniteSets

NoResult == [id |-> 0, output |-> <<>>]
Result(id) == [id |-> id, output |-> <<<<"out", id>>>>]
Message(role, text, calls, result) == [role |-> role, text |-> text, calls |-> calls, result |-> result]

\* The constructors of gravity-core/src/message.rs.
user(text) == Message("user", text, <<>>, NoResult)
assistant(text) == Message("assistant", text, <<>>, NoResult)
system(text) == Message("system", text, <<>>, NoResult)
assistant_with_tools(text, calls) == Message("assistant", text, calls, NoResult)
tool_result(id) == Message("tool", <<>>, <<>>, Result(id))

Tokens(text) == {text[i] : i \in DOMAIN text}
Token == {"say", "out", "sys", "tools"} \X Nat

\* The messages of these about calls of ids, and tool messages that have no
\* result, which validate refuses.
MessageType(ids) ==
    {m \in [role : {"system", "user", "assistant", "tool"}, text : Seq(Token), calls : Seq(ids),
            result : {NoResult} \cup {Result(id) : id \in ids}] :
        /\ m.calls # <<>> => m.role = "assistant"
        /\ m.result # NoResult => m.role = "tool" /\ m.text = <<>>}

Item(as, text, calls, answers) == [as |-> as, text |-> text, calls |-> calls, answers |-> answers]
Plain(as, text) == Item(as, text, <<>>, <<>>)
Prompt(text) == <<Plain("user", text)>>
Answers(m) == IF m.result = NoResult THEN <<>> ELSE <<m.result>>

\* The items Wire(m) of every message, one after the other.
Each(ms, Wire(_)) == Flat([i \in DOMAIN ms |-> Wire(ms[i])])
Texts(ms, Text(_)) == Flat([i \in DOMAIN ms |-> Text(ms[i])])

\* A system prompt that goes in front, or in a field of its own.
Leading(sys) == IF sys = <<>> THEN <<>> ELSE <<Plain("system", sys)>>

\* to_oai_message and build_request of openai_compat/wire.rs.
to_oai_message(m) == <<Item(m.role, m.text, m.calls, Answers(m))>>
OpenaiRequest(ms, sys) == Leading(sys) \o Each(ms, to_oai_message)

\* build_messages of anthropic/wire.rs: Role::System is left out, a result
\* becomes a turn of the user.
build_messages(m) ==
    IF m.role = "system" THEN <<>>
    ELSE <<Item(IF m.role = "tool" THEN "user" ELSE m.role, m.text, m.calls, Answers(m))>>
AnthropicRequest(ms, sys) == Leading(sys) \o Each(ms, build_messages)

\* build_input and build_request of codex/mod.rs: calls and results are items
\* next to the messages.
build_input(m) ==
    CASE m.role = "system" -> <<>>
      [] m.role = "assistant" ->
           <<Plain("assistant", m.text)>>
             \o [i \in DOMAIN m.calls |-> Item("function_call", <<>>, <<m.calls[i]>>, <<>>)]
      [] m.role = "user" -> <<Plain("user", m.text)>>
      [] OTHER -> <<Item("function_call_output", <<>>, <<>>, Answers(m))>>
CodexRequest(ms, sys) == Leading(sys) \o Each(ms, build_input)

\* build_contents and build_request of gemini_cli/mod.rs.
GeminiCliContents(m) ==
    IF m.role = "system" \/ (m.text = <<>> /\ m.calls = <<>> /\ m.result = NoResult) THEN <<>>
    ELSE <<Item(IF m.role = "assistant" THEN "model" ELSE "user", m.text, m.calls, Answers(m))>>
GeminiCliRequest(ms, sys) == Leading(sys) \o Each(ms, GeminiCliContents)

\* build_contents and build_request of antigravity/mod.rs: only texts.
AntigravityContents(m) ==
    IF m.role = "system" \/ m.text = <<>> THEN <<>>
    ELSE <<Plain(IF m.role = "assistant" THEN "model" ELSE "user", m.text)>>
AntigravityRequest(ms, sys) == Leading(sys) \o Each(ms, AntigravityContents)

\* build_inference_request of cursor/mod.rs.
CursorMessage(m) ==
    <<Item(m.role, IF m.role = "tool" THEN <<>> ELSE m.text,
           IF m.role = "assistant" THEN m.calls ELSE <<>>,
           IF m.role = "tool" THEN Answers(m) ELSE <<>>)>>
build_inference_request(ms, sys) == Leading(sys) \o Each(ms, CursorMessage)

\* build_envelope of windsurf/mod.rs: of a result only the id goes along.
WindsurfMessage(m) ==
    <<Item(m.role, m.text, m.calls,
           IF m.result = NoResult THEN <<>> ELSE <<[m.result EXCEPT !.output = <<>>]>>)>>
build_envelope(ms, sys) == Leading(sys) \o Each(ms, WindsurfMessage)

\* build_body of glm/build.rs: role and text of each message, no prompt.
GlmMessage(m) == <<Plain(m.role, m.text)>>
build_body(ms) == Each(ms, GlmMessage)

\* conversation_body of chatgpt/provider.rs: m.text() of each message.
ChatgptMessage(m) == <<Plain(m.role, m.text)>>
conversation_body(ms) == Each(ms, ChatgptMessage)

\* build_prompt of gemini/provider.rs: one text.
build_prompt(ms, sys) == Prompt(sys \o Texts(ms, LAMBDA m : m.text))

\* message_to_text of claude/mod.rs and message_text of perplexity/mod.rs:
\* without content, the result.
message_to_text(m) == IF m.result = NoResult THEN m.text ELSE m.result.output

\* build_query, render_history and ask_payload of perplexity/mod.rs.
render_history(ms) == Texts(ms, message_to_text)
build_query(ms) == Prompt(IF Len(ms) > 1 THEN render_history(ms) ELSE message_to_text(Last(ms)))

\* latest_prompt of claude/mod.rs: the whole transcript while the remote
\* conversation has no parent message, then the latest message.
render_transcript(ms) == Texts(ms, message_to_text)
latest_prompt_OnlyLast(ms, parent) == message_to_text(Last(ms))
latest_prompt(ms, parent) ==
    IF ~parent /\ Len(ms) > 1 THEN render_transcript(ms) ELSE message_to_text(Last(ms))

\* completion_body of claude/mod.rs; the client never fills in a parent.
completion_body(ms, sys, parent) == Leading(sys) \o Prompt(latest_prompt(ms, parent))
-----------------------------------------------------------------------------
(* kiro/build.rs *)

IsUser(item) == item.as = "user"

\* push_continue_if_user, and the item.
PushUser(history, item) ==
    IF history # <<>> /\ IsUser(Last(history))
    THEN history \o <<Plain("assistant", <<>>), item>>
    ELSE Append(history, item)

\* merge_assistant
merge_assistant(prev, m) == [prev EXCEPT !.text = @ \o m.text, !.calls = @ \o m.calls]

\* A turn of the assistant: an empty one is left out, and two in a row are one.
PushAssistant(history, m) ==
    IF m.text = <<>> /\ m.calls = <<>> THEN history
    ELSE IF history # <<>> /\ ~IsUser(Last(history))
         THEN Append(Front(history), merge_assistant(Last(history), m))
         ELSE Append(history, Item("assistant", m.text, m.calls, <<>>))

Pushed(history, m) ==
    CASE m.role = "assistant" -> PushAssistant(history, m)
      [] m.role = "tool" -> PushUser(history, Item("user", <<>>, <<>>, Answers(m)))
      [] OTHER -> PushUser(history, Plain("user", m.text))

\* build_history: everything but the last message.
build_history(ms) ==
    LET upto[n \in 0..(Len(ms) - 1)] == IF n = 0 THEN <<>> ELSE Pushed(upto[n - 1], ms[n])
    IN upto[Len(ms) - 1]

\* inject_system_prompt: in front of the first text of the user.
inject_system_prompt(history, sys) ==
    LET users == {i \in DOMAIN history : IsUser(history[i])}
        first == CHOOSE i \in users : \A j \in users : i <= j
    IN CASE sys = <<>> -> history
         [] sys # <<>> /\ users = {} -> <<Plain("user", sys)>> \o history
         [] OTHER -> [history EXCEPT ![first].text = sys \o @]

TrailingResults_LastOnly(ms) == Answers(Last(ms))

\* "Collect trailing tool results after the last assistant turn."
TrailingResults(ms) ==
    LET turns == {i \in DOMAIN ms : ms[i].role = "assistant"}
        start == IF turns = {} THEN 1 ELSE 1 + CHOOSE i \in turns : \A j \in turns : i >= j
    IN IF Last(ms).role # "tool" THEN <<>>
       ELSE Texts(SubSeq(ms, start, Len(ms)), Answers)

\* build_request
KiroRequest(ms, sys) ==
    Append(inject_system_prompt(build_history(ms), sys),
           Item("user", Last(ms).text, <<>>, TrailingResults(ms)))
-----------------------------------------------------------------------------
\* What the upstream is sent for a chat; claude's parent is never known.
WireOf(adapter, ms, sys) ==
    CASE adapter = "openai_compat" -> OpenaiRequest(ms, sys)
      [] adapter = "anthropic" -> AnthropicRequest(ms, sys)
      [] adapter = "codex" -> CodexRequest(ms, sys)
      [] adapter = "gemini_cli" -> GeminiCliRequest(ms, sys)
      [] adapter = "antigravity" -> AntigravityRequest(ms, sys)
      [] adapter = "cursor" -> build_inference_request(ms, sys)
      [] adapter = "windsurf" -> build_envelope(ms, sys)
      [] adapter = "glm" -> build_body(ms)
      [] adapter = "chatgpt" -> conversation_body(ms)
      [] adapter = "gemini" -> build_prompt(ms, sys)
      [] adapter = "perplexity" -> build_query(ms)
      [] adapter = "claude" -> completion_body(ms, sys, FALSE)
      [] adapter = "kiro" -> KiroRequest(ms, sys)

\* Adapters whose request carries the definitions of the tools.
Advertises == {"openai_compat", "anthropic", "codex", "gemini_cli", "cursor",
               "windsurf", "claude", "kiro"}

\* capabilities(): the adapters whose tool_support is JsonEmulated; of the catalogue of
\* openai_compat, some are.
JsonEmulated == {"chatgpt", "gemini", "perplexity"}

TokensOf(items) ==
    UNION {Tokens(items[i].text) \cup UNION {Tokens(items[i].answers[k].output) : k \in DOMAIN items[i].answers}
             : i \in DOMAIN items}
=============================================================================
