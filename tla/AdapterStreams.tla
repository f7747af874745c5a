--------------------------- MODULE AdapterStreams ---------------------------
(***************************************************************************)
(* How the adapters of gravity-providers turn what an upstream sends into  *)
(* StreamEvents (gravity-core/src/stream.rs).                              *)
(*                                                                         *)
(* An upstream sends wire events [kind, v, all]: a "text" event carries    *)
(* its delta v and, for the protocols that send snapshots, the answer so   *)
(* far, all.  A tool call is announced ("tool"), its arguments follow in   *)
(* two fragments ("args"), "stop" ends its block.  "junk" is a payload     *)
(* that does not decode, "error" an error event, "done" the [DONE] marker. *)
(***************************************************************************)
EXTENDS Naturals, Sequences, SequencesExt

Streaming == {"claude", "anthropic", "openai_compat", "glm"}
Replaying == {"chatgpt", "gemini", "kiro", "perplexity"}
DoneOnly  == {"codex", "cursor", "windsurf", "gemini_cli", "antigravity"}
AllAdapters == Streaming \cup Replaying \cup DoneOnly

\* The protocols that can carry a tool call in a response.
CallsTools == {"claude", "anthropic", "openai_compat", "kiro", "perplexity",
               "cursor", "windsurf", "gemini_cli"}

Blank == " "

\* The two fragments of a call's arguments, which parse only together.
FullArgs == <<"{", "}">>

\* serde_json::from_str(..).unwrap_or_default()
Parsed(fragments) == IF fragments = FullArgs THEN "args" ELSE "empty"

\* StreamEvents, and what an adapter keeps while it reads a stream.
Nothing     == [ev |-> "nothing"]
TextDelta(v) == [ev |-> "delta", text |-> v]
DoneEvent(resp) == [ev |-> "done", resp |-> resp]
Failed      == [ev |-> "error"]
NewAcc      == [text |-> <<>>, pending |-> <<>>, open |-> FALSE, calls |-> <<>>]

\* str::trim
Trimmed(s) ==
    LET ink == {i \in DOMAIN s : s[i] # Blank}
    IN IF ink = {} THEN <<>>
       ELSE SubSeq(s, CHOOSE i \in ink : \A j \in ink : i <= j,
                      CHOOSE i \in ink : \A j \in ink : i >= j)

Say(acc, v) == [acc EXCEPT !.text = @ \o v]
Same(acc) == [acc |-> acc, out |-> Nothing]
Raise(acc) == [acc |-> acc, out |-> Failed]

\* ClaudeToolCall::arguments of a call whose input came in fragments.
arguments(call) == Parsed(call)

\* Accumulator::push: the call is in the list from its start, fragments are
\* added to the call that has their id.
push(acc, e) ==
    CASE e.kind = "text" ->
           [acc |-> Say(acc, e.v), out |-> IF e.v = <<>> THEN Nothing ELSE TextDelta(e.v)]
      [] e.kind = "tool" -> Same([acc EXCEPT !.calls = Append(@, <<>>)])
      [] e.kind = "args" -> Same([acc EXCEPT !.calls[Len(acc.calls)] = Append(@, e.v)])
      [] OTHER -> Same(acc)

\* One SSE event of chat_stream of claude/mod.rs.
ClaudeStream(acc, e) ==
    CASE e.kind = "done" -> Same(acc)
      [] e.kind \in {"junk", "error"} -> Raise(acc)
      [] OTHER -> push(acc, e)

\* parse_sse_data_line and the loop of complete_buffered: a line that is not
\* JSON is tolerated.
ClaudeBuffered(acc, e) ==
    CASE e.kind \in {"junk", "done"} -> Same(acc)
      [] e.kind = "error" -> Raise(acc)
      [] OTHER -> push(acc, e)

\* build_response_with_model
ClaudeResponse(acc) ==
    [text |-> acc.text, calls |-> [i \in DOMAIN acc.calls |-> arguments(acc.calls[i])]]

AnthropicStream_NoStop(acc, e) ==
    CASE e.kind = "text" -> [acc |-> Say(acc, e.v), out |-> TextDelta(e.v)]
      [] e.kind = "tool" -> Same([acc EXCEPT !.pending = <<>>, !.open = TRUE])
      [] e.kind = "args" /\ acc.open -> Same([acc EXCEPT !.pending = Append(@, e.v)])
      [] e.kind = "error" -> Raise(acc)
      [] OTHER -> Same(acc)

AnthropicStream_TextNotKept(acc, e) ==
    CASE e.kind = "text" -> [acc |-> acc, out |-> TextDelta(e.v)]
      [] e.kind = "tool" -> Same([acc EXCEPT !.pending = <<>>, !.open = TRUE])
      [] e.kind = "args" /\ acc.open -> Same([acc EXCEPT !.pending = Append(@, e.v)])
      [] e.kind = "stop" /\ acc.open ->
           Same([acc EXCEPT !.calls = Append(@, Parsed(acc.pending)), !.open = FALSE])
      [] e.kind = "error" -> Raise(acc)
      [] OTHER -> Same(acc)

\* One event of chat_stream of anthropic/mod.rs: a call is pending from its
\* start, and joins the list when its block stops.
AnthropicStream(acc, e) ==
    CASE e.kind = "text" -> [acc |-> Say(acc, e.v), out |-> TextDelta(e.v)]
      [] e.kind = "tool" -> Same([acc EXCEPT !.pending = <<>>, !.open = TRUE])
      [] e.kind = "args" /\ acc.open -> Same([acc EXCEPT !.pending = Append(@, e.v)])
      [] e.kind = "stop" /\ acc.open ->
           Same([acc EXCEPT !.calls = Append(@, Parsed(acc.pending)), !.open = FALSE])
      [] e.kind = "error" -> Raise(acc)
      [] OTHER -> Same(acc)

\* One event of chat_stream of openai_compat/provider.rs, [DONE] apart: only
\* the content of the first choice's delta is looked at.
OpenaiStream(acc, e) ==
    IF e.kind = "text" /\ e.v # <<>>
    THEN [acc |-> Say(acc, e.v), out |-> TextDelta(e.v)]
    ELSE Same(acc)

GlmChunk_SwallowsError(acc, e) ==
    IF e.kind = "text" THEN [acc |-> Say(acc, e.v), out |-> TextDelta(e.v)] ELSE Same(acc)

\* parse_chunk of glm/provider.rs
GlmChunk(acc, e) ==
    CASE e.kind = "text" -> [acc |-> Say(acc, e.v), out |-> TextDelta(e.v)]
      [] e.kind = "error" -> Raise(acc)
      [] OTHER -> Same(acc)

\* The body of the loop of chat_stream.
StreamStep(adapter, acc, e) ==
    CASE adapter = "claude" -> ClaudeStream(acc, e)
      [] adapter = "anthropic" -> AnthropicStream(acc, e)
      [] adapter = "openai_compat" -> OpenaiStream(acc, e)
      [] adapter = "glm" -> GlmChunk(acc, e)

\* Which of them break out of the loop at [DONE].
BreaksAtDone == {"openai_compat", "glm"}

\* The ChatResponse of the final Done.
StreamedResponse(adapter, acc) ==
    CASE adapter = "claude" -> ClaudeResponse(acc)
      [] adapter = "glm" -> [text |-> Trimmed(acc.text), calls |-> <<>>]
      [] OTHER -> [text |-> acc.text, calls |-> acc.calls]
-----------------------------------------------------------------------------
(* The buffering adapters: chat folds the whole body. *)

AsDone(text, calls) == [ev |-> "done", resp |-> [text |-> text, calls |-> calls]]

\* The wire events up to the first [DONE].
UpToDone(wire) ==
    LET done == {i \in DOMAIN wire : wire[i].kind = "done"}
    IN IF done = {} THEN wire
       ELSE SubSeq(wire, 1, (CHOOSE i \in done : \A j \in done : i <= j) - 1)

\* Event by event, until one raises an error.
Fold(Step(_, _), wire) ==
    LET after[n \in 0..Len(wire)] ==
            IF n = 0 THEN Same(NewAcc)
            ELSE IF after[n - 1].out = Failed THEN after[n - 1]
            ELSE Step(after[n - 1].acc, wire[n])
    IN after[Len(wire)]

OfKind(wire, k) == {i \in DOMAIN wire : wire[i].kind = k}
Kinds(wire) == {wire[i].kind : i \in DOMAIN wire}

\* Texts, one after the other.
Flat(texts) ==
    LET upto[n \in 0..Len(texts)] == IF n = 0 THEN <<>> ELSE upto[n - 1] \o texts[n]
    IN upto[Len(texts)]

\* Concatenated deltas, and the last snapshot that is not empty.
Deltas(wire) == Flat([i \in DOMAIN wire |-> IF wire[i].kind = "text" THEN wire[i].v ELSE <<>>])
LastSnapshot(wire) ==
    LET some == {i \in OfKind(wire, "text") : wire[i].all # <<>>}
    IN IF some = {} THEN <<>> ELSE wire[CHOOSE i \in some : \A j \in some : i >= j].all

\* A protocol that sends a call in one piece sends it once its block is
\* complete.
WholeCalls(wire) == [i \in 1..Cardinality(OfKind(wire, "stop")) |-> "args"]

\* accumulate_sse of chatgpt/provider.rs: the last text that is not empty.
accumulate_sse(wire) == IF "error" \in Kinds(wire) THEN Failed ELSE AsDone(LastSnapshot(wire), <<>>)

ChatgptChat(wire) == accumulate_sse(UpToDone(wire))

\* parse_parts of gemini/parser.rs: every frame with a candidate has its rcid.
parse_parts(wire) == [text |-> LastSnapshot(wire), rcid |-> "text" \in Kinds(wire)]

\* chat of gemini/provider.rs: "gemini_empty_response"
GeminiChat(wire) ==
    LET parsed == parse_parts(wire)
    IN IF parsed.text = <<>> /\ ~parsed.rcid THEN Failed ELSE AsDone(parsed.text, <<>>)

\* chat of kiro/provider.rs: ToolUse makes a call of the input it came with;
\* the fragments that follow (ToolUseInput) fall under `_ => {}`.
KiroChat(wire) ==
    AsDone(Deltas(wire),
           [i \in 1..Cardinality(OfKind(wire, "tool")) |-> Parsed(<<>>)])

\* parse_sse_response of perplexity/mod.rs: its answers are snapshots.
parse_sse_response(wire) == [answer |-> LastSnapshot(wire), tool_calls |-> WholeCalls(wire)]

\* chat of perplexity/mod.rs: tool calls leave no text.
PerplexityChat(wire) ==
    LET parsed == parse_sse_response(wire)
    IN IF parsed.tool_calls # <<>> THEN AsDone(<<>>, parsed.tool_calls)
       ELSE AsDone(parsed.answer, <<>>)

\* accumulate_responses_sse of codex/mod.rs
accumulate_responses_sse(wire) == Deltas(UpToDone(wire))
CodexChat(wire) == AsDone(accumulate_responses_sse(wire), <<>>)

\* parse_inference_frame of cursor/mod.rs over all frames: text and whole calls.
parse_inference_frame(wire) == [text |-> Deltas(wire), calls |-> WholeCalls(wire),
                                error |-> "error" \in Kinds(wire)]

\* chat of cursor/mod.rs
CursorChat(wire) ==
    LET events == parse_inference_frame(wire)
    IN IF events.error THEN Failed ELSE AsDone(events.text, events.calls)

\* chat of windsurf/mod.rs: fields 3 and 6 of each frame.
WindsurfChat(wire) == AsDone(Deltas(wire), WholeCalls(wire))

\* extract_tool_calls and chat of gemini_cli/mod.rs: one JSON document.
extract_tool_calls(wire) == WholeCalls(wire)
GeminiCliChat(wire) == AsDone(Deltas(wire), extract_tool_calls(wire))

\* chat of antigravity/mod.rs: its text parts.
AntigravityChat(wire) == AsDone(Deltas(wire), <<>>)

\* chat of claude/mod.rs
ClaudeChat(wire) ==
    LET r == Fold(ClaudeBuffered, wire)
    IN IF r.out = Failed THEN Failed ELSE DoneEvent(ClaudeResponse(r.acc))

\* chat of glm/provider.rs: the stream, buffered.
GlmChat(wire) ==
    LET r == Fold(GlmChunk, UpToDone(wire))
    IN IF r.out = Failed THEN Failed ELSE AsDone(Trimmed(r.acc.text), <<>>)

\* to_chat_response of anthropic/wire.rs: the text and tool_use blocks.
to_chat_response(wire) == AsDone(Deltas(wire), WholeCalls(wire))

\* chat of anthropic/mod.rs: one JSON document.
AnthropicChat(wire) == IF "error" \in Kinds(wire) THEN Failed ELSE to_chat_response(wire)

\* response_to_chat of openai_compat/provider.rs: the first choice's content
\* and tool calls.
response_to_chat(wire) == AsDone(Deltas(wire), WholeCalls(wire))

\* chat of openai_compat/provider.rs: one JSON document.
OpenaiChat(wire) == IF "error" \in Kinds(wire) THEN Failed ELSE response_to_chat(UpToDone(wire))

\* provider.chat over the answer that `wire` spells out.
ChatOf(adapter, wire) ==
    CASE adapter = "claude" -> ClaudeChat(wire)
      [] adapter = "anthropic" -> AnthropicChat(wire)
      [] adapter = "openai_compat" -> OpenaiChat(wire)
      [] adapter = "glm" -> GlmChat(wire)
      [] adapter = "chatgpt" -> ChatgptChat(wire)
      [] adapter = "gemini" -> GeminiChat(wire)
      [] adapter = "kiro" -> KiroChat(wire)
      [] adapter = "perplexity" -> PerplexityChat(wire)
      [] adapter = "codex" -> CodexChat(wire)
      [] adapter = "cursor" -> CursorChat(wire)
      [] adapter = "windsurf" -> WindsurfChat(wire)
      [] adapter = "gemini_cli" -> GeminiCliChat(wire)
      [] adapter = "antigravity" -> AntigravityChat(wire)

\* chat_stream of the adapters that do not stream: one delta with the whole
\* text, if there is any, and Done; or, by Provider's default, only Done.
Replay(adapter, done) ==
    IF adapter \in Replaying /\ done.resp.text # <<>>
    THEN <<TextDelta(done.resp.text), done>>
    ELSE <<done>>
=============================================================================
