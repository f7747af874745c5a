------------------------------- MODULE Bindings -------------------------------
(***************************************************************************)
(* What a chat call of gravity-ffi, gravity-pyo3, gravity-node, gravity-   *)
(* server or gravity-cli makes of what its caller passes, and of the       *)
(* ChatResponse it gets.  A call is its messages, its system prompt and    *)
(* whether it comes with tools; all of them run chat_over of one transient *)
(* account, on a client without tool handlers.                             *)
(***************************************************************************)
EXTENDS AdapterRequests

Bindings == {"ffi", "pyo3", "node", "node_async", "server", "cli"}

Call(messages, sys, tools) == [messages |-> messages, sys |-> sys, tools |-> tools]

\* Of a message of the caller, role and content: its tool calls and its tool
\* result are not read.
Bare(m) == Message(m.role, m.text, <<>>, NoResult)
parse_messages(ms) == [i \in DOMAIN ms |-> Bare(ms[i])]

\* parse_chat_request (gravity-ffi), build_request_py (gravity-pyo3) and
\* build_request_node (gravity-node).
parse_chat_request(c) == [c EXCEPT !.messages = parse_messages(@)]
build_request_py(c) == [c EXCEPT !.messages = parse_messages(@)]
build_request_node(c) == [c EXCEPT !.messages = parse_messages(@)]

\* prepare (gravity-server): the tools of the body are not read either.
prepare(c) == [c EXCEPT !.messages = parse_messages(@), !.tools = FALSE]

\* chat of gravity-cli: one prompt.
CliChat(c) == [c EXCEPT !.messages = <<user(@[1].text)>>, !.tools = FALSE]

Entered(via, c) ==
    CASE via = "ffi" -> parse_chat_request(c)
      [] via = "pyo3" -> build_request_py(c)
      [] via \in {"node", "node_async"} -> build_request_node(c)
      [] via = "server" -> prepare(c)
      [] via = "cli" -> CliChat(c)
      [] OTHER -> c

\* validate of request.rs over validate of message.rs.
validate(m) == m.role = "tool" => m.result # NoResult
Valid(c) == \A i \in DOMAIN c.messages : validate(c.messages[i])

\* The bindings whose answer has the tool calls of the response.
response_to_json(calls) == calls
Pyo3Response(calls) == calls
resp_to_node(calls) == calls

\* .. and the ones whose answer leaves them out: the JSON of the server, the
\* object the promise of chatAsync resolves to, the text the CLI prints.
openai_completion(calls) == <<>>
NodeResolve(calls) == <<>>
Handed(via, calls) ==
    CASE via = "ffi" -> response_to_json(calls)
      [] via = "pyo3" -> Pyo3Response(calls)
      [] via = "node" -> resp_to_node(calls)
      [] via = "node_async" -> NodeResolve(resp_to_node(calls))
      [] via = "server" -> openai_completion(calls)
      [] via = "cli" -> <<>>
      [] OTHER -> calls
=============================================================================
