------------------------------- MODULE Streams -------------------------------
(***************************************************************************)
(* One streamed chat from the upstream to the caller of a binding:         *)
(* AsyncGravityClient::chat_stream_over (gravity-client/src/client.rs),    *)
(* the adapter's event stream (AdapterStreams), and the loop each binding  *)
(* drives over it: gravity-ffi (callback and pull), gravity-pyo3,          *)
(* gravity-node, gravity-server and GravityClient::chat_stream_chunks,     *)
(* which gravity-cli prints.                                               *)
(***************************************************************************)
EXTENDS Naturals, AdapterStreams

CONSTANTS Adapters,    \* the adapters a chat may use
          Bindings,    \* the bindings a caller may use
          Payloads,    \* texts one delta may carry
          MaxEvents    \* bound on the wire events of an answer

Chars == UNION {{p[i] : i \in DOMAIN p} : p \in Payloads}

ASSUME StreamsAssumption ==
    /\ Adapters \subseteq AllAdapters
    /\ Payloads \subseteq Seq(Chars)
    /\ Bindings \subseteq {"callback", "pull", "pyo3", "node", "server", "chunks"}
    /\ MaxEvents \in Nat

VARIABLES adapter, binding,
          conn,      \* the response body: "open", "eof" or "reset"
          sent,      \* the wire events the upstream has sent
          block,     \* its open tool call: fragments sent, or NoBlock
          read,      \* how many of them the adapter has read
          acc,       \* what the adapter has accumulated
          replay,    \* events a buffered adapter still has to yield
          task,      \* the loop over the stream: opening, polling, ended
          emitted,   \* whether a delta has been handed on
          chan,      \* items on their way to the caller
          got,       \* texts the caller has
          caller     \* reading, finished, failed or closed

up   == <<conn, sent, block>>
vars == <<adapter, binding, conn, sent, block, read, acc, replay, task,
          emitted, chan, got, caller>>

NoBlock == <<"none">>

\* Items of a channel: a text, an error, or the end of the stream.
Item(v) == [item |-> "text", text |-> v]
ErrItem == [item |-> "error"]
EndItem == [item |-> "end"]

Init == /\ adapter \in Adapters /\ binding \in Bindings
        /\ conn = "open" /\ sent = <<>> /\ block = NoBlock
        /\ read = 0 /\ acc = NewAcc /\ replay = <<>>
        /\ task = "opening" /\ emitted = FALSE
        /\ chan = <<>> /\ got = <<>> /\ caller = "reading"

Said == Deltas(sent)
Finished == \E i \in DOMAIN sent : sent[i].kind = "done"

\* What may come next on the wire, but for an error: a call's fragments in
\* their order, text outside a call, nothing after [DONE].
Wired(k, v) == [kind |-> k, v |-> v, all |-> IF k = "text" THEN Said \o v ELSE Said]
WireEvents ==
    IF block # NoBlock
    THEN IF block = FullArgs THEN {Wired("stop", <<>>)} ELSE {Wired("args", FullArgs[Len(block) + 1])}
    ELSE {Wired("text", v) : v \in Payloads} \cup {Wired("junk", <<>>), Wired("done", <<>>)}
           \cup {Wired("tool", <<>>) : c \in {adapter} \cap CallsTools}

\* The upstream sends its next event.
Send(e) ==
    /\ conn = "open" /\ Len(sent) < MaxEvents
    /\ "error" \notin Kinds(sent) /\ ~Finished
    /\ sent' = Append(sent, e)
    /\ block' = CASE e.kind = "tool" -> <<>>
                  [] e.kind = "args" -> Append(block, e.v)
                  [] OTHER -> NoBlock
    /\ UNCHANGED <<adapter, binding, conn, read, acc, replay, task, emitted, chan, got, caller>>

\* The body ends, or the connection fails or runs into the request's timeout;
\* either may happen anywhere, within a call too.
Close ==
    /\ conn = "open"
    /\ conn' \in {"eof", "reset"}
    /\ UNCHANGED <<adapter, binding, sent, block, read, acc, replay, task, emitted, chan, got, caller>>
-----------------------------------------------------------------------------
(* The bindings: what each does with an event of the stream.  A step of a  *)
(* binding sets task, emitted, chan, got and caller.                       *)

Direct == {"callback", "chunks"}     \* block until the stream has ended
Spawned == {"pull", "pyo3", "node"}  \* a task fills a channel

Emit(v) == chan' = Append(chan, Item(v))
Push(items) == chan' = chan \o items
Receiver == caller # "closed"

\* Blocking callers return: the caller gets the outcome at once.
Finish(outcome) == task' = "ended" /\ caller' = outcome

CallbackOn_NoFallback(x) ==
    /\ UNCHANGED chan
    /\ CASE x.ev = "delta" ->
              emitted' = TRUE /\ got' = Append(got, x.text) /\ UNCHANGED <<task, caller>>
         [] x.ev = "done" -> Finish("finished") /\ UNCHANGED <<emitted, got>>
         [] x.ev = "error" -> Finish("failed") /\ UNCHANGED <<emitted, got>>

\* gravity_chat_stream: a callback per delta, 0 or -1 at the end.
CallbackOn(x) ==
    /\ UNCHANGED chan
    /\ CASE x.ev = "delta" ->
              emitted' = TRUE /\ got' = Append(got, x.text) /\ UNCHANGED <<task, caller>>
         [] x.ev = "done" ->
              /\ got' = IF emitted THEN got ELSE Append(got, x.resp.text)
              /\ Finish("finished") /\ UNCHANGED emitted
         [] x.ev = "error" -> Finish("failed") /\ UNCHANGED <<emitted, got>>

\* GravityClient::chat_stream_chunks: the chunks, or the error without them.
ChunksOn(x) ==
    /\ UNCHANGED <<chan, emitted>>
    /\ CASE x.ev = "delta" ->
              /\ got' = IF x.text = <<>> THEN got ELSE Append(got, x.text)
              /\ UNCHANGED <<task, caller>>
         [] x.ev = "done" ->
              /\ got' = IF x.resp.text # <<>> /\ got = <<>> THEN <<x.resp.text>> ELSE got
              /\ Finish("finished")
         [] x.ev = "error" -> Finish("failed") /\ got' = <<>>

\* gravity_stream_open: the loop runs on after Done to the end of the stream;
\* a send that fails after the handle is closed ends it.
PullOn(x) ==
    /\ UNCHANGED <<got, caller>>
    /\ CASE x.ev = "delta" ->
              /\ emitted' = TRUE
              /\ IF Receiver THEN Emit(x.text) /\ UNCHANGED task ELSE task' = "ended" /\ UNCHANGED chan
         [] x.ev = "done" ->
              /\ Push(IF ~Receiver THEN <<>>
                      ELSE IF emitted THEN <<EndItem>> ELSE <<Item(x.resp.text), EndItem>>)
              /\ task' = "ended" /\ UNCHANGED emitted
         [] x.ev = "error" ->
              /\ Push(IF Receiver THEN <<ErrItem, EndItem>> ELSE <<>>)
              /\ task' = "ended" /\ UNCHANGED emitted

\* chat_stream of gravity-pyo3: empty deltas are skipped, the text of Done is
\* sent whenever it is not empty.
Pyo3On(x) ==
    /\ UNCHANGED <<got, caller, emitted>>
    /\ CASE x.ev = "delta" ->
              IF x.text = <<>> THEN UNCHANGED <<chan, task>>
              ELSE IF Receiver THEN Emit(x.text) /\ UNCHANGED task
              ELSE task' = "ended" /\ UNCHANGED chan
         [] x.ev = "done" ->
              /\ Push(IF ~Receiver THEN <<>>
                      ELSE IF x.resp.text = <<>> THEN <<EndItem>>
                      ELSE <<Item(x.resp.text), EndItem>>)
              /\ task' = "ended"
         [] x.ev = "error" ->
              Push(IF Receiver THEN <<ErrItem, EndItem>> ELSE <<>>) /\ task' = "ended"

\* chat_stream of gravity-node: calls queued on the JavaScript thread; an
\* error only breaks the loop, and callback(null, null) follows in any case.
NodeOn(x) ==
    /\ UNCHANGED <<got, caller, emitted>>
    /\ CASE x.ev = "delta" ->
              UNCHANGED task /\ IF x.text = <<>> THEN UNCHANGED chan ELSE Emit(x.text)
         [] x.ev = "done" ->
              /\ Push(IF x.resp.text = <<>> THEN <<EndItem>> ELSE <<Item(x.resp.text), EndItem>>)
              /\ task' = "ended"
         [] x.ev = "error" -> Push(<<EndItem>>) /\ task' = "ended"

ServerOn_DoneSaysAgain(x) ==
    /\ UNCHANGED <<got, caller>>
    /\ CASE x.ev = "delta" -> emitted' = TRUE /\ Emit(x.text) /\ UNCHANGED task
         [] x.ev = "done" -> Push(<<Item(x.resp.text), EndItem>>) /\ task' = "ended" /\ UNCHANGED emitted
         [] x.ev = "error" -> Push(<<ErrItem, EndItem>>) /\ task' = "ended" /\ UNCHANGED emitted

\* stream_response of gravity-server: SSE chunks; the body ends after Done,
\* with a [DONE] of its own only if deltas went before.
ServerOn(x) ==
    /\ UNCHANGED <<got, caller>>
    /\ CASE x.ev = "delta" -> emitted' = TRUE /\ Emit(x.text) /\ UNCHANGED task
         [] x.ev = "done" ->
              /\ Push(IF emitted THEN <<EndItem>> ELSE <<Item(x.resp.text), EndItem>>)
              /\ task' = "ended" /\ UNCHANGED emitted
         [] x.ev = "error" -> Push(<<ErrItem, EndItem>>) /\ task' = "ended" /\ UNCHANGED emitted

On(x) ==
    \/ binding = "callback" /\ CallbackOn(x)
    \/ binding = "chunks" /\ ChunksOn(x)
    \/ binding = "pull" /\ PullOn(x)
    \/ binding = "pyo3" /\ Pyo3On(x)
    \/ binding = "node" /\ NodeOn(x)
    \/ binding = "server" /\ ServerOn(x)

\* No event, or none that the loop would see: `_ => {}`.
Handle(x) == IF x = Nothing THEN UNCHANGED <<task, emitted, chan, got, caller>> ELSE On(x)
-----------------------------------------------------------------------------
\* chat_stream_over fails before there is a stream: an invalid request, a
\* provider that is not registered, a checkpoint or a status that is no 200.
OpenFails ==
    /\ task = "opening" /\ sent = <<>>
    /\ On(Failed)
    /\ UNCHANGED <<adapter, binding, up, read, acc, replay>>

\* A streaming adapter has the head of the response: Ok(stream).
OpenStream ==
    /\ task = "opening" /\ adapter \in Streaming
    /\ task' = "polling"
    /\ UNCHANGED <<adapter, binding, up, read, acc, replay, emitted, chan, got, caller>>

\* A buffering adapter waits for the body and folds all of it.
OpenBuffered ==
    /\ task = "opening" /\ adapter \notin Streaming /\ conn # "open"
    /\ read' = Len(sent)
    /\ LET done == IF conn = "reset" THEN Failed ELSE ChatOf(adapter, sent)
       IN IF done = Failed
          THEN On(Failed) /\ UNCHANGED replay
          ELSE replay' = Replay(adapter, done) /\ task' = "polling" /\ UNCHANGED <<emitted, chan, got, caller>>
    /\ UNCHANGED <<adapter, binding, up, acc>>

AtDone == adapter \in BreaksAtDone /\ read < Len(sent) /\ sent[read + 1].kind = "done"

\* stream.next().await of a streaming adapter: the next event of the wire.
PollEvent ==
    /\ task = "polling" /\ adapter \in Streaming /\ read < Len(sent) /\ ~AtDone
    /\ LET r == StreamStep(adapter, acc, sent[read + 1])
       IN acc' = r.acc /\ Handle(r.out)
    /\ read' = read + 1
    /\ UNCHANGED <<adapter, binding, up, replay>>

PollEnd_IgnoresReset ==
    /\ task = "polling" /\ adapter \in Streaming
    /\ AtDone \/ (read = Len(sent) /\ conn = "eof")
    /\ Handle(DoneEvent(StreamedResponse(adapter, acc)))
    /\ UNCHANGED <<adapter, binding, up, read, acc, replay>>

\* .. its end: [DONE] or the end of the body yields Done, a transport error Err.
PollEnd ==
    /\ task = "polling" /\ adapter \in Streaming
    /\ \/ (AtDone \/ (read = Len(sent) /\ conn = "eof"))
          /\ Handle(DoneEvent(StreamedResponse(adapter, acc)))
       \/ ~AtDone /\ read = Len(sent) /\ conn = "reset" /\ Handle(Failed)
    /\ UNCHANGED <<adapter, binding, up, read, acc, replay>>

\* .. of a buffering adapter: the next event it has in hand.
PollReplay ==
    /\ task = "polling" /\ replay # <<>>
    /\ Handle(Head(replay))
    /\ replay' = Tail(replay)
    /\ UNCHANGED <<adapter, binding, up, read, acc>>

\* gravity_stream_next, __next__, a queued callback, a read of the response:
\* a text, an error, or the end, which after an error changes nothing.
Receive(item) ==
    CASE item.item = "text" -> got' = Append(got, item.text) /\ UNCHANGED caller
      [] item.item = "error" -> caller' = "failed" /\ UNCHANGED got
      [] item.item = "end" -> UNCHANGED got /\ caller' = IF caller = "failed" THEN caller ELSE "finished"

CallerNext ==
    /\ caller \in {"reading", "failed"} /\ chan # <<>>
    /\ Receive(Head(chan))
    /\ chan' = Tail(chan)
    /\ UNCHANGED <<adapter, binding, up, read, acc, replay, task, emitted>>

\* gravity_stream_close, or the iterator is dropped: the receiver is gone.
CallerClose ==
    /\ binding \in {"pull", "pyo3"} /\ caller \in {"reading", "failed"}
    /\ caller' = "closed" /\ chan' = <<>>
    /\ UNCHANGED <<adapter, binding, up, read, acc, replay, task, emitted, got>>

Next == \/ \E e \in WireEvents : Send(e)
        \/ Send(Wired("error", <<>>))
        \/ Close \/ OpenFails \/ OpenStream \/ OpenBuffered
        \/ PollEvent \/ PollEnd \/ PollReplay
        \/ CallerNext \/ CallerClose

Spec == Init /\ [][Next]_vars

\* The request's timeout ends every body; the runtime polls a task that is
\* ready; a caller who has not closed the stream goes on reading it.
FairSpec ==
    /\ Spec
    /\ WF_vars(Close)
    /\ WF_vars(OpenStream \/ OpenBuffered \/ PollEvent \/ PollEnd \/ PollReplay)
    /\ WF_vars(CallerNext)
-----------------------------------------------------------------------------
TypeOK ==
    /\ adapter \in Adapters /\ binding \in Bindings
    /\ conn \in {"open", "eof", "reset"}
    /\ read <= Len(sent) /\ Len(sent) <= MaxEvents
    /\ task \in {"opening", "polling", "ended"} /\ emitted \in BOOLEAN
    /\ caller \in {"reading", "finished", "failed", "closed"}
    /\ \A i \in DOMAIN got : got[i] \in Seq(Chars)
    /\ \A i \in DOMAIN chan : chan[i].item \in {"text", "error", "end"}

TextOf(item) == IF item.item = "text" THEN item.text ELSE <<>>
OnTheWay == Flat([i \in DOMAIN chan |-> TextOf(chan[i])])
Delivered == Flat(got) \o OnTheWay

\* The two bindings that send the text of Done after its deltas.
SendsTwice == {"pyo3", "node"}

\* What has reached the caller, or is on its way, is at every moment a prefix
\* of what the upstream said: no text is lost in between, repeated or
\* reordered, whichever adapter and binding.
DeliveredInOrder ==
    /\ binding \notin SendsTwice => IsPrefix(Delivered, Said)
    /\ binding \in SendsTwice =>
          \E again \in {Said, Trimmed(Said)} : IsPrefix(Delivered, Said \o again)

\* A caller who is told that the stream has ended well has the whole text, up
\* to the answers whose text the adapter gives up for tool calls.
CompleteWhenFinished ==
    caller = "finished" /\ binding \notin SendsTwice
        /\ ~(adapter = "perplexity" /\ "tool" \in Kinds(sent))
    => Flat(got) = Said

\* The protocols whose errors have an event that the adapter looks at.
ReadsErrors == {"claude", "anthropic", "glm", "chatgpt", "cursor"}

\* A stream that the upstream broke off, or ended with an error, is never
\* reported to the caller as a success (gravity-node reports no errors).
ErrorsSurface ==
    caller = "finished" /\ binding # "node" =>
        /\ adapter \in ReadsErrors => "error" \notin Kinds(sent)
        /\ ~Finished => conn # "reset"

\* At a clean end of the body.
AtCleanEnd == task = "polling" /\ read = Len(sent) /\ conn = "eof"

\* The adapters that put a call together from fragments report, in Done, every
\* call whose block has ended, in order and with all its arguments.  anthropic
\* reports no other; claude, which looks for no end of a block or a message,
\* adds the call the body ended within.
CallsComplete ==
    AtCleanEnd /\ adapter \in {"claude", "anthropic"} =>
        LET calls == StreamedResponse(adapter, acc).calls
            half  == adapter = "claude" /\ block # NoBlock
        IN /\ Len(calls) = Len(WholeCalls(sent)) + IF half THEN 1 ELSE 0
           /\ \A i \in DOMAIN WholeCalls(sent) : calls[i] = "args"

\* "Terminal event: the complete response" (gravity-core/src/stream.rs:24):
\* no call in Done has only some of its arguments (Streams_halfcall.cfg).
NoHalfCall ==
    AtCleanEnd /\ adapter \in {"claude", "anthropic"} =>
        \A c \in Range(StreamedResponse(adapter, acc).calls) : c = "args"

\* Every stream ends for its caller, and no task is left running behind it.
StreamsEnd == <>[](task = "ended" /\ caller # "reading")

\* "each `next()` call yields the next text delta": a text is given to the
\* caller once.
TextOnce == IsPrefix(Delivered, Said)

\* The streaming adapter that looks at the text of a stream only, not at its
\* tool calls and errors.
TextOnly == {"openai_compat"}

Agree ==
    task = "polling" /\ adapter \in Streaming /\ conn = "eof" /\ (AtDone \/ read = Len(sent)) =>
        ChatOf(adapter, sent) = DoneEvent(StreamedResponse(adapter, acc))

\* "callers that buffer a stream get the same value a non-streaming `chat`
\* would return" (gravity-core/src/stream.rs:10): the response of Done, put
\* together event by event, is what chat makes of the same answer at once.
DoneMatchesChat == adapter \notin TextOnly => Agree

\* .. of every adapter (Streams_done.cfg).
EveryDoneMatchesChat == Agree
=============================================================================
