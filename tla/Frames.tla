-------------------------------- MODULE Frames --------------------------------
(***************************************************************************)
(* The framings under the adapters' streams: lines and server-sent events  *)
(* (gravity-http/src/sse.rs), kiro's concatenated objects (kiro/parser.rs),*)
(* gemini's length-prefixed frames (gemini/parser.rs), and the protobuf    *)
(* and Connect frames of cursor and windsurf (cursor/proto.rs).            *)
(*                                                                         *)
(* A body is a sequence of symbols: a character where it matters, a token  *)
(* that stands for a run of them where it does not.  Each framing is       *)
(* checked against a definition that sees the body at once, over every     *)
(* body of a bounded shape and every place where the network may cut it.   *)
(***************************************************************************)
EXTENDS Integers, SequencesExt

\* The two parts of a body cut after its first k symbols.
Before(body, k) == SubSeq(body, 1, k)
After(body, k) == SubSeq(body, k + 1, Len(body))

memchr(needle, haystack) == SelectInSeq(haystack, LAMBDA b : b = needle)
-----------------------------------------------------------------------------
(* sse.rs.  Symbols: "LF", "CR", ":", " ", field names and texts.          *)

DropCr(line) == IF line # <<>> /\ Last(line) = "CR" THEN Front(line) ELSE line

\* The lines that are complete in the buffer, and what stays in it.
RECURSIVE split_to(_)
split_to(buf) ==
    LET pos  == memchr("LF", buf)
        rest == split_to(After(buf, pos))
    IN IF pos = 0 THEN [lines |-> <<>>, buf |-> buf]
       ELSE [rest EXCEPT !.lines = <<DropCr(Before(buf, pos - 1))>> \o @]

lines(chunks) ==
    LET read == FoldLeft(LAMBDA st, chunk :
                    LET cut == split_to(st.buf \o chunk)
                    IN [lines |-> st.lines \o cut.lines, buf |-> cut.buf],
                  [lines |-> <<>>, buf |-> <<>>], chunks)
    IN IF read.buf = <<>> THEN read.lines ELSE Append(read.lines, read.buf)

\* .. trims one leading space of the value.
split_field(line) ==
    LET idx   == memchr(":", line)
        value == After(line, idx)
    IN IF idx = 0 THEN [field |-> line, value |-> <<>>]
       ELSE [field |-> Before(line, idx - 1),
             value |-> IF value # <<>> /\ Head(value) = " " THEN Tail(value) ELSE value]

NoEvent == [event |-> <<>>, data |-> <<>>]

\* The body of the loop of events: cur and have_data, and what was yielded.
EventLine(st, line) ==
    LET f == split_field(line)
    IN CASE line = <<>> ->
              IF st.have_data
              THEN [cur |-> NoEvent, have_data |-> FALSE, yielded |-> Append(st.yielded, st.cur)]
              ELSE st
         [] line # <<>> /\ Head(line) = ":" -> st
         [] f.field = <<"data">> ->
              [st EXCEPT !.cur.data = (IF st.have_data THEN Append(@, "LF") ELSE @) \o f.value,
                         !.have_data = TRUE]
         [] f.field = <<"event">> -> [st EXCEPT !.cur.event = f.value]
         [] OTHER -> st

events(chunks) ==
    LET st == FoldLeft(EventLine, [cur |-> NoEvent, have_data |-> FALSE, yielded |-> <<>>], lines(chunks))
    IN IF st.have_data THEN Append(st.yielded, st.cur) ELSE st.yielded

SseLines == {<<>>, <<"data", ":", " ", "x">>, <<"data", ":", "y">>, <<"event", ":", "n">>, <<":", "x">>}
SseBodies ==
    {FlattenSeq(s) : s \in SeqOf({l \o e : l \in SseLines, e \in {<<"LF">>, <<"CR", "LF">>}}, 3)}
    \cup {FlattenSeq(s) \o l : s \in SeqOf({l \o <<"LF">> : l \in SseLines}, 2), l \in SseLines}

\* Lines and events do not depend on how the body is cut into chunks.
ASSUME SseCutsDoNotMatter ==
    \A body \in SseBodies, k \in 0..16 :
        k <= Len(body) => lines(<<Before(body, k), After(body, k)>>) = lines(<<body>>)

\* The values of the data lines between two blank ones make one event.
Values(ls) == SelectSeq(ls, LAMBDA l : l # <<>> /\ split_field(l).field = <<"data">>)
Joined(ls) ==
    LET v == [i \in DOMAIN ls |-> (IF i = 1 THEN <<>> ELSE <<"LF">>) \o split_field(ls[i]).value]
    IN FlattenSeq(v)
Blocks(ls) ==
    LET blank(i) == i \in {0, Len(ls) + 1} \/ ls[i] = <<>>
        ends == SelectSeq([i \in 1..(Len(ls) + 1) |-> i], blank)
        from(e) == CHOOSE b \in 0..(e - 1) : blank(b) /\ \A j \in (b + 1)..(e - 1) : ~blank(j)
    IN [i \in DOMAIN ends |-> SubSeq(ls, from(ends[i]) + 1, ends[i] - 1)]

ASSUME EventsHoldTheirData ==
    \A body \in SseBodies :
        LET got == events(<<body>>)
            due == SelectSeq(Blocks(lines(<<body>>)), LAMBDA b : Values(b) # <<>>)
        IN [i \in DOMAIN got |-> got[i].data] = [i \in DOMAIN due |-> Joined(Values(due[i]))]
-----------------------------------------------------------------------------
(* kiro/parser.rs.  Symbols: "{", "}", "q" a quote, "\\", and "k", one of   *)
(* the keys of MARKERS with its colon.                                     *)

\* The first position of a marker at or after from, 0 if there is none.
next_object_start(buf, from) ==
    SelectInSeq([i \in DOMAIN buf |-> <<i, buf[i]>>],
                LAMBDA c : c[1] >= from /\ c[2] = "{" /\ c[1] < Len(buf) /\ buf[c[1] + 1] = "k")

ObjectChar(s, ch, at) ==
    CASE s.end # 0 -> s
      [] s.end = 0 /\ s.escape -> [s EXCEPT !.escape = FALSE]
      [] ch = "\\" /\ ~s.escape /\ s.end = 0 -> [s EXCEPT !.escape = TRUE]
      [] ch = "q" /\ ~s.escape /\ s.end = 0 -> [s EXCEPT !.in_string = ~@]
      [] ch = "{" /\ ~s.in_string /\ ~s.escape /\ s.end = 0 -> [s EXCEPT !.brace = @ + 1]
      [] ch = "}" /\ ~s.in_string /\ ~s.escape /\ s.end = 0 ->
           [s EXCEPT !.brace = @ - 1, !.end = IF s.brace = 1 THEN at ELSE 0]
      [] OTHER -> s

object_end(buf, start) ==
    FoldLeft(LAMBDA s, at : ObjectChar(s, buf[at], at),
             [brace |-> 0, in_string |-> FALSE, escape |-> FALSE, end |-> 0],
             [i \in 1..(Len(buf) - start + 1) |-> start + i - 1]).end

\* parse_stream_buffer from search_start on: the objects found, which are then
\* decoded and classified one by one, and the tail that is not consumed.
RECURSIVE ObjectsFrom(_, _)
ObjectsFrom(buf, search_start) ==
    LET json_start == next_object_start(buf, search_start)
        json_end   == object_end(buf, json_start)
        more       == ObjectsFrom(buf, json_end + 1)
    IN IF json_start = 0 \/ json_end = 0
       THEN [objects |-> <<>>, remaining |-> After(buf, search_start - 1)]
       ELSE [more EXCEPT !.objects = <<SubSeq(buf, json_start, json_end)>> \o @]
parse_stream_buffer(buf) == ObjectsFrom(buf, 1)

\* Going on from the tail gives what the whole buffer gives, wherever it is cut:
\* inside a marker, a string or an escape.
ASSUME KiroTailResumes ==
    \A buf \in [1..6 -> {"{", "k", "}", "q", "\\"}], k \in 1..5 :
        LET first == parse_stream_buffer(Before(buf, k))
            next  == parse_stream_buffer(first.remaining \o After(buf, k))
        IN parse_stream_buffer(buf)
             = [objects |-> first.objects \o next.objects, remaining |-> next.remaining]
-----------------------------------------------------------------------------
(* gemini/parser.rs.  Symbols: digits, "LF", "x" of one UTF-16 unit and "w" *)
(* of two.                                                                 *)

DigitValue == [d \in {"2", "3"} |-> IF d = "2" THEN 2 ELSE 3]
UnitsOf(ch) == IF ch = "w" THEN 2 ELSE 1

\* How many of the characters make up the units, stopping where the next one
\* would overshoot.
chars_for_utf16_units(chars, utf16_units) ==
    FoldLeft(LAMBDA s, ch :
                IF s.full \/ s.units = utf16_units THEN s
                ELSE IF s.units + UnitsOf(ch) > utf16_units THEN [s EXCEPT !.full = TRUE]
                ELSE [s EXCEPT !.count = @ + 1, !.units = @ + UnitsOf(ch)],
             [count |-> 0, units |-> 0, full |-> FALSE], chars)

\* The digits in front and the number they spell, if a newline follows.
match_length_marker(chars) ==
    LET n == SelectInSeq(Append(chars, "end"), LAMBDA c : c \notin DOMAIN DigitValue) - 1
    IN [digits |-> IF n < Len(chars) /\ chars[n + 1] = "LF" THEN n ELSE 0,
        length |-> FoldLeft(LAMBDA v, d : 10 * v + DigitValue[d], 0, Before(chars, n))]

RECURSIVE trim_start(_)
trim_start(s) == IF s # <<>> /\ Head(s) = "LF" THEN trim_start(Tail(s)) ELSE s
TrimFrame(s) == Reverse(trim_start(Reverse(trim_start(s))))

\* The length counts from the newline after its digits.  (A frame that is no
\* JSON is skipped: here every text decodes.)
RECURSIVE parse_response_frames(_)
parse_response_frames(content) ==
    LET chars  == trim_start(content)
        marker == match_length_marker(chars)
        body   == After(chars, marker.digits)
        units  == chars_for_utf16_units(body, marker.length)
        chunk  == TrimFrame(Before(body, units.count))
        more   == parse_response_frames(After(body, units.count))
    IN IF chars = <<>> \/ marker.digits = 0 \/ units.units < marker.length
       THEN [frames |-> <<>>, remaining |-> chars]
       ELSE [more EXCEPT !.frames = (IF chunk = <<>> THEN <<>> ELSE <<chunk>>) \o @]

ASSUME GeminiTailResumes ==
    \A body \in [1..6 -> {"2", "3", "LF", "x", "w"}], k \in 1..5 :
        LET first == parse_response_frames(Before(body, k))
            next  == parse_response_frames(first.remaining \o After(body, k))
        IN parse_response_frames(body)
             = [frames |-> first.frames \o next.frames, remaining |-> next.remaining]

\* A frame is the text its length announces, surrogate pairs counted as two.
FramedText(text) == <<IF text = <<"x">> THEN "2" ELSE "3", "LF">> \o text
ASSUME GeminiFramesRead ==
    \A texts \in SeqOf({<<"x">>, <<"w">>, <<"x", "x">>}, 4) :
        parse_response_frames(FlattenSeq([i \in DOMAIN texts |-> FramedText(texts[i])]))
          = [frames |-> texts, remaining |-> <<>>]
-----------------------------------------------------------------------------
(* cursor/proto.rs.  Symbols are bytes.                                    *)

RECURSIVE varint(_)
varint(v) == IF v > 127 THEN <<128 + (v % 128)>> \o varint(v \div 128) ELSE <<v>>

field_varint(fn, v) == varint(fn * 8) \o varint(v)
field_bytes(fn, b) == varint(fn * 8 + 2) \o varint(Len(b)) \o b
field_double(fn, eight) == varint(fn * 8 + 1) \o eight

\* The value and the bytes it takes; no byte without the high bit: none.
read_varint(data) ==
    LET n == SelectInSeq(data, LAMBDA b : b < 128)
    IN [n |-> n, v |-> FoldRight(LAMBDA b, v : 128 * v + (b % 128), Before(data, n), 0)]

\* The fields in front that are complete: decode_fields groups them by number.
RECURSIVE FieldsOf(_)
FieldsOf(data) ==
    LET tag  == read_varint(data)
        wt   == tag.v % 8
        rest == After(data, tag.n)
        arg  == read_varint(rest)
        skip == CASE wt = 0 -> [from |-> 0, len |-> arg.n, ok |-> arg.n # 0]
                  [] wt = 1 -> [from |-> 0, len |-> 8, ok |-> TRUE]
                  [] wt = 2 -> [from |-> arg.n, len |-> arg.v, ok |-> arg.n # 0]
                  [] wt = 5 -> [from |-> 0, len |-> 4, ok |-> TRUE]
                  [] OTHER -> [from |-> 0, len |-> 0, ok |-> FALSE]
        end  == skip.from + skip.len
        f    == [fn |-> tag.v \div 8, bytes |-> wt # 0,
                 field |-> IF wt = 0 THEN <<arg.v>> ELSE SubSeq(rest, skip.from + 1, end)]
    IN IF data = <<>> \/ tag.n = 0 \/ ~skip.ok \/ end > Len(rest) THEN <<>>
       ELSE <<f>> \o FieldsOf(After(rest, end))

decode_fields(data, fn) ==
    LET found == SelectSeq(FieldsOf(data), LAMBDA f : f.fn = fn)
    IN [i \in DOMAIN found |-> found[i].field]

\* .. of which those that are not varints.
bytes(data, fn) ==
    LET found == SelectSeq(FieldsOf(data), LAMBDA f : f.fn = fn /\ f.bytes)
    IN [i \in DOMAIN found |-> found[i].field]

\* encode_value and encode_struct: a JSON value is a record with
\* one field, its kind.
RECURSIVE encode_value(_)
encode_struct(map) ==
    FlattenSeq([i \in DOMAIN map |->
        field_bytes(1, field_bytes(1, map[i].key) \o field_bytes(2, encode_value(map[i].value)))])
encode_list(list) == FlattenSeq([i \in DOMAIN list |-> field_bytes(1, encode_value(list[i]))])
encode_value(v) ==
    CASE "null" \in DOMAIN v -> field_varint(1, 0)
      [] "bool" \in DOMAIN v -> field_varint(4, v.bool)
      [] "number" \in DOMAIN v -> field_double(2, v.number)
      [] "string" \in DOMAIN v -> field_bytes(3, v.string)
      [] "object" \in DOMAIN v -> field_bytes(5, encode_struct(v.object))
      [] "array" \in DOMAIN v -> field_bytes(6, encode_list(v.array))

\* google.protobuf.Value read back: the arguments of a call and the results of
\* a tool arrive as they were.
RECURSIVE ValueOf(_)
ValueOf(data) ==
    LET f == Head(FieldsOf(data))
        entry(e) == [key |-> decode_fields(e, 1)[1], value |-> ValueOf(decode_fields(e, 2)[1])]
        inner == decode_fields(f.field, 1)
    IN CASE f.fn = 1 -> [null |-> 0]
         [] f.fn = 4 -> [bool |-> f.field[1]]
         [] f.fn = 2 -> [number |-> f.field]
         [] f.fn = 3 -> [string |-> f.field]
         [] f.fn = 5 -> [object |-> [i \in DOMAIN inner |-> entry(inner[i])]]
         [] f.fn = 6 -> [array |-> [i \in DOMAIN inner |-> ValueOf(inner[i])]]

Leaves == {[null |-> 0], [bool |-> 1], [bool |-> 0],
           [number |-> <<0, 0, 0, 0, 0, 0, 240, 63>>],
           [string |-> <<>>], [string |-> [i \in 1..130 |-> 10]]}
Grown(values) ==
    {[array |-> l] : l \in SeqOf(values, 2)}
    \cup {[object |-> [i \in DOMAIN l |-> [key |-> <<96 + i>>, value |-> l[i]]]] : l \in SeqOf(values, 2)}
Nested == {[array |-> <<g, [bool |-> 1]>>] : g \in Grown(Leaves)}

ASSUME ValuesArrive == \A v \in Leaves \cup Grown(Leaves) \cup Nested : ValueOf(encode_value(v)) = v

ASSUME VarintsRead ==
    \A v \in (0..600) \cup {16383, 16384, 2097151, 2097152} :
        read_varint(varint(v) \o <<255>>) = [n |-> Len(varint(v)), v |-> v]

\* A message that is cut short keeps the fields that are whole.
ASSUME CutMessageKeepsFields ==
    \A v \in Grown(Leaves) :
        LET m == field_varint(7, 300) \o encode_value(v) \o field_bytes(20, <<1, 2>>)
        IN \A k \in 0..Len(m) : IsPrefix(FieldsOf(Before(m, k)), FieldsOf(m))

\* Connect frames: [flag][len: u32 be][payload].  A payload that gzip packed
\* begins with 31 here; a flagged one that does not unpack is kept as it is.
U32(n) == <<n \div 16777216, (n \div 65536) % 256, (n \div 256) % 256, n % 256>>
encode_frame(payload) == <<0>> \o U32(Len(payload)) \o payload
Unpacked(flag, payload) ==
    IF flag % 2 = 1 /\ payload # <<>> /\ Head(payload) = 31 THEN Tail(payload) ELSE payload

RECURSIVE decode_frames(_)
decode_frames(raw) ==
    LET len  == FoldLeft(LAMBDA n, b : 256 * n + b, 0, SubSeq(raw, 2, 5))
        body == After(raw, 5)
    IN IF Len(raw) < 5 \/ len > Len(body) THEN <<>>
       ELSE <<[flag |-> raw[1], payload |-> Unpacked(raw[1], Before(body, len))]>>
              \o decode_frames(After(body, len))

\* Frames arrive in order and whole; a body cut short keeps those before the cut.
ASSUME FramesArrive ==
    \A payloads \in SeqOf({<<>>, <<0>>, <<31, 7>>, [i \in 1..260 |-> 5]}, 3) :
        LET raw == FlattenSeq([i \in DOMAIN payloads |-> encode_frame(payloads[i])])
            got == decode_frames(raw)
        IN /\ [i \in DOMAIN got |-> got[i].payload] = payloads
           /\ \A k \in {1, 4, 5, 6, 7} : k < Len(raw) => IsPrefix(decode_frames(Before(raw, Len(raw) - k)), got)

\* build_bulk_embed_request and parse_bulk_embed_response: eight bytes a number;
\* an embedding without any is left out.
build_bulk_embed_request(texts) == FlattenSeq([i \in DOMAIN texts |-> field_bytes(1, texts[i])])
Doubles(b) == [i \in 1..(Len(b) \div 8) |-> SubSeq(b, 8 * i - 7, 8 * i)]
Embedding(inner) ==
    LET chunks == bytes(inner, 1) IN FlattenSeq([i \in DOMAIN chunks |-> Doubles(chunks[i])])
parse_bulk_embed_response(data) ==
    LET found == bytes(data, 1)
    IN SelectSeq([i \in DOMAIN found |-> Embedding(found[i])], LAMBDA e : e # <<>>)

\* One embedding per text, in the order of the texts, if none of them is empty.
ASSUME EmbeddingsInOrder ==
    \A es \in SeqOf({<<1>>, <<2, 3>>}, 3) :
        LET eight(n) == [i \in 1..8 |-> n]
            packed(e) == field_bytes(1, FlattenSeq([i \in DOMAIN e |-> eight(e[i])]))
        IN parse_bulk_embed_response(build_bulk_embed_request([i \in DOMAIN es |-> packed(es[i])]))
             = [i \in DOMAIN es |-> [j \in DOMAIN es[i] |-> eight(es[i][j])]]
=============================================================================
