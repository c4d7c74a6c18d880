-------------------------- MODULE MessagesRequest --------------------------
(***************************************************************************)
(* One POST /v1/messages or /v1/messages/count_tokens, from its body to    *)
(* its last event: protocols/anthropic_app.py with its feature gate        *)
(* (anthropic_feature_gate.py), translation to a Responses request, reverse *)
(* projection of compressed text (anthropic_translate.py) and stream       *)
(* mapper (anthropic_stream.py).                                           *)
(*                                                                         *)
(* A text is an abstract value.  A block is a text, an image, a thinking   *)
(* block, a tool_use or a tool_result; what is nested in a tool_result is  *)
(* the set of its features, each with the depth that it is found at.       *)
(***************************************************************************)
EXTENDS Integers, FiniteSets, SequencesExt, PyNone

CONSTANTS
    Bodies,         \* the payloads that clients send
    Texts,          \* texts of bodies, and what compression may write
    MaxBlockDepth,  \* _MAX_BLOCK_DEPTH
    MaxEvents       \* bound on the events of an upstream stream

VARIABLES
    post,           \* phase, answer, and what the resolved backend is like
    payload,        \* the Messages body, stripped in place
    request,        \* the ResponsesRequest that it is translated to
    sources,        \* projection_sources
    compressed,     \* the request that compression returned
    native,         \* the payload that a native adapter is called with
    mapper,         \* _StreamState
    sent            \* the events that the client was sent

requestVars == <<post, payload, request, sources, compressed, native, mapper, sent>>

Nothing == [nothing |-> TRUE]
Degradable == {"cache_control", "thinking"}
Features == Degradable \cup {"image", "tools"}

Block(kind, text, marks) == [kind |-> kind, text |-> text, marks |-> marks]
Kinds == {"text", "image", "thinking", "tool_use", "tool_result"}
Blocks == [kind : Kinds, text : Texts \cup {None}, marks : SUBSET (Nat \X Features)]
Payloads == [params : SUBSET Features, system : Seq(Texts), messages : Seq([content : Seq(Blocks)])]
ASSUME BodiesOK == Bodies \subseteq Payloads
ASSUME DepthOK == MaxBlockDepth \in Nat

\* `marks` are the <<depth, feature>> of a block: at depth 0 its own
\* cache_control, deeper what its inner content holds.
Marks(block) ==
    block.marks \cup CASE block.kind = "image" -> {<<0, "image">>}
                       [] block.kind = "thinking" -> {<<0, "thinking">>}
                       [] OTHER -> {}

-----------------------------------------------------------------------------
(* strip_degradable_features and gate_anthropic_features.                   *)

AllBlocks(body) == UNION {Range(body.messages[m].content) : m \in DOMAIN body.messages}

\* extract_anthropic_features: nothing is seen below the depth cap.
Seen(block) == {mark[2] : mark \in {x \in Marks(block) : x[1] <= MaxBlockDepth}}
Extract(body) == body.params \cup UNION {Seen(b) : b \in AllBlocks(body)}

StripBlock(b) ==
    [b EXCEPT !.marks = {x \in @ : x[2] \notin Degradable \/ x[1] > MaxBlockDepth}]

\* Thinking blocks go, and cache_control goes from the others ...
StripContent(content) ==
    FoldLeft(LAMBDA stripped, b : IF b.kind = "thinking" THEN stripped ELSE Append(stripped, StripBlock(b)),
             <<>>, content)

\* ... from system and tools, and the thinking parameter from the body (params
\* holds what is not in a block).
Strip(body) ==
    [body EXCEPT !.params = @ \ Degradable,
                 !.messages = [m \in DOMAIN @ |-> [content |-> StripContent(@[m].content)]]]

-----------------------------------------------------------------------------
(* The translation, with the addresses of its texts.                        *)

\* What Anthropic blocks become: parts of message items, or items of their
\* own.  `from` is where the part comes from; the code does not have it.
Part(b, from) == [kind |-> b.kind, text |-> b.text, from |-> from]

\* flush: pending parts become one message item, and each text part is
\* recorded with the native pointer that is queued beside it.
Flush(acc) ==
    IF acc.parts = <<>> THEN acc
    ELSE [items |-> Append(acc.items, [kind |-> "message", parts |-> acc.parts]),
          parts |-> <<>>, pointers |-> <<>>,
          sources |-> acc.sources \cup
              {[address |-> <<Len(acc.items) + 1, p>>, pointer |-> acc.pointers[p]] :
                  p \in {q \in DOMAIN acc.parts :
                            q <= Len(acc.pointers) /\ acc.parts[q].kind = "text"}}]

\* A mutant of AddPart: images queue no pointer, so later ones are misread.
MisalignedAddPart(acc, b, from) ==
    [acc EXCEPT !.parts = Append(@, Part(b, from)),
                !.pointers = IF b.kind = "text" THEN Append(@, from) ELSE @]

AddPart(acc, b, from) ==
    [acc EXCEPT !.parts = Append(@, Part(b, from)), !.pointers = Append(@, from)]

AddItem(acc, b, from) ==
    [Flush(acc) EXCEPT !.items = Append(@, [kind |-> b.kind, parts |-> <<Part(b, from)>>])]

\* _message_to_items, from the items of the messages before
MessageItems(acc, m, content) ==
    Flush(FoldLeft(LAMBDA a, i :
                       IF content[i].kind \in {"text", "image"}
                       THEN AddPart(a, content[i], <<m, i>>)
                       ELSE AddItem(a, content[i], <<m, i>>),
                   acc, [i \in DOMAIN content |-> i]))

NoItems == [items |-> <<>>, parts |-> <<>>, pointers |-> <<>>, sources |-> {}]
Translated(body) ==
    FoldLeft(LAMBDA a, m : MessageItems(a, m, body.messages[m].content),
             NoItems, [m \in DOMAIN body.messages |-> m])

\* A system of one text can be projected back; several are joined for good.
Sources(body) ==
    Translated(body).sources \cup
    IF Len(body.system) = 1 THEN {[address |-> <<0, 1>>, pointer |-> <<0, 1>>]} ELSE {}
AsRequest(body) == [instructions |-> body.system, items |-> Translated(body).items]

-----------------------------------------------------------------------------
(* project_compressed_request_to_anthropic_payload.                         *)

Leaf(r, a) == IF a[1] = 0 THEN r.instructions[1] ELSE r.items[a[1]].parts[a[2]].text
IsLeaf(r, a) ==
    IF a[1] = 0 THEN Len(r.instructions) = 1
    ELSE /\ a[1] \in DOMAIN r.items /\ r.items[a[1]].kind = "message"
         /\ a[2] \in DOMAIN r.items[a[1]].parts
         /\ r.items[a[1]].parts[a[2]].kind = "text"

\* The parts, or blocks, of number n with other texts where `texts` has one.
Retexted(parts, n, texts) ==
    [p \in DOMAIN parts |->
        IF <<n, p>> \in DOMAIN texts THEN [parts[p] EXCEPT !.text = texts[<<n, p>>]] ELSE parts[p]]

\* The request with another text at the addresses that `texts` is defined for.
WithTexts(r, texts) ==
    [instructions |-> IF <<0, 1>> \in DOMAIN texts THEN <<texts[<<0, 1>>]>> ELSE r.instructions,
     items |-> [i \in DOMAIN r.items |-> [r.items[i] EXCEPT !.parts = Retexted(@, i, texts)]]]

NativeText(body, ptr) ==
    IF ptr[1] = 0 THEN body.system[1] ELSE body.messages[ptr[1]].content[ptr[2]].text
WithNative(body, texts) ==
    [body EXCEPT !.system = IF <<0, 1>> \in DOMAIN texts THEN <<texts[<<0, 1>>]>> ELSE @,
                 !.messages = [m \in DOMAIN @ |-> [content |-> Retexted(@[m].content, m, texts)]]]

SameShape(r, c, addresses) ==
    /\ \A a \in addresses : IsLeaf(r, a) /\ IsLeaf(c, a)
    /\ LET blank == [a \in addresses |-> "text"]
       IN WithTexts(r, blank) = WithTexts(c, blank)

\* A compressed text that is the original one of another address, and not of
\* this one: text has moved.
Moved(body, c, recorded) ==
    \E s, t \in recorded :
        /\ Leaf(c, s.address) = NativeText(body, t.pointer)
        /\ \A u \in recorded : u.address = s.address
              => NativeText(body, u.pointer) # Leaf(c, s.address)

\* A mutant of Project: moved text is not looked for.
TrustingProject(body, r, c, recorded) ==
    IF SameShape(r, c, {s.address : s \in recorded})
    THEN WithNative(body, [ptr \in {s.pointer : s \in recorded} |->
             Leaf(c, (CHOOSE s \in recorded : s.pointer = ptr).address)])
    ELSE body

\* All texts or none.
Project(body, r, c, recorded) ==
    IF SameShape(r, c, {s.address : s \in recorded}) /\ ~Moved(body, c, recorded)
    THEN WithNative(body, [ptr \in {s.pointer : s \in recorded} |->
             Leaf(c, (CHOOSE s \in recorded : s.pointer = ptr).address)])
    ELSE body

-----------------------------------------------------------------------------
(* The request, up to its dispatch.                                         *)

RequestInit ==
    /\ post = [phase |-> "new", status |-> 0, native |-> FALSE, unsupported |-> {}]
    /\ payload = Nothing /\ request = Nothing /\ sources = {} /\ compressed = Nothing
    /\ native = Nothing /\ sent = <<>>
    /\ mapper = [index |-> 0, open |-> "none", state |-> "peeking", events |-> 0]

Answer(status) == post' = [post EXCEPT !.phase = "answered", !.status = status]
Unsent == UNCHANGED <<request, sources, compressed, native, mapper, sent>>

\* split_anthropic_path, _read_body and _resolve_backend answer before there
\* is anything to prepare, and so does a body that is no JSON object.
Refuse(status) ==
    /\ post.phase = "new" /\ status \in {400, 404, 413}
    /\ Answer(status)
    /\ UNCHANGED payload /\ Unsent

\* count_tokens translates the unstripped body and gates nothing.
CountTokens(body) ==
    /\ post.phase = "new"
    /\ Answer(200)
    /\ UNCHANGED payload /\ Unsent

\* The backend is resolved; whether it is native and what its row of the
\* capability table forbids is its own.
Receive(body, isNative, images) ==
    /\ post.phase = "new"
    /\ post' = [post EXCEPT !.phase = "received", !.native = isNative,
                            !.unsupported = Degradable \cup IF images THEN {} ELSE {"image"}]
    /\ payload' = body
    /\ Unsent

\* prepare_anthropic_dispatch: strip, gate, translate.
Prepare ==
    /\ post.phase = "received"
    /\ payload' = Strip(payload)
    /\ IF Extract(Strip(payload)) \cap post.unsupported # {}
       THEN Answer(400) /\ UNCHANGED <<request, sources>>
       ELSE /\ post' = [post EXCEPT !.phase = "prepared"]
            /\ request' = AsRequest(Strip(payload))
            /\ sources' = Sources(Strip(payload))
    /\ UNCHANGED <<compressed, native, mapper, sent>>

\* compress_responses_request: it may write any text, or lose an item.
Compress(texts, loses) ==
    /\ post.phase = "prepared"
    /\ compressed' = IF loses THEN [request EXCEPT !.items = Front(@)]
                     ELSE WithTexts(request, texts)
    /\ post' = [post EXCEPT !.phase = "compressed"]
    /\ UNCHANGED <<payload, request, sources, native, mapper, sent>>

Dispatch ==
    /\ post.phase = "compressed"
    /\ native' = IF post.native THEN Project(payload, request, compressed, sources) ELSE Nothing
    /\ post' = [post EXCEPT !.phase = "dispatched"]
    /\ UNCHANGED <<payload, request, sources, compressed, mapper, sent>>

Forget == /\ payload' = Nothing /\ request' = Nothing /\ sources' = {}
          /\ compressed' = Nothing /\ native' = Nothing

\* _handle_nonstreaming: the backend's answer, what the provider curated, or
\* 502.
Answered(status) ==
    /\ post.phase = "dispatched" /\ status \in {200, 401, 404, 502}
    /\ Answer(status) /\ Forget
    /\ UNCHANGED <<mapper, sent>>

-----------------------------------------------------------------------------
(* Streams.                                                                 *)

Upstream == {"text_added", "tool_added", "text_delta", "tool_delta", "item_done",
             "completed", "failed", "other"}
Event(type, index) == [type |-> type, index |-> index]
Started == <<Event("message_start", 0), Event("ping", 0)>>

CloseOpen(m) == IF m.open = "none" THEN <<>> ELSE <<Event("content_block_stop", m.index)>>

\* A mutant of Opens: the block that is still open is left open.
CarelessOpens(m, kind) == <<Event("content_block_start", m.index + 1)>>

\* _on_output_item_added
Opens(m, kind) == CloseOpen(m) \o <<Event("content_block_start", m.index + 1)>>

\* consume
Emitted(m, e) ==
    CASE e \in {"text_added", "tool_added"} -> Opens(m, e)
      [] e = "text_delta" /\ m.open = "text_added" -> <<Event("text_delta", m.index)>>
      [] e = "tool_delta" /\ m.open = "tool_added" -> <<Event("input_json_delta", m.index)>>
      [] e = "item_done" -> CloseOpen(m)
      [] OTHER -> <<>>
Consumed(m, e) ==
    CASE e \in {"text_added", "tool_added"} -> [m EXCEPT !.index = @ + 1, !.open = e]
      [] e = "item_done" -> [m EXCEPT !.open = "none"]
      [] e \in {"completed", "failed"} -> [m EXCEPT !.state = e]
      [] OTHER -> m

StartStream ==
    /\ post.phase = "dispatched"
    /\ post' = [post EXCEPT !.phase = "streaming"] /\ Forget
    /\ UNCHANGED <<mapper, sent>>

Peeking == mapper.state = "peeking"
Streaming == post.phase = "streaming" /\ mapper.state \in {"peeking", "mapping"}

\* The header and the opening events wait for the first upstream event; a
\* native adapter's events are sent on as they are.
Maps(e) ==
    /\ Streaming /\ ~post.native /\ mapper.events < MaxEvents
    /\ LET m == [mapper EXCEPT !.state = "mapping", !.events = @ + 1]
       IN /\ mapper' = Consumed(m, e)
          /\ sent' = sent \o (IF Peeking THEN Started ELSE <<>>) \o Emitted(m, e)
    /\ post' = [post EXCEPT !.status = 200]
    /\ UNCHANGED <<payload, request, sources, compressed, native>>

Forwards ==
    /\ Streaming /\ post.native /\ mapper.events < MaxEvents
    /\ mapper' = [mapper EXCEPT !.state = "mapping", !.events = @ + 1]
    /\ sent' = Append(sent, Event("native", 0))
    /\ post' = [post EXCEPT !.status = 200]
    /\ UNCHANGED <<payload, request, sources, compressed, native>>

\* What the client is sent last.
Ends(m, how) ==
    IF post.native THEN IF how = "raises" THEN <<Event("error", 0)>> ELSE <<>>
    ELSE CloseOpen(m) \o IF how \in {"raises", "failed"} THEN <<Event("error", 0)>>
                         ELSE <<Event("message_delta", 0), Event("message_stop", 0)>>

\* The mapper reads no further than a terminal event.
Finishes ==
    /\ post.phase = "streaming" /\ mapper.state \in {"completed", "failed"}
    /\ sent' = sent \o Ends(mapper, mapper.state)
    /\ mapper' = [mapper EXCEPT !.open = "none"]
    /\ Answer(200)
    /\ UNCHANGED <<payload, request, sources, compressed, native>>

\* The upstream ends without one: at once, or truncated.
UpstreamEnds ==
    /\ Streaming
    /\ sent' = sent \o (IF Peeking /\ ~post.native THEN Started ELSE <<>>) \o Ends(mapper, "ends")
    /\ mapper' = [mapper EXCEPT !.open = "none", !.state = "completed"]
    /\ Answer(200)
    /\ UNCHANGED <<payload, request, sources, compressed, native>>

\* It raises: a status while the header waits (only a native stream's can be
\* the provider's own), an in-band error after.
UpstreamRaises(status) ==
    /\ Streaming /\ status \in {401, 404, 502} /\ (post.native \/ status = 502)
    /\ sent' = IF Peeking THEN sent ELSE sent \o Ends(mapper, "raises")
    /\ mapper' = [mapper EXCEPT !.open = "none", !.state = "failed"]
    /\ Answer(IF Peeking THEN status ELSE 200)
    /\ UNCHANGED <<payload, request, sources, compressed, native>>

-----------------------------------------------------------------------------
TextLeaves(r) ==
    (IF r.instructions # <<>> THEN {<<0, 1>>} ELSE {}) \cup
    {a \in (DOMAIN r.items) \X (1..3) :
        LET parts == r.items[a[1]].parts
        IN a[2] \in DOMAIN parts /\ parts[a[2]].kind \in {"text", "tool_result"}}

RequestNext ==
    \/ \E status \in {400, 404, 413} : Refuse(status)
    \/ \E body \in Bodies : \/ CountTokens(body)
                            \/ \E n, i \in BOOLEAN : Receive(body, n, i)
    \/ Prepare \/ Dispatch \/ StartStream \/ Forwards \/ Finishes \/ UpstreamEnds
    \/ /\ post.phase = "prepared"
       /\ \/ \E texts \in [TextLeaves(request) -> Texts] : Compress(texts, FALSE)
          \/ request.items # <<>> /\ Compress(<<>>, TRUE)
    \/ \E status \in {200, 401, 404, 502} : Answered(status)
    \/ \E e \in Upstream : Maps(e)
    \/ \E status \in {401, 404, 502} : UpstreamRaises(status)

RequestSpec == RequestInit /\ [][RequestNext]_requestVars

-----------------------------------------------------------------------------
\* "A detected feature could survive the strip and 400 at the gate": what is
\* degraded never refuses a request, at any depth; only an image does
\* (anthropic_feature_gate.py, _scan_block_list and _strip_degradable_blocks).
OnlyImagesRefuse ==
    post.phase = "answered" /\ post.status = 400 /\ payload # Nothing
        => "image" \in Extract(payload)

\* Every text, image and tool block of the stripped body is in the request
\* once, in the order of the conversation (_message_to_items).
TranslationKeepsOrder ==
    request # Nothing =>
        FlattenSeq([i \in DOMAIN request.items |->
                       [p \in DOMAIN request.items[i].parts |-> request.items[i].parts[p].from]])
        = FlattenSeq([m \in DOMAIN payload.messages |->
                         [i \in DOMAIN payload.messages[m].content |-> <<m, i>>]])

\* A native adapter gets each block with its own text, as it was or as it was
\* compressed, and never the text of another block
\* (project_compressed_request_to_anthropic_payload).
EachBlockKeepsItsText ==
    native # Nothing =>
        \A m \in DOMAIN native.messages : \A i \in DOMAIN native.messages[m].content :
            LET text == native.messages[m].content[i].text
                was == payload.messages[m].content[i].text
            IN text # was =>
                  /\ \E item \in Range(compressed.items) : \E part \in Range(item.parts) :
                        part.from = <<m, i>> /\ part.text = text
                  /\ \A s \in sources : s.pointer # <<m, i>>
                        => text # NativeText(payload, s.pointer)

\* The translation of a request loses and moves nothing, and refuses only what it must.
TranslationIsFaithful == OnlyImagesRefuse /\ TranslationKeepsOrder /\ EachBlockKeepsItsText

\* The events are a well-formed message for every upstream: one open block at
\* a time, indexes in order, each delta in the open block, and at the end
\* nothing open and one terminal event (anthropic_stream.py:86).
StreamWellFormed ==
    ~post.native /\ sent # <<>> =>
        LET Count(type, n) == Cardinality({i \in 1..n : sent[i].type = type})
            Open(n) == Count("content_block_start", n) - Count("content_block_stop", n)
            Terminal == {"message_stop", "error"}
        IN /\ SubSeq(sent, 1, 2) = Started
           /\ \A n \in 3..Len(sent) :
                 /\ Open(n) \in {0, 1}
                 /\ sent[n].type \in {"text_delta", "input_json_delta"} => Open(n) = 1
                 /\ sent[n].index \in {0, Count("content_block_start", n)}
                 /\ sent[n].type \in Terminal => Open(n) = 0 /\ n = Len(sent)
           /\ post.phase = "answered" => Last(sent).type \in Terminal
=============================================================================
