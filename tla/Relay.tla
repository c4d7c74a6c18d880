-------------------------------- MODULE Relay --------------------------------
(***************************************************************************)
(* One turn of an adapter that relays what its upstream streams or answers *)
(* (protocols/adapters: codex_direct.py, openai.py, copilot.py, ollama and *)
(* openrouter over /responses; deepseek.py, opencode and copilot over      *)
(* /chat/completions through replay.replay_incremental), with the          *)
(* ResponseStore that previous_response_id and GET /responses/{id} read.   *)
(*                                                                         *)
(* The turn is a generator: it runs up to its next yield when its consumer *)
(* asks for an event, and a consumer may stop asking at any event; the     *)
(* Messages surface stops at response.completed.                           *)
(***************************************************************************)
EXTENDS Naturals, Sequences, FiniteSets, SequencesExt, PyNone

CONSTANTS
    MaxFrames,      \* bound on the frames of an upstream
    MaxTurns        \* bound on the turns of an adapter

ASSUME NoneIsNoId == None \notin {"minted", "theirs"} \X Nat /\ None \notin Nat
ASSUME NoneIsNoEnd == None \notin {"redirect", "refused", "broken", "eof"}

VARIABLES
    relay,          \* the turn
    upstream,       \* what the upstream did: frames, and how it ended
    kept            \* the ResponseStore: id -> the text it was kept with

relayVars == <<relay, upstream, kept>>

ResponsesRelays == {"codex-direct", "openai", "copilot", "ollama", "openrouter"}
ChatRelays == {"deepseek", "opencode", "kimi", "copilot-chat"}
Relays == ResponsesRelays \cup ChatRelays

(* What an HTTP client makes of the status and of each line of a stream:    *)
(* it goes on, skips, tells an event, ends the stream or breaks it.  JSON   *)
(* that is no object is a scalar line.                                      *)
Statuses == {"ok", "redirect", "refused"}
Lines == {"comment", "malformed", "scalar", "event", "done"}

DeepSeekClient ==
    [ok |-> {"go"}, redirect |-> {"break"}, refused |-> {"break"}, comment |-> {"skip"},
     malformed |-> {"skip"}, scalar |-> {"break"}, event |-> {"event"}, done |-> {"end"}]
\* Overridden for the errors that it raises.
OpenCodeClient == DeepSeekClient
KimiClient == [DeepSeekClient EXCEPT !.scalar = {"skip"}]
\* Only a status of 400 and above is an error.
CopilotChatClient == [DeepSeekClient EXCEPT !.redirect = {"go"}]
\* _parse_sse_block makes an event of every block, of [DONE] too.
CopilotClient ==
    [CopilotChatClient EXCEPT !.comment = {"other"}, !.malformed = {"other"}, !.scalar = {"other"},
                              !.done = {"other"}]
\* _SSEParser tells what is no object as well, if its event: line names it.
DirectClient ==
    [CopilotChatClient EXCEPT !.malformed = {"skip", "other"}, !.scalar = {"skip", "other"}, !.done = {"skip"}]
OpenAIClient == DirectClient
OllamaClient ==
    [DeepSeekClient EXCEPT !.malformed = {"break"}, !.scalar = {"skip"}, !.done = {"skip"}]

\* stream_response does not look at the status.
OpenRouterClient == [CopilotChatClient EXCEPT !.refused = {"go"}]

Client ==
    CASE relay.adapter = "deepseek" -> DeepSeekClient
      [] relay.adapter = "opencode" -> OpenCodeClient
      [] relay.adapter = "kimi" -> KimiClient
      [] relay.adapter = "copilot-chat" -> CopilotChatClient
      [] relay.adapter = "copilot" -> CopilotClient
      [] relay.adapter = "codex-direct" -> DirectClient
      [] relay.adapter = "openai" -> OpenAIClient
      [] relay.adapter = "ollama" -> OllamaClient
      [] relay.adapter = "openrouter" -> OpenRouterClient

\* Ids: the one that the adapter mints for a turn, and the upstream's own.
Minted(n) == <<"minted", n>>
Theirs(n) == <<"theirs", n>>
\* Events; keeps is the text that put_response keeps right before the yield.
Event(type, id, keeps) == [type |-> type, id |-> id, keeps |-> keeps]
Lifecycle == {"created", "in_progress"}

RelayInit ==
    /\ \E adapter \in Relays :
          relay = [adapter |-> adapter, n |-> 0, phase |-> "idle", streams |-> FALSE, id |-> None,
                   started |-> FALSE, synthetic |-> FALSE, text |-> 0, completed |-> None,
                   next |-> <<>>, wire |-> <<>>, stopped |-> FALSE]
    /\ upstream = [frames |-> 0, end |-> None, completed |-> FALSE]
    /\ kept = [i \in {} |-> 0]

Keeps(id, text) == kept' = [i \in DOMAIN kept \cup {id} |-> IF i = id THEN text ELSE kept[i]]
Kept == UNCHANGED kept
Turn(r) == relay' = r
Upstream(u) == upstream' = u

-----------------------------------------------------------------------------
(* The turn begins.                                                         *)

\* _bearer_token, _api_key or ensure_current fails before the upstream is asked.
Begin(streams, authenticated) ==
    /\ relay.phase \in {"idle", "done", "error"} /\ relay.n < MaxTurns
    /\ Turn([relay EXCEPT !.n = @ + 1, !.phase = IF authenticated THEN "asking" ELSE "error",
                          !.streams = streams, !.id = Minted(relay.n + 1), !.started = FALSE,
                          !.synthetic = FALSE, !.text = 0, !.completed = None,
                          !.next = <<>>, !.wire = <<>>, !.stopped = FALSE])
    /\ Upstream([frames |-> 0, end |-> None, completed |-> FALSE]) /\ Kept

\* The chat relays announce the turn as soon as they are primed.
Announced == <<Event("created", relay.id, None), Event("in_progress", relay.id, None)>>

\* The status of a stream; create_response of codex-direct reads one, too.
Answers(status) ==
    /\ relay.phase = "asking" /\ (relay.streams \/ relay.adapter = "codex-direct")
    /\ Turn([relay EXCEPT !.phase = IF Client[status] = {"go"} THEN "open" ELSE "error"])
    /\ Upstream([upstream EXCEPT !.end = IF status = "ok" THEN None ELSE status])
    /\ Kept

(* create_response of the others: one body.  What it is told under, and     *)
(* whether it is kept; theirs is None when the upstream gave no id.         *)
Answered(id, keeps) ==
    /\ Turn([relay EXCEPT !.phase = "done", !.wire = <<Event("completed", id, None)>>])
    /\ IF keeps THEN Keeps(id, 1) ELSE Kept
Fails == Turn([relay EXCEPT !.phase = "error"]) /\ Kept

OpenAIAnswers(theirs) == Answered(IF theirs = None THEN relay.id ELSE theirs, TRUE)
CopilotAnswers(theirs) == Answered(theirs, theirs # None)
OllamaAnswers(theirs) == IF theirs = None THEN Fails ELSE Answered(theirs, TRUE)
OpenRouterAnswers(theirs) == Answered(theirs, FALSE)
\* _map_completion and _map_chat_completion mint an id for the turn.
ChatAnswers == Answered(relay.id, TRUE)
CopilotChatAnswers == Answered(relay.id, TRUE)

\* A body that is no object is an error, but openrouter reads it as {}.
Unary(status, object, named) ==
    /\ relay.phase = "asking" /\ ~relay.streams /\ relay.adapter # "codex-direct"
    /\ LET theirs == IF object /\ named THEN Theirs(relay.n) ELSE None
       IN IF status # "ok" \/ (~object /\ relay.adapter # "openrouter") THEN Fails
          ELSE CASE relay.adapter = "openai" -> OpenAIAnswers(theirs)
                 [] relay.adapter = "copilot" -> CopilotAnswers(theirs)
                 [] relay.adapter = "ollama" -> OllamaAnswers(theirs)
                 [] relay.adapter = "openrouter" -> OpenRouterAnswers(theirs)
                 [] relay.adapter = "copilot-chat" -> CopilotChatAnswers
                 [] OTHER -> ChatAnswers
    /\ Upstream([upstream EXCEPT !.end = IF status = "ok" THEN "eof" ELSE status, !.completed = object])

-----------------------------------------------------------------------------
(* The stream.                                                              *)

\* The generator runs only when all it has yielded was taken.
Resumed == relay.phase = "open" /\ relay.next = <<>> /\ ~relay.stopped

\* A mutant of Adopted: the id of any event is taken.
LateAdopted(id) == IF id # None THEN id ELSE relay.id

\* codex-direct takes the id of an event unless it has announced one itself.
Adopted(id) == IF id # None /\ ~relay.synthetic THEN id ELSE relay.id

\* codex_direct.stream_response, for one event of its upstream.
DirectFrame(type, id) ==
    LET r == [relay EXCEPT !.id = Adopted(id)]
        begins == ~r.started /\ type \notin Lifecycle
        synthetic == r.synthetic \/ begins
        start == IF begins THEN <<Event("created", r.id, None), Event("in_progress", r.id, None)>> ELSE <<>>
        shown == IF synthetic /\ id # None THEN r.id ELSE id
        completes == type = "completed" /\ id # None
    IN IF type \in Lifecycle /\ synthetic THEN Turn(r)
       ELSE Turn([r EXCEPT !.started = TRUE, !.synthetic = synthetic,
                           !.text = IF type = "delta" THEN @ + 1 ELSE @,
                           !.completed = IF completes THEN r.id ELSE @,
                           !.next = start \o <<Event(type, shown, IF completes THEN r.text ELSE None)>>])

\* The other relays over /responses: each event as it comes.  ollama keeps a
\* completed response before it yields it, openai when its stream has ended,
\* copilot and openrouter never.
VerbatimFrame(type, id) ==
    LET completes == type = "completed" /\ id # None
    IN Turn([relay EXCEPT !.completed = IF completes /\ relay.adapter = "openai" THEN id ELSE @,
                          !.text = IF type = "delta" THEN @ + 1 ELSE @,
                          !.next = <<Event(type, id, IF completes /\ relay.adapter = "ollama"
                                                     THEN relay.text ELSE None)>>])

\* replay_incremental: the prelude with the first chunk, then its deltas.
Prelude == IF relay.started THEN <<>> ELSE Announced
ChatFrame(type) ==
    Turn([relay EXCEPT !.started = TRUE, !.text = IF type = "delta" THEN @ + 1 ELSE @,
                       !.next = Prelude \o (IF type = "delta" THEN <<Event("delta", None, None)>> ELSE <<>>)])

Read(line, reading) ==
    /\ Resumed /\ upstream.end = None /\ upstream.frames < MaxFrames
    /\ reading \in Client[line]

\* An event.  A stream says completed once.
Frame(type, named) ==
    /\ Read("event", "event") /\ ~upstream.completed
    /\ LET id == IF named THEN Theirs(relay.n) ELSE None
       IN CASE relay.adapter = "codex-direct" -> DirectFrame(type, id)
            [] relay.adapter \in ChatRelays -> type = "delta" /\ ChatFrame(type)
            [] OTHER -> VerbatimFrame(type, id)
    /\ Upstream([upstream EXCEPT !.frames = @ + 1, !.completed = type = "completed"])
    /\ Kept

\* A line that carries no event of the protocol.
Noise(line) ==
    /\ line # "event"
    /\ \/ Read(line, "skip") /\ UNCHANGED relay
       \/ Read(line, "other") /\ IF relay.adapter = "codex-direct" THEN DirectFrame("other", None)
                                 ELSE VerbatimFrame("other", None)
       \/ Read(line, "break") /\ Turn([relay EXCEPT !.phase = "error"])
    /\ Upstream([upstream EXCEPT !.frames = @ + 1, !.end = IF relay'.phase = "error" THEN "broken" ELSE @])
    /\ Kept

\* finalize, put_response and the completed event of a chat relay, at [DONE]
\* and at the end of the bytes alike.
ChatCompletes ==
    [relay EXCEPT !.phase = "ended", !.started = TRUE, !.completed = relay.id,
                  !.next = Prelude \o <<Event("completed", relay.id, relay.text)>>]

\* codex-direct completes what its upstream did not.
DirectEnds ==
    IF relay.completed # None THEN [relay EXCEPT !.phase = "ended"]
    ELSE [relay EXCEPT !.phase = "ended", !.completed = relay.id,
                       !.next = (IF relay.started THEN <<>> ELSE Announced)
                                  \o <<Event("completed", relay.id, relay.text)>>]

\* The bytes end, or [DONE] ends the reading of them.
UpstreamEnds ==
    /\ Resumed /\ upstream.end # "broken"
    /\ CASE relay.adapter = "codex-direct" -> Turn(DirectEnds) /\ Kept
         [] relay.adapter \in ChatRelays -> Turn(ChatCompletes) /\ Kept
         [] relay.adapter = "openai" /\ relay.completed # None ->
               Turn([relay EXCEPT !.phase = "ended"]) /\ Keeps(relay.completed, relay.text)
         [] OTHER -> Turn([relay EXCEPT !.phase = "ended"]) /\ Kept
    /\ Upstream([upstream EXCEPT !.end = IF @ = None THEN "eof" ELSE @])

\* A transport error ends the generator with an exception.
UpstreamBreaks ==
    /\ Resumed /\ upstream.end = None
    /\ Turn([relay EXCEPT !.phase = "error"]) /\ Upstream([upstream EXCEPT !.end = "broken"]) /\ Kept

-----------------------------------------------------------------------------
(* The consumer.                                                            *)

\* A mutant of Taken: the event is told and its response is not kept.
UnkeptTaken(e) == Kept

Taken(e) == IF e.keeps = None THEN Kept ELSE Keeps(e.id, e.keeps)

Take(stops) ==
    /\ relay.next # <<>> /\ ~relay.stopped
    /\ LET e == Head(relay.next)
       IN /\ Turn([relay EXCEPT !.wire = Append(@, e), !.next = Tail(@), !.stopped = stops,
                                !.phase = IF stops THEN "done" ELSE @])
          /\ Taken(e)
    /\ UNCHANGED upstream

\* The consumer has read to the end.
Drained ==
    /\ relay.phase = "ended" /\ relay.next = <<>>
    /\ Turn([relay EXCEPT !.phase = "done"]) /\ UNCHANGED <<upstream, kept>>

RelayNext ==
    \/ \E s, a \in BOOLEAN : Begin(s, a)
    \/ \E status \in Statuses : Answers(status) \/ \E o, n \in BOOLEAN : Unary(status, o, n)
    \/ \E line \in Lines : Noise(line)
    \/ \E type \in Lifecycle \cup {"delta", "completed", "failed"} :
          \* an event of the lifecycle and one that fails carry a response;
          \* one that completes may lack it
          \/ Frame(type, type # "delta")
          \/ type = "completed" /\ Frame(type, FALSE)
    \/ UpstreamEnds \/ UpstreamBreaks \/ Drained
    \/ \E stops \in BOOLEAN : Take(stops)

RelaySpec == RelayInit /\ [][RelayNext]_relayVars

-----------------------------------------------------------------------------
Ids(r) == {r.wire[i].id : i \in DOMAIN r.wire} \ {None}
Keepers == {"codex-direct", "ollama"} \cup ChatRelays

\* A client of a stream knows one response id, the one it was first told,
\* and what is kept of the turn is kept under that id, whatever the upstream
\* said before, after or instead of its own lifecycle (codex_direct.py,
\* _normalize_response_id; deepseek.py, _finalize_streaming_envelope).
OneIdPerStream ==
    relay.n > 0 =>
        /\ Cardinality(Ids(relay)) <= 1
        /\ DOMAIN kept \cap {Minted(relay.n), Theirs(relay.n)} \subseteq Ids(relay)

\* Once a client has read the completion of a stream it may chain on it and
\* fetch it, with every fragment that it read (copilot.py:655 and replay.py:551,
\* "Store-before-drain"): for the adapters that keep before they yield.
CompletedIsKept ==
    relay.adapter \in Keepers =>
        \A i \in DOMAIN relay.wire :
            relay.wire[i].type = "completed" /\ relay.wire[i].id # None =>
                /\ relay.wire[i].id \in DOMAIN kept
                /\ relay.streams => kept[relay.wire[i].id]
                       >= Cardinality({j \in 1..i : relay.wire[j].type = "delta"})

\* A turn whose upstream refused it or broke off is an error: it is not told
\* as completed and nothing of it is kept.
FailuresAreErrors ==
    \/ upstream.end = "broken"
    \/ upstream.end = "refused" /\ relay.adapter # "openrouter"
    =>
        /\ relay.phase = "error"
        /\ \/ upstream.completed
           \/ /\ \A i \in DOMAIN relay.wire : relay.wire[i].type # "completed"
              /\ DOMAIN kept \cap {Minted(relay.n), Theirs(relay.n)} = {}

\* A relayed turn is told under one id, is kept when it is told as completed, and is
\* told as completed only if it was (the adapters' stream_response).
RelayIsHonest == OneIdPerStream /\ CompletedIsKept /\ FailuresAreErrors

\* "previous_response_id chaining and /input_items are served from the injected
\* in-memory ResponseStore" (copilot.py:403): so what a copilot stream has
\* completed is in it.
CopilotStreamsAreKept ==
    relay.adapter = "copilot" /\ relay.streams =>
        \A i \in DOMAIN relay.wire :
            relay.wire[i].type = "completed" /\ relay.wire[i].id # None => relay.wire[i].id \in DOMAIN kept
=============================================================================
