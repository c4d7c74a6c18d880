-------------------------- MODULE ResponsesGateway --------------------------
(***************************************************************************)
(* The Responses gateway (protocols/responses_app.py) over the adapters    *)
(* whose turns it replays itself (protocols/replay.py, store.py):          *)
(*                                                                         *)
(*   buffered   auggie: one CLI run in a thread, then the whole turn is    *)
(*              replayed                                                   *)
(*   preflight  claude: a CLI that streams, with a second, buffered run    *)
(*              when the first one fails before its first fragment         *)
(*   chat       deepseek: a chat-completions stream, primed before the     *)
(*              first event                                                *)
(*                                                                         *)
(* A request is a task of the event loop; every await of it is a point     *)
(* where other requests run, where the client may have gone and where the  *)
(* composition root's shutdown may cancel it.  A client that has gone is   *)
(* not noticed: nobody reads http.disconnect and the server drops what is  *)
(* sent, so the task goes on.                                              *)
(***************************************************************************)
EXTENDS Integers, Sequences, FiniteSets, SequencesExt

CONSTANTS
    Requests,
    Kinds,          \* the adapters considered, a subset of AllKinds
    Forms,          \* bound: what the compression seam may hand back
    MaxFragments,   \* bound: text fragments of one turn
    MaxMarks,       \* bound: turns whose text has a mark
    MaxFaults       \* bound: disconnects and cancellations together

AllKinds == {"buffered", "preflight", "chat"}
AllForms == {"original", "compressed"}

ASSUME GatewayAssumption ==
    /\ Kinds \subseteq AllKinds
    /\ Forms \subseteq AllForms
    /\ MaxFragments \in Nat \ {0}
    /\ MaxMarks \in Nat
    /\ MaxFaults \in Nat

VARIABLES
    kind,       \* which adapter this is; adapters share no state
    pc,         \* where each request's task waits
    streamed,   \* ResponsesRequest.stream
    previous,   \* ResponsesRequest.previous_response_id, as the request it came from
    carried,    \* the prior assistant text that went upstream
    form,       \* which input the adapter got: the original or a compressed one
    run,        \* how many times the request was run upstream
    alive,      \* the runs that have a child process or a connection
    text,       \* the fragments received so far (text_parts)
    out,        \* events that come without waiting for the upstream
    started,    \* _stream: started
    sawDone,    \* _stream: saw_done
    wire,       \* what the client received, in order
    gone,       \* the client disconnected
    cancelled,  \* the shutdown cancelled the task
    store,      \* the adapter's ResponseStore, per response
    items       \* the gateway's _original_input_items, per response

request == <<streamed, previous, carried, form>>
client == <<started, sawDone, wire>>
faults == <<gone, cancelled>>
kept == <<store, items>>
vars == <<kind, pc, request, run, alive, text, out, client, faults, kept>>

None == [turn |-> "none"]
Turn(t, i) == [turn |-> "kept", text |-> t, items |-> i]

\* A fragment of a turn: the run it came from, and a mark when it quotes
\* "data: [DONE]" or is a <think> block.
Fragment == [of : 1..2, mark : {"none", "quote", "think"}]

Quoting(t) == \E i \in DOMAIN t : t[i].mark = "quote"
Marked(t) == \E i \in DOMAIN t : t[i].mark # "none"

\* What a run of request r may produce next; in a stream, which strips nothing,
\* a <think> block is text like any other.
Fragments(r) ==
    {f \in Fragment : /\ f.of = run[r]
                      /\ f.mark = "think" => ~streamed[r]
                      /\ f.mark # "none" => Cardinality({q \in Requests : Marked(text[q])}) < MaxMarks}

\* strip_think_json: a body shows no reasoning; the events of a stream are not
\* stripped.  The text of a unary turn is one fragment.
Shown(t) == IF \E i \in DOMAIN t : t[i].mark = "think" THEN <<>> ELSE t

Event(type, fragments) == [type |-> type, text |-> fragments]
Created == Event("created", <<>>)
Delta(f) == Event("delta", <<f>>)
Completed(t) == Event("completed", t)
Error == Event("error", <<>>)
Body(t) == Event("body", Shown(t))
Status == Event("200", <<>>)
Done == Event("[DONE]", <<>>)
End == Event("end", <<>>)

\* _emit_mid_stream_failure
FailureEvents == <<Event("failed", <<>>), Done, End>>

Upstream == {"thread", "call", "first", "pull"}
Points == {"new", "gate", "send", "tail", "over"} \cup Upstream

Init ==
    /\ kind \in Kinds
    /\ pc = [r \in Requests |-> "new"]
    /\ streamed = [r \in Requests |-> FALSE]
    /\ previous = [r \in Requests |-> {}]
    /\ carried = [r \in Requests |-> <<>>]
    /\ form = [r \in Requests |-> "original"]
    /\ run = [r \in Requests |-> 0]
    /\ alive = [r \in Requests |-> {}]
    /\ text = [r \in Requests |-> <<>>]
    /\ out = [r \in Requests |-> <<>>]
    /\ started = [r \in Requests |-> FALSE]
    /\ sawDone = [r \in Requests |-> FALSE]
    /\ wire = [r \in Requests |-> <<>>]
    /\ gone = [r \in Requests |-> FALSE]
    /\ cancelled = [r \in Requests |-> FALSE]
    /\ store = [r \in Requests |-> None]
    /\ items = [r \in Requests |-> "none"]

Heard(r, type) == \E i \in DOMAIN wire[r] : wire[r][i].type = type

\* The client knows the response's id and may name it.
KnowsId(r) == Heard(r, "created") \/ Heard(r, "body")

Go(r, p) == pc' = [pc EXCEPT ![r] = p]

\* The server drops what is sent to a client that has gone.
Tell(r, s) == wire' = [wire EXCEPT ![r] = IF gone[r] THEN @ ELSE @ \o s]

(***************************************************************************)
(* The request before its upstream.                                        *)
(***************************************************************************)

\* A client posts a request; it may name a response it knows, which only a chat
\* looks up (the CLI adapters echo the name).
Ask(r) ==
    /\ pc[r] = "new"
    /\ Go(r, "gate")
    /\ \E s \in BOOLEAN : streamed' = [streamed EXCEPT ![r] = s]
    /\ \E p \in {{}} \cup {{q} : q \in {q \in Requests : kind = "chat" /\ KnowsId(q)}} :
          previous' = [previous EXCEPT ![r] = p]
    /\ UNCHANGED <<kind, carried, form, run, alive, text, out, client, faults, kept>>

\* A body that is no request, a feature the provider does not support, or a
\* credential the adapter does not find.
Refuse(r) ==
    /\ pc[r] = "gate"
    /\ Go(r, "over")
    /\ Tell(r, <<Error>>)
    /\ UNCHANGED <<kind, request, run, alive, text, out, started, sawDone, faults, kept>>

\* A prior turn that is looked up among the unary responses only.
PartialPriorTurn(r) ==
    IF kind = "chat" /\ previous[r] # {} /\ ~streamed[r]
    THEN LET q == CHOOSE q \in previous[r] : TRUE
         IN  IF store[q] = None THEN <<>> ELSE store[q].text
    ELSE <<>>

\* DeepSeekAdapter._prior_turn: the named turn, and nothing when it is not kept.
PriorTurn(r) ==
    IF kind = "chat" /\ previous[r] # {}
    THEN LET q == CHOOSE q \in previous[r] : TRUE
         IN  IF store[q] = None THEN <<>> ELSE store[q].text
    ELSE <<>>

FirstWait(r) == CASE kind = "buffered" -> "thread"
                  [] kind = "preflight" -> IF streamed[r] THEN "first" ELSE "thread"
                  [] kind = "chat" -> IF streamed[r] THEN "first" ELSE "call"

\* The compression seam has answered; nothing waits until the upstream is reached.
Open(r) ==
    /\ pc[r] = "gate"
    /\ \E f \in Forms : form' = [form EXCEPT ![r] = f]
    /\ carried' = [carried EXCEPT ![r] = PriorTurn(r)]
    /\ Go(r, FirstWait(r))
    /\ run' = [run EXCEPT ![r] = 1]
    /\ alive' = [alive EXCEPT ![r] = {1}]
    /\ UNCHANGED <<kind, streamed, previous, text, out, client, faults, kept>>

(***************************************************************************)
(* The upstream's answers.                                                 *)
(***************************************************************************)

Keep(r, t) == store' = [store EXCEPT ![r] = Turn(t, form[r])]

RunEnds(r) == alive' = [alive EXCEPT ![r] = @ \ {run[r]}]

\* create_response: the turn is stored, the original input remembered, the body sent.
AnswerUnary(r, t) ==
    /\ Go(r, "over")
    /\ items' = [items EXCEPT ![r] = "original"]
    /\ Tell(r, <<Body(t)>>)
    /\ UNCHANGED <<out, started, sawDone>>

\* replay_turn
Replay(r, t) ==
    /\ Go(r, "send")
    /\ Keep(r, t)
    /\ out' = [out EXCEPT ![r] = <<Created, Delta(t[1]), Completed(t)>>]
    /\ UNCHANGED <<client, items>>

\* The one-shot run in its thread, or the unary upstream call, returns.
WholeTurn(r) ==
    /\ pc[r] \in {"thread", "call"}
    /\ RunEnds(r)
    /\ \E f \in Fragments(r) :
          /\ text' = [text EXCEPT ![r] = <<f>>]
          /\ IF streamed[r] THEN Replay(r, <<f>>)
             ELSE Keep(r, <<f>>) /\ AnswerUnary(r, <<f>>)
    /\ UNCHANGED <<kind, request, run, faults>>

\* It fails, or its deadline passes: nothing was sent, so the client gets an error.
WholeTurnFails(r) ==
    /\ pc[r] \in {"thread", "call"}
    /\ RunEnds(r)
    /\ Go(r, "over")
    /\ Tell(r, <<Error>>)
    /\ UNCHANGED <<kind, request, run, text, out, started, sawDone, faults, kept>>

\* The stream's first chunk: a fragment, or for a chat one without text.
First(r) ==
    /\ pc[r] = "first"
    /\ Go(r, "send")
    /\ \/ \E f \in Fragments(r) :
             /\ text' = [text EXCEPT ![r] = <<f>>]
             /\ out' = [out EXCEPT ![r] = <<Created, Delta(f)>>]
             /\ UNCHANGED alive
       \/ /\ kind = "chat"
          /\ \/ UNCHANGED alive
             \/ RunEnds(r)
          /\ out' = [out EXCEPT ![r] = <<Created>>]
          /\ UNCHANGED text
    /\ UNCHANGED <<kind, request, run, client, faults, kept>>

\* claude: whatever goes wrong before the first fragment starts the buffered
\* run.  A first line that is no JSON leaves the first child to the finalizer.
FallBack(r) ==
    /\ Go(r, "thread")
    /\ run' = [run EXCEPT ![r] = 2]
    /\ \E left \in SUBSET {run[r]} :
          alive' = [alive EXCEPT ![r] = left \cup {2}]
    /\ UNCHANGED <<text, out, started, sawDone, wire>>

\* deepseek: priming raises, and the gateway has sent nothing yet.
PrimeFails(r) ==
    /\ Go(r, "over")
    /\ RunEnds(r)
    /\ Tell(r, <<Error>>)
    /\ UNCHANGED <<run, text, out, started, sawDone>>

FirstFails(r) ==
    /\ pc[r] = "first"
    /\ IF kind = "preflight" THEN FallBack(r) ELSE PrimeFails(r)
    /\ UNCHANGED <<kind, request, faults, kept>>

\* replay_incremental: one more delta.
Chunk(r) ==
    /\ pc[r] = "pull"
    /\ run[r] \in alive[r]
    /\ Len(text[r]) < MaxFragments
    /\ \E f \in Fragments(r) :
          /\ text' = [text EXCEPT ![r] = Append(@, f)]
          /\ out' = [out EXCEPT ![r] = <<Delta(f)>>]
    /\ Go(r, "send")
    /\ UNCHANGED <<kind, request, run, alive, client, faults, kept>>

\* A finalize that keeps the turn only after its last event went out.
TellThenKeep(r) ==
    /\ out' = [out EXCEPT ![r] = <<Completed(text[r])>>]
    /\ UNCHANGED store

\* finalize, put_response, then response.completed.
KeepThenTell(r) ==
    /\ Keep(r, text[r])
    /\ out' = [out EXCEPT ![r] = <<Completed(text[r])>>]

\* The stream ends: at its end of file (a nonzero exit after text included),
\* or at a chat's done chunk, which leaves the connection to the finalizer.
EndOfStream(r) ==
    /\ pc[r] = "pull"
    /\ \/ RunEnds(r)
       \/ kind = "chat" /\ UNCHANGED alive
    /\ KeepThenTell(r)
    /\ Go(r, "send")
    /\ UNCHANGED <<kind, request, run, text, client, faults, items>>

\* A failure after the first fragment that tries the buffered run as well.
StubbornFailure(r) ==
    /\ Go(r, "thread")
    /\ run' = [run EXCEPT ![r] = 2]
    /\ alive' = [alive EXCEPT ![r] = {2}]
    /\ UNCHANGED out

\* A transport error, the deadline, or a line that is no JSON; the last one
\* leaves the child to the finalizer.
MidStreamFailure(r) ==
    /\ Go(r, "tail")
    /\ out' = [out EXCEPT ![r] = FailureEvents]
    /\ \/ RunEnds(r)
       \/ kind = "preflight" /\ UNCHANGED alive
    /\ UNCHANGED run

StreamFails(r) ==
    /\ pc[r] = "pull"
    /\ run[r] \in alive[r]
    /\ MidStreamFailure(r)
    /\ UNCHANGED <<kind, request, text, client, faults, kept>>

(***************************************************************************)
(* _stream: what reaches the client.                                       *)
(***************************************************************************)

\* The first event carries the response's id: its original input is remembered
\* before the status line goes out.
Start(r) ==
    /\ pc[r] = "send"
    /\ ~started[r]
    /\ items' = [items EXCEPT ![r] = "original"]
    /\ started' = [started EXCEPT ![r] = TRUE]
    /\ Tell(r, <<Status>>)
    /\ UNCHANGED <<kind, pc, request, run, alive, text, out, sawDone, faults, store>>

Quotes(e) == e.type \in {"delta", "completed"} /\ Quoting(e.text)

\* Where the task goes when event e has been sent: to the upstream's next
\* chunk, or to the end, which adds [DONE] unless it saw one go by.
SendNext(r, e) ==
    LET rest == Tail(out[r])
        saw == sawDone[r] \/ Quotes(e)
    IN  IF e.type = "completed"
        THEN Go(r, "tail") /\ out' = [out EXCEPT ![r] = IF saw THEN <<End>> ELSE <<Done, End>>]
        ELSE Go(r, IF rest = <<>> THEN "pull" ELSE "send") /\ out' = [out EXCEPT ![r] = rest]

Send(r) ==
    /\ pc[r] = "send"
    /\ started[r]
    /\ LET e == Head(out[r])
       IN  /\ Tell(r, <<e>>)
           /\ sawDone' = [sawDone EXCEPT ![r] = @ \/ Quotes(e)]
           /\ SendNext(r, e)
    /\ UNCHANGED <<kind, request, run, alive, text, started, faults, kept>>

SendTail(r) ==
    /\ pc[r] = "tail"
    /\ Tell(r, <<Head(out[r])>>)
    /\ out' = [out EXCEPT ![r] = Tail(@)]
    /\ Go(r, IF Len(out[r]) = 1 THEN "over" ELSE "tail")
    /\ UNCHANGED <<kind, request, run, alive, text, started, sawDone, faults, kept>>

(***************************************************************************)
(* Clients that go, and the shutdown that cancels.                         *)
(***************************************************************************)

Faults == Cardinality({q \in Requests : gone[q]}) + Cardinality({q \in Requests : cancelled[q]})

Disconnect(r) ==
    /\ pc[r] \notin {"new", "over"}
    /\ ~gone[r]
    /\ Faults < MaxFaults
    /\ gone' = [gone EXCEPT ![r] = TRUE]
    /\ UNCHANGED <<kind, pc, request, run, alive, text, out, client, cancelled, kept>>

\* _run_lifespan cancels what is still active.  A cancelled read closes its
\* upstream; a thread runs on; between two events the generator is left to the
\* finalizer.
Cancel(r) ==
    /\ pc[r] \notin {"new", "over"}
    /\ Faults < MaxFaults
    /\ cancelled' = [cancelled EXCEPT ![r] = TRUE]
    /\ Go(r, "over")
    /\ IF pc[r] \in {"call", "first", "pull"} THEN RunEnds(r) ELSE UNCHANGED alive
    /\ UNCHANGED <<kind, request, run, text, out, client, gone, kept>>

\* The runs that some generator of the request's task still reads.
Read(r) == IF pc[r] \in Upstream \cup {"send"} THEN {run[r]} ELSE {}

\* A generator that went out of use keeps its upstream.
KeptByGenerator(r) == UNCHANGED alive

\* The event loop's hook closes a generator that went out of use, and with it
\* the child or the connection it holds; a thread's run ends by itself.
Abandoned(r) ==
    \E n \in alive[r] \ Read(r) : alive' = [alive EXCEPT ![r] = @ \ {n}]

Finalize(r) ==
    /\ alive[r] \ Read(r) # {}
    /\ Abandoned(r)
    /\ UNCHANGED <<kind, pc, request, run, text, out, client, faults, kept>>

(***************************************************************************)
(* The specification.                                                      *)
(***************************************************************************)

\* The event loop runs every task, every upstream answers, fails or meets its
\* deadline of 300 seconds.
Progress(r) ==
    \/ Refuse(r) \/ Open(r)
    \/ WholeTurn(r) \/ WholeTurnFails(r)
    \/ First(r) \/ FirstFails(r)
    \/ Chunk(r) \/ EndOfStream(r) \/ StreamFails(r)
    \/ Start(r) \/ Send(r) \/ SendTail(r)

Next == \E r \in Requests :
    \/ Ask(r) \/ Progress(r)
    \/ Disconnect(r) \/ Cancel(r) \/ Finalize(r)

Spec == Init /\ [][Next]_vars

FairSpec ==
    /\ Spec
    /\ \A r \in Requests : WF_vars(Progress(r)) /\ WF_vars(Finalize(r))

(***************************************************************************)
(* Properties.                                                             *)
(***************************************************************************)

Texts == Seq(Fragment)
Events == [type : {"200", "created", "delta", "completed", "failed", "[DONE]", "end", "error", "body"},
           text : Texts]

\* Every variable has its type, at most two runs serve a request, and no run
\* without a request holds a child.
TypeOK ==
    /\ kind \in Kinds
    /\ pc \in [Requests -> Points]
    /\ streamed \in [Requests -> BOOLEAN]
    /\ previous \in [Requests -> SUBSET Requests]
    /\ carried \in [Requests -> Texts]
    /\ form \in [Requests -> AllForms]
    /\ run \in [Requests -> 0..2]
    /\ alive \in [Requests -> SUBSET (1..2)]
    /\ \A r \in Requests : alive[r] \subseteq 1..run[r]
    /\ text \in [Requests -> Texts]
    /\ out \in [Requests -> Seq(Events)]
    /\ started \in [Requests -> BOOLEAN]
    /\ sawDone \in [Requests -> BOOLEAN]
    /\ wire \in [Requests -> Seq(Events)]
    /\ gone \in [Requests -> BOOLEAN]
    /\ cancelled \in [Requests -> BOOLEAN]
    /\ store \in [Requests -> {None} \cup [turn : {"kept"}, text : Texts, items : AllForms]]
    /\ items \in [Requests -> {"none"} \cup AllForms]

Types(r) == [i \in DOMAIN wire[r] |-> wire[r][i].type]
DeltasOf(s) == FlattenSeq([i \in DOMAIN s |-> IF s[i].type = "delta" THEN s[i].text ELSE <<>>])

\* What event e, heard by the client of r, makes it expect of the gateway.
Answerable(r, e) ==
    /\ e.type \in {"created", "body"} => items[r] = "original"
    /\ e.type = "completed" => store[r] # None /\ store[r].text = e.text
    /\ e.type = "body" => store[r] # None /\ Shown(store[r].text) = e.text

\* What a client was told can be asked for: the id it knows answers with the
\* input it sent, not the compressed one, and a turn it was told is complete is
\* in the store with the very text it heard, whether it came as a replay, after a
\* fallback or in fragments, or as one body, which shows it without its reasoning.
HeardIsKept ==
    \A r \in Requests : \A i \in DOMAIN wire[r] :
        /\ Answerable(r, wire[r][i])
        /\ wire[r][i].type = "completed" => DeltasOf(wire[r]) = wire[r][i].text

\* What a client hears is always the beginning of one well-formed answer: an
\* error or a body and nothing else, or 200, created, deltas, at most one
\* verdict, [DONE] at most once, and nothing after the end.
WellFormed(t) ==
    IF \E i \in DOMAIN t : t[i] \in {"error", "body"} THEN Len(t) = 1
    ELSE /\ \A i \in DOMAIN t : (t[i] = "200") = (i = 1) /\ (t[i] = "created") = (i = 2)
         /\ \A i \in DOMAIN t : t[i] \in {"completed", "failed"} =>
                \A j \in DOMAIN t : j > i => t[j] \in {"[DONE]", "end"}
         /\ \A i \in DOMAIN t : t[i] = "[DONE]" =>
                t[i - 1] \in {"completed", "failed"} /\ \A j \in DOMAIN t : j > i => t[j] = "end"
         /\ \A i \in DOMAIN t : t[i] = "end" =>
                i = Len(t) /\ t[i - 1] \in {"completed", "failed", "[DONE]"}

AnswersAreWellFormed == \A r \in Requests : WellFormed(Types(r))

\* A chat that names a turn whose completion its client has heard carries that
\* turn upstream, whole.
ChainCarriesThePast ==
    [][\A r, q \in Requests :
          (kind = "chat" /\ pc[r] = "gate" /\ run'[r] = 1 /\ q \in previous[r]
              /\ (Heard(q, "completed") \/ Heard(q, "body")))
          => carried'[r] = store[q].text]_vars

\* A request is run a second time only while no byte of an answer has been sent
\* for it and no fragment of the first run was taken.
SecondRunOnlyInSilence ==
    [][\A r \in Requests : run'[r] = 2 /\ run[r] = 1 => ~started[r] /\ text[r] = <<>>]_vars

\* Every request comes to its end, whether its client stays or goes and whatever
\* its upstream does, and then leaves no child process and no connection behind.
RequestsEndAndLeaveNothing ==
    \A r \in Requests : pc[r] # "new" ~> (pc[r] = "over" /\ alive[r] = {})
=============================================================================
