---------------------------- MODULE ChatMessages ----------------------------
(***************************************************************************)
(* One turn over a chat-completions upstream (protocols/openai_chat.py and *)
(* replay.replay_incremental), as the deepseek, opencode and copilot       *)
(* adapters take it: the input items become chat messages, the deltas that *)
(* come back are put together, and the result becomes output items, which  *)
(* a later turn may name by previous_response_id.                          *)
(***************************************************************************)
EXTENDS Naturals, Sequences, FiniteSets, SequencesExt, FiniteSetsExt, Places, PyNone

CONSTANTS
    Inputs,         \* what a request may carry: sequences of items
    Indexes,        \* positions that an upstream gives to its tool calls
    CallIds,
    Pieces,         \* fragments of text or of a call's arguments
    MaxDeltas       \* bound on the deltas of one answer

ASSUME IndexesOK == Indexes \subseteq Nat /\ None \notin Nat
ASSUME InputsOK == \A items \in Inputs : items \in Seq(Range(items))

VARIABLE chat
chatVars == <<chat>>

\* Items of a request: a message with its role, a function_call, a
\* function_call_output, or one that is skipped.
Item(type, role, id, text) == [type |-> type, role |-> role, id |-> id, text |-> text]
\* Messages of a chat: calls for the assistant, id for a tool's result.
Message(role, text, calls, id) == [role |-> role, text |-> text, calls |-> calls, id |-> id]
Delta(index, id, piece) == [index |-> index, id |-> id, piece |-> piece]

ChatInit ==
    chat = [phase |-> "idle", input |-> <<>>, prior |-> <<>>, messages |-> <<>>, text |-> <<>>,
            calls |-> <<>>, last |-> None, deltas |-> <<>>, output |-> <<>>]

-----------------------------------------------------------------------------
(* The request.                                                             *)

HasToolItems(items) == \E i \in DOMAIN items : items[i].type \in {"function_call", "function_call_output"}

IsCall(item) == item.type = "function_call" /\ item.id # None
IsResult(item) == item.type = "function_call_output" /\ item.id # None

FlushPending(w) ==
    IF w.pending = <<>> THEN w
    ELSE [out |-> Append(w.out, Message("assistant", None, w.pending, None)), pending |-> <<>>]

\* A mutant of WalkItem: results do not flush the calls that precede them.
UnflushedWalkItem(w, item) ==
    CASE IsCall(item) -> [w EXCEPT !.pending = Append(@, item.id)]
      [] item.type = "function_call" /\ ~IsCall(item) -> w
      [] IsResult(item) ->
            [w EXCEPT !.out = Append(@, Message("tool", item.text, <<>>, item.id))]
      [] item.type = "message" ->
            [FlushPending(w) EXCEPT !.out = Append(@, Message(item.role, item.text, <<>>, None))]
      [] OTHER -> FlushPending(w)

\* Calls wait for the first item that is not a call, skipped ones included;
\* a call without an id is passed over, and a result without one skipped.
WalkItem(w, item) ==
    LET flushed == FlushPending(w)
    IN CASE IsCall(item) -> [w EXCEPT !.pending = Append(@, item.id)]
         [] item.type = "function_call" /\ ~IsCall(item) -> w
         [] IsResult(item) ->
               [flushed EXCEPT !.out = Append(@, Message("tool", item.text, <<>>, item.id))]
         [] item.type = "message" ->
               [flushed EXCEPT !.out = Append(@, Message(item.role, item.text, <<>>, None))]
         [] OTHER -> flushed

WalkInputItems(items) == FlushPending(FoldLeft(WalkItem, [out |-> <<>>, pending |-> <<>>], items)).out

\* Without tool items the whole input is one user message of labelled parts.
FlattenInput(items) ==
    LET spoken == SelectSeq(items, LAMBDA item : item.text # None)
    IN [i \in DOMAIN spoken |-> <<spoken[i].role, spoken[i].text>>]

BuildMessages(items, prior) ==
    prior \o IF HasToolItems(items) THEN WalkInputItems(items)
             ELSE IF FlattenInput(items) = <<>> THEN <<>>
             ELSE <<Message("user", FlattenInput(items), <<>>, None)>>

\* DeepSeek and OpenCode put the text of the turn that previous_response_id
\* names before the input; its calls are left out, copilot leaves it all out.
PriorTurns == {<<>>} \cup (IF chat.phase = "stored" THEN {<<Message("assistant", chat.text, <<>>, None)>>}
                           ELSE {})

Ask(items, prior) ==
    /\ chat.phase \in {"idle", "stored"}
    /\ chat' = [phase |-> "streaming", input |-> items, prior |-> prior,
                messages |-> BuildMessages(items, prior), text |-> <<>>, calls |-> <<>>,
                last |-> None, deltas |-> <<>>, output |-> <<>>]

-----------------------------------------------------------------------------
(* The answer.                                                              *)

\* A delta without an index continues the call that was seen last.
IndexOf(d) == IF d.index # None THEN d.index
              ELSE IF chat.last = None THEN Cardinality(DOMAIN chat.calls) ELSE chat.last

Slot(index) == IF index \in DOMAIN chat.calls THEN chat.calls[index] ELSE [id |-> None, arguments |-> <<>>]

Accumulated(index, d) ==
    [id |-> IF d.id # None THEN d.id ELSE Slot(index).id,
     arguments |-> Append(Slot(index).arguments, d.piece)]

\* `deltas` remembers the deltas of calls, which the code forgets.
Receives == chat.phase = "streaming" /\ Len(chat.text) + Len(chat.deltas) < MaxDeltas

CallDelta(d) ==
    /\ Receives
    /\ LET index == IndexOf(d)
       IN chat' = [chat EXCEPT !.calls = [i \in DOMAIN @ \cup {index} |->
                                             IF i = index THEN Accumulated(index, d) ELSE @[i]],
                               !.last = index, !.deltas = Append(@, d)]

TextDelta(piece) ==
    /\ Receives
    /\ chat' = [chat EXCEPT !.text = Append(@, piece)]

\* finalize and _map_completion: one message, then each call by its index.
Finish ==
    /\ chat.phase = "streaming"
    /\ LET indexes == DOMAIN chat.calls
       IN chat' = [chat EXCEPT !.phase = "stored",
                       !.output = <<[text |-> chat.text]>> \o
                           [n \in 1..Cardinality(indexes) |-> chat.calls[Nth(indexes, n)]]]

ChatNext ==
    \/ \E items \in Inputs : \E prior \in PriorTurns : Ask(items, prior)
    \/ \E index \in Indexes \cup {None}, id \in CallIds \cup {None}, piece \in Pieces :
          CallDelta(Delta(index, id, piece))
    \/ \E piece \in Pieces : TextDelta(piece)
    \/ Finish

-----------------------------------------------------------------------------
Said(m) == IF m.calls # <<>> THEN [i \in DOMAIN m.calls |-> <<"call", m.calls[i]>>]
           ELSE IF m.id # None THEN <<<<"result", m.id, m.text>>>>
           ELSE <<<<m.role, m.text>>>>
Meant(item) == CASE IsCall(item) -> <<<<"call", item.id>>>>
                 [] IsResult(item) -> <<<<"result", item.id, item.text>>>>
                 [] item.type = "message" -> <<<<item.role, item.text>>>>
                 [] OTHER -> <<>>

\* A tool loop that goes upstream says what the request said, in its order:
\* no call, result or text is lost, doubled or moved, so that each result
\* comes after its call if it did in the request (openai_chat.py:58).
ChatKeepsOrder ==
    chat.phase # "idle" /\ HasToolItems(chat.input) =>
        LET new == SubSeq(chat.messages, Len(chat.prior) + 1, Len(chat.messages))
        IN FlattenSeq([i \in DOMAIN new |-> Said(new[i])])
           = FlattenSeq([i \in DOMAIN chat.input |-> Meant(chat.input[i])])

\* The call that delta i is part of: the one it names by its position, or else
\* the one of the last delta before it.
Owner(i) ==
    LET named == {j \in 1..i : chat.deltas[j].index # None}
    IN IF named = {} THEN 0 ELSE chat.deltas[Max(named)].index

\* Every call of an answer is given back once, in the order of the positions,
\* with all of its own fragments in their order and none of another's,
\* however the deltas of parallel calls are mixed (replay.py, tool_calls_buffer).
CallsAreWhole ==
    chat.phase = "stored" =>
        LET owners == {Owner(i) : i \in DOMAIN chat.deltas}
        IN /\ Len(chat.output) = Cardinality(owners) + 1
           /\ \A o \in owners :
                 LET own == {i \in DOMAIN chat.deltas : Owner(i) = o}
                     arguments == chat.output[Place(owners, o) + 1].arguments
                 IN /\ Len(arguments) = Cardinality(own)
                    /\ \A i \in own : arguments[Place(own, i)] = chat.deltas[i].piece

\* "Consecutive function_call items collapse into ONE assistant message ...
\* Reasoning items and any unknown types are skipped" (openai_chat.py:66): so
\* no two assistant messages with calls stand side by side.
ParallelCallsAreOneMessage ==
    \A i \in 1..(Len(chat.messages) - 1) :
        chat.messages[i].calls = <<>> \/ chat.messages[i + 1].calls = <<>>

\* A tool loop goes up, and a tool call comes down, whole and in order.
ChatIsWhole == ChatKeepsOrder /\ CallsAreWhole

=============================================================================
