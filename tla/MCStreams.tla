------------------------------ MODULE MCStreams ------------------------------
(***************************************************************************)
(* How the gateway's adapters answer a turn, one way at a time: two turns  *)
(* of the CLI adapters with their quota, the turns of one relaying adapter *)
(* with its response store, and the chat turns that put an answer together *)
(* from deltas.  The ways share no state; the others stay at rest.         *)
(***************************************************************************)
EXTENDS CliTurns, Relay, ChatMessages

CONSTANTS t1, t2, a, b, x, y

VARIABLE part
streamVars == <<part, cliVars, relayVars, chatVars>>

Call(id) == Item("function_call", None, id, None)
Result(id) == Item("function_call_output", None, id, y)
Says(role) == Item("message", role, None, x)
Reasons == Item("reasoning", None, None, None)

\* Plain input, a tool loop: two parallel calls whose results come in the
\* other order, and a call that a reasoning item and a message follow, and one
\* with a call and a result whose ids are missing.
MCInputs ==
    {<<Says("user"), Says("assistant")>>,
     <<Call(a), Call(b), Result(b), Result(a), Says("user"), Call(a), Reasons, Call(b), Says("assistant")>>,
     <<Call(a), Call(None), Call(b), Result(None), Call(a), Result(b)>>}

StreamsInit ==
    /\ part \in {"cli", "relay", "chat"}
    /\ CliInit /\ RelayInit /\ ChatInit
    /\ part # "relay" => relay.adapter = "openai"
    /\ part # "cli" => \A t \in Turns : turn[t].provider = "auggie" /\ ~turn[t].streams

StreamsNext ==
    /\ UNCHANGED part
    /\ \/ part = "cli" /\ CliNext /\ UNCHANGED <<relayVars, chatVars>>
       \/ part = "relay" /\ RelayNext /\ UNCHANGED <<cliVars, chatVars>>
       \/ part = "chat" /\ ChatNext /\ UNCHANGED <<cliVars, relayVars>>

\* The fairness of CliTurns while its turns are taken.
StreamsFairness ==
    \A t \in Turns : /\ WF_streamVars(part = "cli" /\ CliStep(t) /\ UNCHANGED <<part, relayVars, chatVars>>)
                     /\ WF_streamVars(part = "cli" /\ Collect(t) /\ UNCHANGED <<part, relayVars, chatVars>>)

StreamsSpec == StreamsInit /\ [][StreamsNext]_streamVars /\ StreamsFairness

\* Every turn is answered and none of its processes outlives it for ever
\* (cli_spine.py, stream_bounded_cli; adapters' _stream_response).
CliTurnsEndAndAreReaped == part = "cli" => TurnsEndAndAreReaped
=============================================================================
