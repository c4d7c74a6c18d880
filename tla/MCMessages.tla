----------------------------- MODULE MCMessages -----------------------------
(* The Messages surface: its catalog, or one request.                       *)
EXTENDS MessagesSurface, MessagesRequest

CONSTANTS g1, g2, codex, copilot, gpt, opus, k3, new, shout, t, u

VARIABLE part
vars == <<part, catalogVars, requestVars>>

MCConfigRows == {<<opus, Claude>>}
MCSeeds == {<<gpt, codex>>, <<k3, Kimi>>}
MCCurated == {<<copilot, gpt>>}
MCOffers == [b \in Adapters |-> CASE b = Ollama -> {{new}, {new, shout}} [] b = copilot -> {{gpt}, {new}} [] OTHER -> {{k3}}]
MCCaseFolded(m) == IF m = shout THEN new ELSE m

Message(content) == [content |-> content]
Text(x) == Block("text", x, {})
Image == Block("image", None, {})
Cached(x) == Block("text", x, {<<0, "cache_control">>})
Result(marks) == Block("tool_result", u, marks)
MCBodies ==
    {[params |-> p, system |-> s, messages |-> ms] :
        p \in {{}, {"thinking", "cache_control", "tools"}},
        s \in {<<>>, <<t>>, <<t, u>>},
        ms \in {<<Message(<<Image, Text(t), Cached(u)>>)>>,
                <<Message(<<Text(t), Block("tool_use", None, {})>>),
                  Message(<<Result({<<1, "cache_control">>, <<1, "thinking">>}), Text(u)>>)>>,
                <<Message(<<Block("thinking", None, {}), Text(t)>>),
                  Message(<<Text(t), Result({<<1, "image">>})>>)>>,
                <<Message(<<Block("thinking", None, {}), Text(u)>>),
                  Message(<<Result({<<2, "cache_control">>, <<2, "image">>})>>)>>}}

Init == part \in {"catalog", "request"} /\ CatalogInit /\ RequestInit
Next == \/ part = "catalog" /\ CatalogNext /\ UNCHANGED <<part, requestVars>>
        \/ part = "request" /\ RequestNext /\ UNCHANGED <<part, catalogVars>>
Spec == Init /\ [][Next]_vars
=============================================================================
