---------------------------- MODULE CodexConfig ----------------------------
(***************************************************************************)
(* The text of Codex's config.toml as codex_sync.py rewrites it.  The file *)
(* is the user's: the sync works on its lines, never on the parsed         *)
(* document, so that comments and order survive.  It adds the default      *)
(* model and the provider tables that are missing, and it removes what     *)
(* older versions of it wrote: three blocks between sentinel comments, and *)
(* the overlay tables of the profiles block, whose sentinels may be gone.  *)
(*                                                                         *)
(* A text is a sequence of lines <<kind, of>>:                             *)
(*   "user"    a line of the user's            "model"   `model = ...'     *)
(*   "begin", "end"   the sentinels of block `of'                          *)
(*   "table"   [model_providers.reverso_<of>], or a table of the user's    *)
(*   "overlay" [model_providers.reverso_<of>__<model>]                     *)
(*   "env_key", "bearer", "wire_api"   the keys of a provider table        *)
(***************************************************************************)
EXTENDS SequencesExt, FiniteSetsExt, Places

CONSTANTS
    Claude,         \* the prefix whose table carries a bearer token
    DefaultModel    \* CODEX_DEFAULT_MODEL

Line(kind, of) == <<kind, of>>

IsHeader(line) == line[1] \in {"table", "overlay"}

\* The first index from i on with one of the lines, or 0: only whole lines count.
Find(text, lines, i) ==
    LET hits == {j \in i..Len(text) : text[j] \in lines} IN IF hits = {} THEN 0 ELSE Min(hits)

\* The first header after index i, or the end of the text.
NextHeader(text, i) ==
    LET hits == {j \in (i + 1)..Len(text) : IsHeader(text[j])} IN
    IF hits = {} THEN Len(text) + 1 ELSE Min(hits)

\* The lines at some of the indices.
Keep(text, indices) ==
    LET kept == indices \cap DOMAIN text IN [k \in 1..Cardinality(kept) |-> text[Nth(kept, k)]]

\* _ensure_default_model: a key after the first header belongs to a table.
EnsureDefaultModel(text) ==
    LET root == NextHeader(text, 0) IN
    IF \E i \in 1..(root - 1) : text[i][1] = "model" THEN text
    ELSE InsertAt(text, root, Line("model", DefaultModel))

-----------------------------------------------------------------------------
(* What older versions wrote *)

\* A mutant of StripOverlays: an overlay reaches to the end of the text.
StripToTheEnd(text) ==
    Keep(text, {i \in 1..Len(text) : ~\E j \in 1..i : text[j][1] = "overlay"})

\* An overlay reaches from its header to the next header, whose ever that is.
StripOverlays(text) ==
    Keep(text, {i \in 1..Len(text) : ~\E j \in 1..i : text[j][1] = "overlay" /\ NextHeader(text, j) > i})

StripLoneEnd(text, b) ==
    LET i == Find(text, {Line("end", b)}, 1) IN IF i = 0 THEN text ELSE RemoveAt(text, i)

\* Where block b begins and ends.
BlockStart(text, b) == Find(text, {Line("begin", b)}, 1)
BlockEnd(text, b) == Find(text, {Line("end", b)}, BlockStart(text, b) + 1)

\* A block that was begun and never ended may hold anything: the sync refuses.
Unended(text, b) == BlockStart(text, b) # 0 /\ BlockEnd(text, b) = 0

\* _strip_managed_block: the first block; the overlays only when no block begins.
StripBlock(text, b) ==
    CASE BlockStart(text, b) # 0 ->
           SubSeq(text, 1, BlockStart(text, b) - 1) \o SubSeq(text, BlockEnd(text, b) + 1, Len(text))
      [] BlockStart(text, b) = 0 /\ b = "profiles" -> StripLoneEnd(StripOverlays(text), b)
      [] OTHER -> text

-----------------------------------------------------------------------------
(* What it writes today *)

\* TOML allows a table once; a second one makes the text unparsable.
Parses(text) == \A i, j \in 1..Len(text) : IsHeader(text[i]) /\ text[i] = text[j] => i = j

\* _gateway_provider_table.
ProviderTable(p) ==
    <<Line("table", p)>> \o (IF p = Claude THEN <<Line("bearer", p)>> ELSE <<>>) \o <<Line("wire_api", p)>>

HasTable(text, p) == \E i \in 1..Len(text) : text[i] = Line("table", p)

\* _ensure_claude_provider_bearer: a fixed token takes the place of an env_key.
EnsureBearer(text) ==
    LET header == Find(text, {Line("table", Claude)}, 1)
        last == NextHeader(text, header) - 1
        table == SubSeq(text, header + 1, last)
        body == Keep(table, {i \in DOMAIN table : table[i][1] # "env_key"})
        wire == Find(body, {Line("wire_api", Claude)}, 1)
        at == IF wire = 0 THEN Len(body) + 1 ELSE wire
        bearer == IF \E i \in 1..Len(body) : body[i][1] = "bearer" THEN body
                  ELSE InsertAt(body, at, Line("bearer", Claude))
    IN IF header = 0 THEN text
       ELSE SubSeq(text, 1, header) \o bearer \o SubSeq(text, last + 1, Len(text))

\* _ensure_gateway_provider_tables: one more block with what is missing.
EnsureTables(text, prefixes) ==
    LET missing == SetToSeq({p \in prefixes : ~HasTable(text, p)})
        tables == FlattenSeq([i \in 1..Len(missing) |-> ProviderTable(missing[i])])
    IN EnsureBearer(IF missing = <<>> THEN text
                    ELSE text \o <<Line("begin", "gateway")>> \o tables \o <<Line("end", "gateway")>>)

Stripped(text) ==
    StripBlock(StripBlock(StripBlock(EnsureDefaultModel(text), "catalog"), "nux"), "profiles")

\* The config lines of _sync_unlocked.
Rewritten(text, prefixes) == EnsureTables(Stripped(text), prefixes)

\* RuntimeError: an unended block, or a text that does not parse.
RewriteRefused(text) ==
    LET t1 == EnsureDefaultModel(text)
        t2 == StripBlock(t1, "catalog")
        t3 == StripBlock(t2, "nux")
    IN \/ Unended(t1, "catalog")
       \/ Unended(t2, "nux")
       \/ Unended(t3, "profiles")
       \/ ~Parses(Stripped(text))
=============================================================================
