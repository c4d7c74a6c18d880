---------------------------- MODULE ModelRouting ----------------------------
(***************************************************************************)
(* protocols/surface_registry.py: which backend of the Messages surface    *)
(* serves a requested model, and which ids GET /v1/models lists.           *)
(*                                                                         *)
(* A requested id is what its spelling means once it is stripped, lowered  *)
(* and freed of custom/: a bare model, provider/model, or a discovery      *)
(* alias anthropic-provider-model.  Providers and models are model values: *)
(* no provider's name is a prefix of another's, so a spelling has one      *)
(* reading.                                                                *)
(***************************************************************************)
EXTENDS FiniteSets, PyNone

CONSTANTS
    Backends,       \* SURFACE_BACKENDS["anthropic"]
    Models,
    ConfigRows,     \* <<model, backend>> of litellm_config, by name family
    Seeds,          \* <<model, backend>> of _CODEX_MODELS and _KIMI_MODELS
    KimiModels,     \* _KIMI_MODELS
    Catalog,        \* models of _CATALOG_OWNING_BACKENDS: opencode's
    Curated,        \* <<backend, model>> of _DISCOVERY_ROWLESS_MODELS
    Claude, Kimi, Ollama, OpenCode      \* the backends with rules of their own

Bare(m) == [form |-> "bare", provider |-> None, model |-> m]
Qualified(p, m) == [form |-> "qualified", provider |-> p, model |-> m]
Alias(p, m) == [form |-> "alias", provider |-> p, model |-> m]
\* Providers that the surface does not have may be asked for, too.
Ids == [form : {"bare"}, provider : {None}, model : Models]
       \cup [form : {"qualified", "alias"}, provider : Backends \cup {None},
             model : Models]

-----------------------------------------------------------------------------
(* The index of bare ids, built once at import.                             *)

\* What config rows and static seeds claim; a second backend for a model is a
\* ModelIndexConflictError, and the gateway does not start.
Claims == ConfigRows \cup Seeds
NoConflict == \A c, d \in Claims : c[1] = d[1] => c[2] = d[2]

\* A catalog owner defers to the incumbents.
Claimed == {c[1] : c \in Claims}

\* A mutant of IndexedRows: a catalog takes the ids that it contests.
GreedyIndexedRows ==
    {c \in Claims : c[1] \notin Catalog} \cup {<<m, OpenCode>> : m \in Catalog}

IndexedRows == Claims \cup {<<m, OpenCode>> : m \in Catalog \ Claimed}

IndexedTo(m) ==
    IF \E row \in IndexedRows : row[1] = m
    THEN (CHOOSE row \in IndexedRows : row[1] = m)[2] ELSE None
RowOwners == {row[2] : row \in IndexedRows}

\* cross_check_anthropic_models, run at import
NoDrift == RowOwners \subseteq Backends

ASSUME RegistryLoads == NoConflict /\ NoDrift
ASSUME BackendsOK == {Claude, Kimi, Ollama, OpenCode} \subseteq Backends /\ None \notin Backends

-----------------------------------------------------------------------------
(* Resolution.                                                              *)

\* _resolve_qualified: the catalog is asked before the rows, because its
\* contested ids are indexed to their incumbents.
ResolveQualified(p, m) ==
    CASE p \notin Backends \/ p = Ollama -> None
      [] p = OpenCode -> IF m \in Catalog THEN p ELSE None
      [] p \in RowOwners \ {OpenCode} -> IF IndexedTo(m) = p THEN p ELSE None
      [] OTHER -> p

\* _resolve_static_discovery_alias
ResolveStaticAlias(p, m) ==
    IF p \in RowOwners THEN ResolveQualified(p, m)
    ELSE IF <<p, m>> \in Curated THEN p ELSE None

\* resolve_anthropic_backend: an alias routes if the static tables know it or
\* a listing minted it.  An alias of no known provider reads as a bare id
\* that the index does not have.
Resolve(id, aliases) ==
    CASE id.form = "alias" ->
           IF id.provider \notin Backends THEN None
           ELSE IF ResolveStaticAlias(id.provider, id.model) # None
           THEN ResolveStaticAlias(id.provider, id.model)
           ELSE IF id \in aliases THEN id.provider ELSE None
      [] id.form = "qualified" -> ResolveQualified(id.provider, id.model)
      [] OTHER -> IndexedTo(id.model)

\* canonical_model_id: what the adapter is asked for, the id without its
\* provider; an id of an unknown provider stays as it is.
Canonical(id) ==
    IF id.form = "bare" \/ id.provider \notin Backends THEN id ELSE Bare(id.model)

-----------------------------------------------------------------------------
(* Listings.                                                                *)

Row(id, backend) == [id |-> id, backend |-> backend]

\* list_anthropic_surface_models
SurfaceRows == {Row(Bare(row[1]), row[2]) : row \in IndexedRows}

\* What may be minted an alias: ollama's never, of kimi's only its own.
Aliased(p, m) == p # Ollama /\ (p = Kimi => m \in KimiModels)

\* list_anthropic_discovery_aliases: the index but for claude, the curated
\* models of backends without rows, the whole catalog, and every model that
\* an adapter listed.
AliasRows(live) ==
    LET pairs == {<<row[2], row[1]>> : row \in {x \in IndexedRows : x[2] # Claude}}
                 \cup Curated
                 \cup ({OpenCode} \X Catalog)
                 \cup UNION {{b} \X live[b] : b \in Backends}
    IN {Row(Alias(x[1], x[2]), x[1]) : x \in {y \in pairs : Aliased(y[1], y[2])}}
=============================================================================
