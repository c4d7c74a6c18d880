--------------------------- MODULE MessagesSurface ---------------------------
(***************************************************************************)
(* protocols/anthropic_app.py: how AnthropicMessagesApp lists models and   *)
(* resolves the backend of a request.                                      *)
(*                                                                         *)
(* GET /v1/models asks the adapters one by one in time, under a lock, and  *)
(* keeps what the last successful answers were; it mints the aliases that  *)
(* POST /v1/messages resolves.  Adapters change what they serve at any     *)
(* time and fail or time out at any time.  One step is what runs between   *)
(* two awaits.                                                             *)
(***************************************************************************)
EXTENDS ModelRouting, Naturals

CONSTANTS
    Adapters,       \* the backends that the app was built with
    Getters,        \* GET requests, each made once
    Offers,         \* Offers[b]: the sets of models that b may list
    CaseFolded(_),  \* str.casefold of a raw model id
    MaxChanges      \* bound on the changes of what adapters serve

ASSUME AdaptersOK == Adapters \subseteq Backends
ASSUME GettersOK == None \notin Getters
ASSUME OffersOK == \A b \in Adapters : Offers[b] \subseteq SUBSET Models

VARIABLES
    live,           \* what each adapter would list now, and its version
    cache,          \* _adapter_model_cache, with the version that it came from
    aliases,        \* _discovery_aliases
    authority,      \* _ollama_alias_authority, as the set of its raw models
    gets,           \* the GET requests
    lock,           \* the GET that holds _model_catalog_lock
    shown           \* catalog -> rows of the last GET that answered for it

catalogVars == <<live, cache, aliases, authority, gets, lock, shown>>

All == "all"        \* no x-reverso-model-catalog header, or `all`
ASSUME AllIsNoBackend == All \notin Backends
Catalogs == {All} \cup Backends
Unlisted == [models |-> {}, version |-> 0]
Asked(c) == {b \in Adapters : c \in {All, b}}

CatalogInit ==
    /\ live \in [Adapters -> {[models |-> o, version |-> 1] : o \in UNION {Offers[b] : b \in Adapters}}]
    /\ \A b \in Adapters : live[b].models \in Offers[b]
    /\ cache = [b \in Backends |-> Unlisted]
    /\ aliases = {} /\ authority = {} /\ lock = None
    /\ gets = [g \in Getters |-> [phase |-> "idle", catalog |-> All, got |-> {}, left |-> {}]]
    /\ shown = [c \in Catalogs |-> {}]

CatalogTypeOK ==
    /\ \A b \in Adapters : live[b].models \in Offers[b] /\ live[b].version \in 1..MaxChanges + 1
    /\ \A b \in Backends : cache[b].models \subseteq Models /\ cache[b].version \in Nat
    /\ aliases \subseteq Ids /\ authority \subseteq Models
    /\ lock \in Getters \cup {None}
    /\ \A g \in Getters : gets[g].phase \in {"idle", "waiting", "asking", "done"}

Version(f) == [b \in DOMAIN f |-> f[b].version]

-----------------------------------------------------------------------------
(* The adapters' services.                                                  *)

Changes(b, models) ==
    /\ live[b].version <= MaxChanges
    /\ live' = [live EXCEPT ![b] = [models |-> models, version |-> @.version + 1]]
    /\ UNCHANGED <<cache, aliases, authority, gets, lock, shown>>

-----------------------------------------------------------------------------
(* GET /v1/models.                                                          *)

Get(g, catalog) ==
    /\ gets[g].phase = "idle"
    /\ gets' = [gets EXCEPT ![g].phase = "waiting", ![g].catalog = catalog]
    /\ UNCHANGED <<live, cache, aliases, authority, lock, shown>>

\* A mutant of Begin: refreshes are not serialized.
UnlockedBegin(g) ==
    /\ gets[g].phase = "waiting"
    /\ gets' = [gets EXCEPT ![g].phase = "asking", ![g].left = Asked(gets[g].catalog)]
    /\ UNCHANGED <<live, cache, aliases, authority, lock, shown>>

\* The lock is taken and asyncio.gather starts every listing.
Begin(g) ==
    /\ gets[g].phase = "waiting" /\ lock = None
    /\ lock' = g
    /\ gets' = [gets EXCEPT ![g].phase = "asking", ![g].left = Asked(gets[g].catalog)]
    /\ UNCHANGED <<live, cache, aliases, authority, shown>>

\* An adapter lists what it serves at that moment.
Lists(g, b) ==
    /\ gets[g].phase = "asking" /\ b \in gets[g].left
    /\ gets' = [gets EXCEPT ![g].left = @ \ {b}, ![g].got = @ \cup {<<b, live[b]>>}]
    /\ UNCHANGED <<live, cache, aliases, authority, lock, shown>>

\* It raises, or wait_for gives up after _MODEL_LIST_TIMEOUT_SECONDS.
ListingFails(g, b) ==
    /\ gets[g].phase = "asking" /\ b \in gets[g].left
    /\ gets' = [gets EXCEPT ![g].left = @ \ {b}]
    /\ UNCHANGED <<live, cache, aliases, authority, lock, shown>>

\* Raw Ollama ids that only differ in case make no alias, and neither does
\* any other one.
OllamaIds(models) ==
    IF \E m, n \in models : m # n /\ CaseFolded(m) = CaseFolded(n) THEN {} ELSE models

Merged(got) ==
    [b \in Backends |-> IF \E x \in got : x[1] = b
                        THEN (CHOOSE x \in got : x[1] = b)[2] ELSE cache[b]]
ModelsOf(f) == [b \in Backends |-> f[b].models]

\* The rows of a listing: of one provider only, or all but Ollama's.
Rows(catalog, models) ==
    IF catalog = Ollama
    THEN {Row(Alias(Ollama, m), Ollama) : m \in OllamaIds(models[Ollama])}
    ELSE {row \in SurfaceRows \cup AliasRows(models) : catalog \in {All, row.backend}}

\* A mutant of Minted: the aliases of this listing only.
NarrowMinted(catalog, models) == {row.id : row \in Rows(catalog, models)}

\* _discovery_aliases is made of every cached listing, whichever was asked.
Minted(catalog, models) == {row.id : row \in AliasRows(models)}

\* What follows the gather: caches, aliases, authority and answer.
Finish(g) ==
    /\ gets[g].phase = "asking" /\ gets[g].left = {}
    /\ cache' = Merged(gets[g].got)
    /\ LET models == ModelsOf(Merged(gets[g].got))
           catalog == gets[g].catalog
       IN /\ aliases' = Minted(catalog, models)
          /\ authority' = IF catalog = Ollama THEN OllamaIds(models[Ollama]) ELSE authority
          /\ shown' = [shown EXCEPT ![catalog] = Rows(catalog, models)]
    /\ gets' = [gets EXCEPT ![g].phase = "done", ![g].got = {}]
    /\ lock' = IF lock = g THEN None ELSE lock
    /\ UNCHANGED live

-----------------------------------------------------------------------------
(* What POST /v1/messages resolves to.                                      *)

\* _resolve_backend, and canonical_model_id for what the adapter is asked:
\* a profile's path pins its backend; the ollama catalog knows exact aliases.
\* The app answers 404 to None.
Route(profile, catalog, id) ==
    IF profile # None
    THEN IF profile \in Adapters \ {Ollama}
         THEN [backend |-> profile, model |-> Canonical(id)] ELSE None
    ELSE IF catalog = Ollama
    THEN IF id.form = "alias" /\ id.provider = Ollama /\ id.model \in authority
         THEN [backend |-> Ollama, model |-> Bare(id.model)] ELSE None
    ELSE IF Resolve(id, aliases) \in Adapters
         THEN [backend |-> Resolve(id, aliases), model |-> Canonical(id)] ELSE None

-----------------------------------------------------------------------------
CatalogNext ==
    \/ \E b \in Adapters : \E o \in Offers[b] : Changes(b, o)
    \/ \E g \in Getters :
          \/ \E c \in Catalogs : Get(g, c)
          \/ Begin(g) \/ Finish(g)
          \/ \E b \in Adapters : Lists(g, b) \/ ListingFails(g, b)

CatalogSpec == CatalogInit /\ [][CatalogNext]_catalogVars

-----------------------------------------------------------------------------
\* "A slow older GET cannot overwrite a newer catalog": what is cached for a
\* provider never goes back to an earlier state of its service
\* (anthropic_app.py:988).
CatalogNeverGoesBack ==
    [][\A b \in Backends : Version(cache')[b] >= Version(cache)[b]]_catalogVars

\* "The listing and the router remain in lockstep": every row of every
\* catalog's last listing resolves to the backend it was listed for, and the
\* adapter is asked for the listed model, until that provider's cached
\* listing changes (anthropic_app.py, _handle_models and _resolve_backend).
ShownRoutes ==
    \A c \in Catalogs : \A row \in shown[c] :
        row.backend \in Adapters
        /\ (row.id.form = "alias" /\ row.backend # Ollama
              => row.id \in {x.id : x \in AliasRows(ModelsOf(cache))})
        => Route(None, c, row.id) = [backend |-> row.backend, model |-> Bare(row.id.model)]

\* What adapters list never moves a model that the static tables know: "moving
\* a bare id would silently change which upstream subscription, which
\* credential and whose bill served the request" (surface_registry.py:137).
IncumbentsKeepTheirModels ==
    /\ \A id \in Ids : Resolve(id, {}) # None => Resolve(id, aliases) = Resolve(id, {})
    /\ \A claim \in Claims :
          Route(None, All, Bare(claim[1])) \in
              {None, [backend |-> claim[2], model |-> Bare(claim[1])]}

\* What is listed routes to whom it was listed for, and no listing moves a known model.
CatalogIsSound == ShownRoutes /\ IncumbentsKeepTheirModels
=============================================================================
