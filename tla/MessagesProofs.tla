--------------------------- MODULE MessagesProofs ----------------------------
(***************************************************************************)
(* Proofs about the Anthropic Messages surface: the catalog that it routes *)
(* by, what a request is translated to and projected back from, and the    *)
(* stream that it is answered with.                                        *)
(***************************************************************************)
EXTENDS MessagesSurface, MessagesRequest, DataLemmas, SequenceTheorems

(***************************************************************************)
(* MessagesSurface: for any adapters, models and getters of the catalog.   *)
(***************************************************************************)

\* The index gives each model that it has to one backend.
LEMMA IndexIsAFunction ==
    ASSUME NEW x \in IndexedRows PROVE IndexedTo(x[1]) = x[2]
<1>1. \A y, z \in IndexedRows : y[1] = z[1] => y[2] = z[2]
  <2> SUFFICES ASSUME NEW y \in IndexedRows, NEW z \in IndexedRows, y[1] = z[1] PROVE y[2] = z[2]
    OBVIOUS
  <2>1. \A w \in IndexedRows : w \in Claims \/ (w[1] \notin Claimed /\ w[2] = OpenCode)
    BY DEF IndexedRows
  <2>2. \A w \in Claims : w[1] \in Claimed
    BY DEF Claimed
  <2>3. \A w, v \in Claims : w[1] = v[1] => w[2] = v[2]
    BY RegistryLoads DEF NoConflict
  <2> QED BY <2>1, <2>2, <2>3
<1> DEFINE y == CHOOSE row \in IndexedRows : row[1] = x[1]
<1>2. y \in IndexedRows /\ y[1] = x[1]
  OBVIOUS
<1> QED BY <1>1, <1>2 DEF IndexedTo

\* A qualified id routes to the provider that it names, if at all.
LEMMA QualifiedIsItsProvider ==
    ASSUME NEW p, NEW m PROVE ResolveQualified(p, m) \in {p, None}
BY DEF ResolveQualified

\* An alias of the static tables routes to the provider that it names, if at all.
LEMMA StaticAliasIsItsProvider ==
    ASSUME NEW p, NEW m PROVE ResolveStaticAlias(p, m) \in {p, None}
BY QualifiedIsItsProvider DEF ResolveStaticAlias

\* An alias that was minted routes to its provider, and the adapter is asked for its model.
LEMMA AliasRoutes ==
    ASSUME NEW b \in Adapters, NEW m, NEW c \in Catalogs, c # Ollama, Alias(b, m) \in aliases
    PROVE  Route(None, c, Alias(b, m)) = [backend |-> b, model |-> Bare(m)]
<1>1. b \in Backends /\ b # None /\ Alias(b, m).form = "alias" /\ Alias(b, m).provider = b /\ Alias(b, m).model = m
  BY AdaptersOK, BackendsOK DEF Alias
<1>2. Resolve(Alias(b, m), aliases) = b
  BY <1>1, StaticAliasIsItsProvider DEF Resolve
<1>3. Canonical(Alias(b, m)) = Bare(m)
  BY <1>1 DEF Canonical
<1> QED BY <1>2, <1>3 DEF Route

\* A bare id of the index routes to its backend, if there is an adapter for it.
LEMMA IndexedRoutes ==
    ASSUME NEW x \in IndexedRows, NEW c \in Catalogs, c # Ollama
    PROVE  Route(None, c, Bare(x[1])) = IF x[2] \in Adapters THEN [backend |-> x[2], model |-> Bare(x[1])] ELSE None
<1>1. Resolve(Bare(x[1]), aliases) = x[2]
  BY IndexIsAFunction DEF Resolve, Bare
<1>2. Canonical(Bare(x[1])) = Bare(x[1])
  BY DEF Canonical, Bare
<1> QED BY <1>1, <1>2 DEF Route

\* What listings mint never moves a model that the static tables know.
LEMMA IncumbentsKeep == IncumbentsKeepTheirModels
<1>1. ASSUME NEW id \in Ids, Resolve(id, {}) # None
      PROVE  Resolve(id, aliases) = Resolve(id, {})
  BY <1>1 DEF Resolve
<1>2. ASSUME NEW claim \in Claims
      PROVE  Route(None, All, Bare(claim[1])) \in {None, [backend |-> claim[2], model |-> Bare(claim[1])]}
  <2>1. claim \in IndexedRows
    BY DEF IndexedRows
  <2>2. All \in Catalogs /\ All # Ollama
    BY AllIsNoBackend, BackendsOK DEF Catalogs
  <2> QED BY <2>1, <2>2, IndexedRoutes
<1> QED BY <1>1, <1>2 DEF IncumbentsKeepTheirModels

\* A row of a listing of Ollama is an alias that has authority; any other is of the
\* index, or an alias of a provider that is not Ollama.
Listed(row) ==
    \/ \E x \in IndexedRows : row = Row(Bare(x[1]), x[2])
    \/ \E p, m : p # Ollama /\ row = Row(Alias(p, m), p)

RowsAreListed ==
    /\ \A row \in shown[Ollama] : \E m \in authority : row = Row(Alias(Ollama, m), Ollama)
    /\ \A c \in Catalogs \ {Ollama} : \A row \in shown[c] : Listed(row)

\* The aliases that route are those of what is cached, as soon as a row was shown.
AliasesAreCached ==
    \/ \A c \in Catalogs : shown[c] = {}
    \/ aliases = {row.id : row \in AliasRows(ModelsOf(cache))}

ShownInv == shown = [c \in Catalogs |-> shown[c]] /\ RowsAreListed /\ AliasesAreCached

\* A row of aliases is an alias of a provider, other than ollama, under that provider.
LEMMA AliasRowsAre ==
    ASSUME NEW models, NEW row \in AliasRows(models)
    PROVE  \E p, m : p # Ollama /\ row = Row(Alias(p, m), p)
BY DEF AliasRows, Aliased

\* Listings whose rows are of the index, or are aliases that are cached, route as listed.
LEMMA ShownRight == ASSUME ShownInv PROVE ShownRoutes
<1> SUFFICES ASSUME NEW c \in Catalogs, NEW row \in shown[c], row.backend \in Adapters,
                    row.id.form = "alias" /\ row.backend # Ollama
                       => row.id \in {x.id : x \in AliasRows(ModelsOf(cache))}
             PROVE  Route(None, c, row.id) = [backend |-> row.backend, model |-> Bare(row.id.model)]
  BY DEF ShownRoutes
<1>1. CASE c = Ollama
  <2>1. PICK m \in authority : row = Row(Alias(Ollama, m), Ollama)
    BY <1>1 DEF ShownInv, RowsAreListed
  <2>2. row.id = Alias(Ollama, m) /\ row.backend = Ollama
    BY <2>1 DEF Row
  <2>3. row.id.form = "alias" /\ row.id.provider = Ollama /\ row.id.model = m
    BY <2>2 DEF Alias
  <2> QED BY <1>1, <2>2, <2>3 DEF Route
<1>2. CASE c # Ollama
  <2>1. Listed(row)
    BY <1>2 DEF ShownInv, RowsAreListed
  <2>2. CASE \E x \in IndexedRows : row = Row(Bare(x[1]), x[2])
    <3>1. PICK x \in IndexedRows : row = Row(Bare(x[1]), x[2])
      BY <2>2
    <3>2. row.id = Bare(x[1]) /\ row.backend = x[2] /\ Bare(x[1]).model = x[1]
      BY <3>1 DEF Row, Bare
    <3> QED BY <1>2, <3>2, IndexedRoutes
  <2>3. CASE \E p, m : p # Ollama /\ row = Row(Alias(p, m), p)
    <3>1. PICK p, m : p # Ollama /\ row = Row(Alias(p, m), p)
      BY <2>3
    <3>2. row.id = Alias(p, m) /\ row.backend = p
      BY <3>1 DEF Row
    <3>3. row.id.form = "alias" /\ row.id.model = m
      BY <3>2 DEF Alias
    <3>4. Alias(p, m) \in aliases
      BY <3>1, <3>2, <3>3 DEF ShownInv, AliasesAreCached
    <3> QED BY <1>2, <3>2, <3>3, <3>4, AliasRoutes
  <2> QED BY <2>1, <2>2, <2>3 DEF Listed
<1> QED BY <1>1, <1>2

\* At first no catalog was listed.
LEMMA ShownInit == CatalogInit => ShownInv
<1>1. CatalogInit => shown = [c \in Catalogs |-> {}]
  BY DEF CatalogInit
<1>2. Ollama \in Catalogs
  BY BackendsOK DEF Catalogs
<1> QED BY <1>1, <1>2 DEF ShownInv, RowsAreListed, AliasesAreCached

\* A listing shows rows of the index, and aliases that it caches.
LEMMA FinishShows ==
    ASSUME ShownInv, NEW g \in Getters, gets[g].catalog \in Catalogs, Finish(g) PROVE ShownInv'
<1> DEFINE models == ModelsOf(Merged(gets[g].got))
           catalog == gets[g].catalog
           seen == Rows(catalog, models)
<1>1. /\ cache' = Merged(gets[g].got) /\ aliases' = {row.id : row \in AliasRows(models)}
      /\ authority' = IF catalog = Ollama THEN OllamaIds(models[Ollama]) ELSE authority
      /\ shown' = [shown EXCEPT ![catalog] = seen]
  BY DEF Finish, Minted
<1>2. ModelsOf(cache)' = models
  BY <1>1 DEF ModelsOf
<1>3. AliasesAreCached'
  BY <1>1, <1>2 DEF AliasesAreCached
<1>4. /\ shown'[catalog] = seen /\ \A c \in Catalogs \ {catalog} : shown'[c] = shown[c]
      /\ shown' = [c \in Catalogs |-> shown'[c]]
  BY <1>1 DEF ShownInv
<1>5. CASE catalog = Ollama
  <2>1. seen = {Row(Alias(Ollama, m), Ollama) : m \in authority'}
    BY <1>1, <1>5 DEF Rows
  <2> QED BY <1>3, <1>4, <1>5, <2>1 DEF ShownInv, RowsAreListed
<1>6. CASE catalog # Ollama
  <2>1. \A row \in seen : row \in SurfaceRows \cup AliasRows(models)
    BY <1>6 DEF Rows
  <2> HIDE DEF models, seen
  <2>2. \A row \in seen : Listed(row)
    BY <2>1, AliasRowsAre DEF Listed, SurfaceRows
  <2>3. Ollama \in Catalogs
    BY BackendsOK DEF Catalogs
  <2> QED BY <1>1, <1>3, <1>4, <1>6, <2>2, <2>3 DEF ShownInv, RowsAreListed
<1> QED BY <1>5, <1>6

\* Versions: while a listing runs, nobody else writes the cache.
GetRecords == [phase : {"idle", "waiting", "asking", "done"}, catalog : Catalogs,
               got : SUBSET (Adapters \X [models : SUBSET Models, version : Nat]), left : SUBSET Adapters]
Listings == [models : SUBSET Models, version : Nat]
CatalogRecords ==
    /\ live \in [Adapters -> Listings] /\ cache \in [Backends -> Listings]
    /\ gets \in [Getters -> GetRecords]

ListingIsAlone(g) ==
    /\ gets[g].phase = "asking" => lock = g
    /\ gets[g].phase # "asking" => gets[g].got = {}
    /\ \A x \in gets[g].got : x[2].version >= cache[x[1]].version /\ x[2].version <= live[x[1]].version

CacheInv ==
    /\ CatalogRecords
    /\ \A b \in Adapters : cache[b].version <= live[b].version
    /\ \A g \in Getters : ListingIsAlone(g)

\* At first every catalog has its first version, and none is cached.
LEMMA CacheInit == CatalogInit => CacheInv
<1> SUFFICES ASSUME CatalogInit PROVE CacheInv
  OBVIOUS
<1>1. live \in [Adapters -> Listings] /\ \A b \in Adapters : live[b].version = 1
  BY OffersOK DEF CatalogInit, Listings
<1>2. cache \in [Backends -> Listings] /\ \A b \in Backends : cache[b].version = 0
  BY DEF CatalogInit, Unlisted, Listings
<1>3. gets \in [Getters -> GetRecords] /\ \A g \in Getters : gets[g].phase = "idle" /\ gets[g].got = {}
  BY DEF CatalogInit, GetRecords, Catalogs
<1> QED BY <1>1, <1>2, <1>3, AdaptersOK DEF CacheInv, CatalogRecords, ListingIsAlone

\* The steps.
LEMMA CatalogStep ==
    ASSUME CacheInv, CatalogNext
    PROVE  CacheInv' /\ \A b \in Backends : cache'[b].version >= cache[b].version
<1> USE DEF CacheInv, CatalogRecords
<1>0. \A b \in Backends : cache[b].version \in Nat
  BY DEF Listings
<1>1. ASSUME NEW b \in Adapters, NEW o \in Offers[b], Changes(b, o)
      PROVE  CacheInv' /\ UNCHANGED cache
  <2> DEFINE next == [models |-> o, version |-> live[b].version + 1]
  <2>1. live' = [live EXCEPT ![b] = next] /\ UNCHANGED <<cache, gets, lock>>
    BY <1>1 DEF Changes
  <2>2. next \in Listings /\ next.version >= live[b].version
    BY OffersOK DEF Listings
  <2> HIDE DEF next
  <2>3. live' \in [Adapters -> Listings]
    BY <2>1, <2>2
  <2>4. \A a \in Adapters : live'[a].version >= live[a].version
    BY <2>1, <2>2 DEF Listings
  <2>5. \A a \in Adapters : cache'[a].version <= live'[a].version
    BY <2>1, <2>3, <2>4, AdaptersOK DEF Listings
  <2>6. ASSUME NEW g \in Getters PROVE ListingIsAlone(g)'
    <3>1. ASSUME NEW x \in gets[g].got PROVE x[2].version <= live'[x[1]].version
      <4>1. x[1] \in Adapters /\ x[2].version \in Nat
        BY DEF GetRecords
      <4> QED BY <4>1, <2>3, <2>4 DEF ListingIsAlone, Listings
    <3> QED BY <2>1, <3>1 DEF ListingIsAlone
  <2> QED BY <2>1, <2>3, <2>5, <2>6
<1>2. ASSUME NEW g \in Getters, NEW c \in Catalogs, Get(g, c)
      PROVE  CacheInv' /\ UNCHANGED cache
  <2>1. gets[g].phase = "idle" /\ gets[g].got = {} /\ UNCHANGED <<live, cache, lock>>
    BY <1>2 DEF Get, ListingIsAlone
  <2>2. /\ gets' \in [Getters -> GetRecords] /\ gets'[g].phase = "waiting" /\ gets'[g].got = {}
        /\ \A h \in Getters \ {g} : gets'[h] = gets[h]
    BY <1>2, <2>1, ZenonT(40) DEF Get, GetRecords
  <2>3. \A h \in Getters : ListingIsAlone(h)'
    BY <2>1, <2>2 DEF ListingIsAlone
  <2> QED BY <2>1, <2>2, <2>3
<1>3. ASSUME NEW g \in Getters, Begin(g)
      PROVE  CacheInv' /\ UNCHANGED cache
  <2>1. gets[g].phase = "waiting" /\ gets[g].got = {} /\ UNCHANGED <<live, cache>> /\ lock = None /\ lock' = g
    BY <1>3 DEF Begin, ListingIsAlone
  <2>2. /\ gets' \in [Getters -> GetRecords] /\ gets'[g].phase = "asking" /\ gets'[g].got = {}
        /\ \A h \in Getters \ {g} : gets'[h] = gets[h]
    <3>1. Asked(gets[g].catalog) \in SUBSET Adapters
      BY DEF Asked
    <3> QED BY <1>3, <2>1, <3>1, ZenonT(40) DEF Begin, GetRecords
  <2>3. \A h \in Getters : ListingIsAlone(h)'
    BY <2>1, <2>2, GettersOK DEF ListingIsAlone
  <2> QED BY <2>1, <2>2, <2>3
<1>4. ASSUME NEW g \in Getters, NEW b \in Adapters, Lists(g, b) \/ ListingFails(g, b)
      PROVE  CacheInv' /\ UNCHANGED cache
  <2>1. gets[g].phase = "asking" /\ UNCHANGED <<live, cache, lock>>
    BY <1>4 DEF Lists, ListingFails
  <2>2. /\ gets' \in [Getters -> GetRecords] /\ gets'[g].phase = "asking"
        /\ \A x \in gets'[g].got : x \in gets[g].got \/ x = <<b, live[b]>>
        /\ \A h \in Getters \ {g} : gets'[h] = gets[h]
    <3>1. <<b, live[b]>> \in Adapters \X [models : SUBSET Models, version : Nat]
      BY DEF Listings
    <3>2. CASE Lists(g, b)
      <4> DEFINE heard == gets[g].got \cup {<<b, live[b]>>}
                 rest == gets[g].left \ {b}
      <4>1. gets' = [gets EXCEPT ![g].left = rest, ![g].got = heard]
        BY <3>2 DEF Lists
      <4>2. heard \in SUBSET (Adapters \X [models : SUBSET Models, version : Nat]) /\ rest \in SUBSET Adapters
        BY <3>1 DEF GetRecords
      <4>3. \A x \in heard : x \in gets[g].got \/ x = <<b, live[b]>>
        OBVIOUS
      <4> HIDE DEF heard, rest
      <4>4. gets' \in [Getters -> GetRecords]
        BY <4>1, <4>2, ZenonT(40) DEF GetRecords
      <4>5. gets'[g].phase = "asking" /\ gets'[g].got = heard /\ \A h \in Getters \ {g} : gets'[h] = gets[h]
        BY <2>1, <4>1 DEF GetRecords
      <4> QED BY <4>3, <4>4, <4>5
    <3>3. CASE ListingFails(g, b)
      BY <2>1, <3>3 DEF ListingFails, GetRecords
    <3> QED BY <1>4, <3>2, <3>3
  <2>3. live[b].version \in Nat /\ cache[b].version <= live[b].version
    BY DEF Listings
  <2>4. ASSUME NEW h \in Getters PROVE ListingIsAlone(h)'
    <3>1. CASE h = g
      <4>1. \A x \in gets[g].got : x[2].version >= cache[x[1]].version /\ x[2].version <= live[x[1]].version
        BY DEF ListingIsAlone
      <4>2. \A x \in gets'[g].got : x[2].version >= cache[x[1]].version /\ x[2].version <= live[x[1]].version
        BY <2>2, <2>3, <4>1, AdaptersOK, <1>0
      <4> QED BY <2>1, <2>2, <3>1, <4>2 DEF ListingIsAlone
    <3>2. CASE h # g
      BY <2>1, <2>2, <3>2 DEF ListingIsAlone
    <3> QED BY <3>1, <3>2
  <2> QED BY <2>1, <2>2, <2>4
<1>5. ASSUME NEW g \in Getters, Finish(g)
      PROVE  CacheInv' /\ \A b \in Backends : cache'[b].version >= cache[b].version
  <2> DEFINE got == gets[g].got
  <2>1. gets[g].phase = "asking" /\ cache' = Merged(got) /\ UNCHANGED live /\ lock = g
    BY <1>5 DEF Finish, ListingIsAlone
  <2>2. /\ gets' \in [Getters -> GetRecords] /\ gets'[g].phase = "done" /\ gets'[g].got = {}
        /\ \A h \in Getters \ {g} : gets'[h] = gets[h]
    BY <1>5, ZenonT(40) DEF Finish, GetRecords
  <2>3. ASSUME NEW b \in Backends
        PROVE  /\ cache'[b] = cache[b] \/ \E x \in got : x[1] = b /\ cache'[b] = x[2]
    BY <2>1 DEF Merged
  <2>4. \A x \in got : x \in Adapters \X Listings
    BY DEF GetRecords, Listings
  <2>5. \A x \in got : x[2].version >= cache[x[1]].version /\ x[2].version <= live[x[1]].version
    BY DEF ListingIsAlone
  <2> HIDE DEF got
  <2>6. ASSUME NEW b \in Backends
        PROVE  cache'[b] \in Listings /\ cache'[b].version >= cache[b].version
               /\ (b \in Adapters => cache'[b].version <= live'[b].version)
    <3>1. CASE cache'[b] = cache[b]
      BY <1>0, <2>1, <3>1
    <3>2. CASE \E x \in got : x[1] = b /\ cache'[b] = x[2]
      <4>1. PICK x \in got : x[1] = b /\ cache'[b] = x[2]
        BY <3>2
      <4> QED BY <2>1, <2>4, <2>5, <4>1
    <3> QED BY <2>3, <3>1, <3>2
  <2>7. cache' \in [Backends -> Listings]
    <3>1. cache' = [b \in Backends |-> cache'[b]]
      BY <2>1 DEF Merged
    <3> QED BY <2>6, <3>1
  <2>8. \A h \in Getters \ {g} : gets[h].phase # "asking" /\ gets[h].got = {}
    BY <2>1 DEF ListingIsAlone
  <2>9. \A h \in Getters : ListingIsAlone(h)'
    BY <2>2, <2>8 DEF ListingIsAlone
  <2> QED BY <2>1, <2>2, <2>6, <2>7, <2>9, AdaptersOK
<1> QED
  <2>1. UNCHANGED cache => \A b \in Backends : cache'[b].version >= cache[b].version
    BY <1>0
  <2> QED BY <1>1, <1>2, <1>3, <1>4, <1>5, <2>1 DEF CatalogNext

\* What was listed stays right, or the listing that it came from has changed.
LEMMA ShownStep ==
    ASSUME CacheInv, ShownInv, CatalogNext PROVE ShownInv'
<1>1. \A g \in Getters : gets[g].catalog \in Catalogs
  BY DEF CacheInv, CatalogRecords, GetRecords
<1>2. CASE \E g \in Getters : Finish(g)
  BY <1>1, <1>2, FinishShows
<1>3. CASE UNCHANGED <<cache, aliases, authority, shown>>
  BY <1>3 DEF ShownInv, RowsAreListed, AliasesAreCached, ModelsOf
<1> QED BY <1>2, <1>3 DEF CatalogNext, Changes, Get, Begin, Lists, ListingFails

\* What a catalog lists routes to the backend that it was listed for, and no listing
\* moves a known model (anthropic_app.py, _handle_models and _resolve_backend), for any
\* adapters, models and getters.
THEOREM CatalogsAreSound == CatalogSpec => []CatalogIsSound
<1>1. CatalogInit => CacheInv /\ ShownInv
  BY CacheInit, ShownInit
<1>2. CacheInv /\ ShownInv /\ [CatalogNext]_catalogVars => CacheInv' /\ ShownInv'
  <2>1. CacheInv /\ ShownInv /\ UNCHANGED catalogVars => CacheInv' /\ ShownInv'
    BY DEF catalogVars, CacheInv, CatalogRecords, ListingIsAlone, ShownInv, RowsAreListed, AliasesAreCached, ModelsOf
  <2> QED BY <2>1, CatalogStep, ShownStep
<1>3. ShownInv => CatalogIsSound
  BY ShownRight, IncumbentsKeep DEF CatalogIsSound
<1> QED BY <1>1, <1>2, <1>3, PTL DEF CatalogSpec

\* A slow older GET never overwrites a newer catalog (anthropic_app.py, the version
\* that a listing is cached with).
THEOREM CatalogGoesForward == CatalogSpec => CatalogNeverGoesBack
<1>1. CatalogInit => CacheInv
  BY CacheInit
<1>2. CacheInv /\ [CatalogNext]_catalogVars => CacheInv'
  <2>1. CacheInv /\ UNCHANGED catalogVars => CacheInv'
    BY DEF catalogVars, CacheInv, CatalogRecords, ListingIsAlone
  <2> QED BY <2>1, CatalogStep
<1>3. CacheInv /\ [CatalogNext]_catalogVars
        => [\A b \in Backends : Version(cache')[b] >= Version(cache)[b]]_catalogVars
  <2>1. CacheInv /\ CatalogNext => \A b \in Backends : Version(cache')[b] >= Version(cache)[b]
    <3> SUFFICES ASSUME CacheInv, CatalogNext, NEW b \in Backends
                 PROVE  Version(cache')[b] >= Version(cache)[b]
      OBVIOUS
    <3>1. cache'[b].version >= cache[b].version /\ DOMAIN cache = Backends /\ DOMAIN cache' = Backends
      BY CatalogStep DEF CacheInv, CatalogRecords
    <3> QED BY <3>1 DEF Version
  <2> QED BY <2>1
<1> QED BY <1>1, <1>2, <1>3, PTL DEF CatalogSpec, CatalogNeverGoesBack

(***************************************************************************)
(* MessagesRequest: for any requests, and any events of the adapter.       *)
(***************************************************************************)

EventTypes == {"message_start", "ping", "content_block_start", "content_block_stop", "text_delta",
               "input_json_delta", "message_delta", "message_stop", "error"}
Terminals == {"message_stop", "error"}
Events == [type : EventTypes, index : Nat]

\* How many of the first n events of s are of a type.
CountOf(s, type, n) == Cardinality({i \in 1..n : s[i].type = type})
OpenAt(s, n) == CountOf(s, "content_block_start", n) - CountOf(s, "content_block_stop", n)

\* A count of events is a number.
LEMMA CountIsNatural ==
    ASSUME NEW s, NEW type, NEW n \in Nat PROVE CountOf(s, type, n) \in Nat
<1>1. IsFiniteSet(1..n)
  BY FS_Interval
<1>2. IsFiniteSet({i \in 1..n : s[i].type = type})
  BY <1>1, FS_Subset
<1> QED BY <1>2, FS_CardinalityType DEF CountOf

\* Streams that begin alike have the same counts there.
LEMMA CountOfSame ==
    ASSUME NEW s, NEW r, NEW type, NEW n \in Nat, \A i \in 1..n : r[i] = s[i]
    PROVE  CountOf(r, type, n) = CountOf(s, type, n)
<1>1. {i \in 1..n : r[i].type = type} = {i \in 1..n : s[i].type = type}
  OBVIOUS
<1> QED BY <1>1 DEF CountOf

\* One event more adds one to the count of its type.
LEMMA CountOfNext ==
    ASSUME NEW s, NEW type, NEW n \in Nat
    PROVE  CountOf(s, type, n + 1) = CountOf(s, type, n) + (IF s[n + 1].type = type THEN 1 ELSE 0)
<1> DEFINE S == {i \in 1..n : s[i].type = type}
           T == {i \in 1..(n + 1) : s[i].type = type}
<1>1. IsFiniteSet(S) /\ n + 1 \notin S
  <2>1. IsFiniteSet(1..n)
    BY FS_Interval
  <2> QED BY <2>1, FS_Subset
<1>4. CountOf(s, type, n) = Cardinality(S) /\ CountOf(s, type, n + 1) = Cardinality(T)
  BY DEF CountOf
<1>2. CASE s[n + 1].type = type
  <2>1. T = S \cup {n + 1}
    BY <1>2
  <2>2. Cardinality(S \cup {n + 1}) = Cardinality(S) + 1
    BY <1>1, FS_AddElement
  <2> HIDE DEF S, T
  <2> QED BY <1>2, <1>4, <2>1, <2>2
<1>3. CASE s[n + 1].type # type
  <2>1. T = S
    BY <1>3
  <2>2. Cardinality(S) \in Nat
    BY <1>1, FS_CardinalityType
  <2> HIDE DEF S, T
  <2> QED BY <1>3, <1>4, <2>1, <2>2
<1> QED BY <1>2, <1>3

\* What StreamWellFormed says of the n-th event.
EventOK(s, n) ==
    /\ OpenAt(s, n) \in {0, 1}
    /\ s[n].type \in {"text_delta", "input_json_delta"} => OpenAt(s, n) = 1
    /\ s[n].index \in {0, CountOf(s, "content_block_start", n)}
    /\ s[n].type \in Terminals => OpenAt(s, n) = 0 /\ n = Len(s)

\* A message that is under way: `index' blocks were opened, `open' of them is not closed.
Mid(s, index, open) ==
    /\ s \in Seq(Events) /\ Len(s) >= 2
    /\ s[1] = Event("message_start", 0) /\ s[2] = Event("ping", 0)
    /\ \A n \in 3..Len(s) : EventOK(s, n) /\ s[n].type \notin Terminals
    /\ index \in Nat /\ open \in {0, 1} /\ open <= index
    /\ CountOf(s, "content_block_start", Len(s)) = index
    /\ CountOf(s, "content_block_stop", Len(s)) = index - open

\* A message that has ended.
Ended(s) ==
    /\ s \in Seq(Events) /\ Len(s) >= 3
    /\ s[1] = Event("message_start", 0) /\ s[2] = Event("ping", 0)
    /\ \A n \in 3..Len(s) : EventOK(s, n)
    /\ s[Len(s)].type \in Terminals

\* A stream that was started is in the middle of a message with nothing open.
LEMMA StartedIsMid == Mid(Started, 0, 0)
<1>1. Started \in Seq(Events) /\ Len(Started) = 2
      /\ Started[1] = Event("message_start", 0) /\ Started[2] = Event("ping", 0)
  BY DEF Started, Event, Events, EventTypes
<1>2. \A type \in {"content_block_start", "content_block_stop"} : CountOf(Started, type, 2) = 0
  <2> SUFFICES ASSUME NEW type \in {"content_block_start", "content_block_stop"}
               PROVE  CountOf(Started, type, 2) = 0
    OBVIOUS
  <2>1. {i \in 1..2 : Started[i].type = type} = {}
    BY <1>1 DEF Event
  <2> QED BY <2>1, FS_EmptySet DEF CountOf
<1> QED BY <1>1, <1>2 DEF Mid

\* One more event leaves what was said of those before as it was.
LEMMA EarlierStay ==
    ASSUME NEW s \in Seq(Events), NEW e \in Events, NEW n \in 3..Len(s), EventOK(s, n), s[n].type \notin Terminals
    PROVE  EventOK(Append(s, e), n) /\ Append(s, e)[n] = s[n]
<1> DEFINE r == Append(s, e)
<1>1. \A i \in 1..n : r[i] = s[i]
  OBVIOUS
<1> HIDE DEF r
<1>2. n \in Nat
  OBVIOUS
<1>3. \A type : CountOf(r, type, n) = CountOf(s, type, n)
  BY <1>1, <1>2, CountOfSame
<1>4. r[n] = s[n]
  BY <1>1
<1>5. EventOK(r, n)
  BY <1>3, <1>4 DEF EventOK, OpenAt
<1> QED BY <1>4, <1>5 DEF r

\* What is known of a message under way with one more event.
Grown(s, e, index, open) ==
    LET r == Append(s, e)
        n == Len(s) + 1
    IN /\ r \in Seq(Events) /\ Len(r) = n /\ r[n] = e /\ r[1] = s[1] /\ r[2] = s[2]
       /\ CountOf(r, "content_block_start", n) = index + (IF e.type = "content_block_start" THEN 1 ELSE 0)
       /\ CountOf(r, "content_block_stop", n) = (index - open) + (IF e.type = "content_block_stop" THEN 1 ELSE 0)

\* The counts at each event of a stream, once one more was sent.
LEMMA CountsAfter ==
    ASSUME NEW index, NEW open, NEW s, Mid(s, index, open), NEW e \in Events
    PROVE  Grown(s, e, index, open)
<1> DEFINE r == Append(s, e)
           l == Len(s)
<1>1. s \in Seq(Events) /\ l \in Nat /\ l >= 2
  BY DEF Mid
<1>2. r \in Seq(Events) /\ Len(r) = l + 1 /\ r[l + 1] = e /\ \A i \in 1..l : r[i] = s[i]
  BY <1>1
<1>3. CountOf(s, "content_block_start", l) = index /\ CountOf(s, "content_block_stop", l) = index - open
  BY DEF Mid
<1> HIDE DEF r, l
<1>4. \A type : CountOf(r, type, l) = CountOf(s, type, l)
  BY <1>1, <1>2, CountOfSame
<1>5. \A type : CountOf(r, type, l + 1) = CountOf(r, type, l) + (IF r[l + 1].type = type THEN 1 ELSE 0)
  BY <1>1, CountOfNext
<1>6. 1 \in 1..l /\ 2 \in 1..l
  BY <1>1
<1> QED BY <1>1, <1>2, <1>3, <1>4, <1>5, <1>6 DEF r, l, Grown

\* An event that fits keeps a message under way.
LEMMA MidGoesOn ==
    ASSUME NEW index, NEW open, NEW s, Mid(s, index, open), NEW e \in Events, NEW i, NEW o,
           \/ e.type = "content_block_start" /\ open = 0 /\ e.index = index + 1 /\ i = index + 1 /\ o = 1
           \/ e.type = "content_block_stop" /\ open = 1 /\ e.index = index /\ i = index /\ o = 0
           \/ e.type \in {"text_delta", "input_json_delta"} /\ open = 1 /\ e.index = index /\ i = index /\ o = 1
           \/ e.type = "message_delta" /\ e.index = 0 /\ i = index /\ o = open
    PROVE  Mid(Append(s, e), i, o)
<1> DEFINE r == Append(s, e)
           n == Len(s) + 1
<1>0. Grown(s, e, index, open)
  BY CountsAfter
<1>1. /\ r \in Seq(Events) /\ Len(r) = n /\ r[n] = e /\ r[1] = s[1] /\ r[2] = s[2]
      /\ CountOf(r, "content_block_start", n) = index + (IF e.type = "content_block_start" THEN 1 ELSE 0)
      /\ CountOf(r, "content_block_stop", n) = (index - open) + (IF e.type = "content_block_stop" THEN 1 ELSE 0)
  BY <1>0 DEF Grown
<1>2. index \in Nat /\ open \in {0, 1} /\ open <= index /\ s \in Seq(Events) /\ Len(s) \in Nat /\ Len(s) >= 2
  BY DEF Mid
<1>3. \A k \in 3..Len(s) : EventOK(r, k) /\ r[k].type \notin Terminals
  BY <1>2, EarlierStay DEF Mid
<1> HIDE DEF r
<1>4. /\ CountOf(r, "content_block_start", n) = i /\ CountOf(r, "content_block_stop", n) = i - o
      /\ i \in Nat /\ o \in {0, 1} /\ o <= i
  BY <1>1, <1>2
<1>5. e.type \notin Terminals
  BY DEF Terminals
<1>6. EventOK(r, n)
  <2>1. OpenAt(r, n) = o
    BY <1>4 DEF OpenAt
  <2>2. r[n].index \in {0, i} /\ (r[n].type \in {"text_delta", "input_json_delta"} => o = 1)
    BY <1>1
  <2> QED BY <1>1, <1>4, <1>5, <2>1, <2>2 DEF EventOK
<1>7. \A k \in 3..Len(r) : k \in 3..Len(s) \/ k = n
  BY <1>1, <1>2
<1> QED BY <1>1, <1>2, <1>3, <1>4, <1>5, <1>6, <1>7 DEF Mid, r

\* A terminal event ends a message without an open block.
LEMMA MidEnds ==
    ASSUME NEW index, NEW s, Mid(s, index, 0), NEW e \in Events, e.type \in Terminals, e.index = 0
    PROVE  Ended(Append(s, e))
<1> DEFINE r == Append(s, e)
           n == Len(s) + 1
<1>0. Grown(s, e, index, 0)
  BY CountsAfter
<1>1. /\ r \in Seq(Events) /\ Len(r) = n /\ r[n] = e /\ r[1] = s[1] /\ r[2] = s[2]
      /\ CountOf(r, "content_block_start", n) = index + (IF e.type = "content_block_start" THEN 1 ELSE 0)
      /\ CountOf(r, "content_block_stop", n) = (index - 0) + (IF e.type = "content_block_stop" THEN 1 ELSE 0)
  BY <1>0 DEF Grown
<1>2. index \in Nat /\ s \in Seq(Events) /\ Len(s) \in Nat /\ Len(s) >= 2
  BY DEF Mid
<1>3. \A k \in 3..Len(s) : EventOK(r, k)
  BY <1>2, EarlierStay DEF Mid
<1> HIDE DEF r
<1>4. OpenAt(r, n) = 0
  BY <1>1, <1>2 DEF OpenAt, Terminals
<1>5. EventOK(r, n)
  BY <1>1, <1>4 DEF EventOK, Terminals
<1>7. \A k \in 3..Len(r) : k \in 3..Len(s) \/ k = n
  BY <1>1, <1>2
<1> QED BY <1>1, <1>2, <1>3, <1>5, <1>7 DEF Ended, Mid, r

\* A stream is not begun, under way or ended.
IsOpen(m) == IF m.open = "none" THEN 0 ELSE 1
Mappers == [index : Nat, open : {"none", "text_added", "tool_added"},
            state : {"peeking", "mapping", "completed", "failed"}, events : Nat]
Phases == {"new", "received", "prepared", "compressed", "dispatched", "streaming", "answered"}
Statuses == {0, 200, 400, 401, 404, 413, 502}
Posts == [phase : Phases, status : Statuses, native : BOOLEAN, unsupported : SUBSET Features]
MapperOK == mapper \in Mappers
PostOK == post \in Posts
Unopened == sent = <<>> /\ mapper.index = 0 /\ mapper.open = "none"
StreamInv ==
    /\ MapperOK /\ PostOK
    /\ post.phase = "new" => ~post.native
    /\ ~post.native =>
          /\ post.phase \notin {"streaming", "answered"} => Unopened /\ Peeking
          /\ post.phase = "streaming" =>
                IF Peeking THEN Unopened ELSE Mid(sent, mapper.index, IsOpen(mapper))
          /\ post.phase = "answered" => sent = <<>> \/ Ended(sent)

\* What the invariant says of the property.
LEMMA StreamGood == StreamInv => StreamWellFormed
<1> SUFFICES ASSUME StreamInv, ~post.native, sent # <<>>
             PROVE  /\ SubSeq(sent, 1, 2) = Started
                    /\ \A n \in 3..Len(sent) : EventOK(sent, n)
                    /\ post.phase = "answered" => Last(sent).type \in Terminals
  BY DEF StreamWellFormed, EventOK, OpenAt, CountOf, Terminals
<1>1. /\ sent \in Seq(Events) /\ Len(sent) >= 2
      /\ sent[1] = Event("message_start", 0) /\ sent[2] = Event("ping", 0)
      /\ \A n \in 3..Len(sent) : EventOK(sent, n)
  BY DEF StreamInv, Unopened, Mid, Ended
<1>2. post.phase = "answered" => Last(sent).type \in Terminals
  BY DEF StreamInv, Ended, Last
<1>3. SubSeq(sent, 1, 2) = Started
  <2> DEFINE a == Event("message_start", 0)
             b == Event("ping", 0)
  <2>1. Started = <<a, b>>
    BY DEF Started
  <2> HIDE DEF a, b
  <2>2. sent \in Seq(Events) /\ Len(sent) >= 2 /\ sent[1] = a /\ sent[2] = b
    BY <1>1 DEF a, b
  <2>3. Len(SubSeq(sent, 1, 2)) = 2 /\ SubSeq(sent, 1, 2) \in Seq(Events)
    BY <2>2
  <2>4. SubSeq(sent, 1, 2)[1] = a /\ SubSeq(sent, 1, 2)[2] = b
    BY <2>2
  <2>5. <<a, b>> \in Seq(Events) /\ Len(<<a, b>>) = 2 /\ <<a, b>>[1] = a /\ <<a, b>>[2] = b
    <3>1. a \in Events /\ b \in Events
      BY <2>2
    <3> QED BY <3>1
  <2>6. SubSeq(sent, 1, 2) = <<a, b>>
    <3> DEFINE p == SubSeq(sent, 1, 2)
               q == <<a, b>>
    <3>1. p \in Seq(Events) /\ q \in Seq(Events) /\ Len(p) = Len(q) /\ \A i \in 1..Len(p) : p[i] = q[i]
      BY <2>3, <2>4, <2>5
    <3> HIDE DEF p, q
    <3>2. p = q
      BY <3>1, SeqEqual
    <3> QED BY <3>2 DEF p, q
  <2> QED BY <2>1, <2>6
<1> QED BY <1>1, <1>2, <1>3

\* At first nothing was sent.
LEMMA StreamInitially == RequestInit => StreamInv
BY DEF RequestInit, StreamInv, MapperOK, Mappers, PostOK, Posts, Phases, Statuses, Unopened, Peeking

\* What closes an open block is at most one event.
LEMMA CloseOpenIsEvents == ASSUME MapperOK PROVE CloseOpen(mapper) \in Seq(Events)
<1> DEFINE e == Event("content_block_stop", mapper.index)
<1>1. e \in Events
  BY DEF Event, Events, EventTypes, MapperOK, Mappers
<1>2. CloseOpen(mapper) \in {<<>>, <<e>>}
  BY DEF CloseOpen
<1> HIDE DEF e
<1>3. <<>> \in Seq(Events) /\ <<e>> \in Seq(Events)
  BY <1>1
<1> QED BY <1>2, <1>3

\* A block that is open is closed.
LEMMA Closes ==
    ASSUME MapperOK, NEW s, Mid(s, mapper.index, IsOpen(mapper))
    PROVE  Mid(s \o CloseOpen(mapper), mapper.index, 0)
<1>0. s \in Seq(Events)
  BY DEF Mid
<1>1. CASE mapper.open = "none"
  <2>1. s \o CloseOpen(mapper) = s /\ IsOpen(mapper) = 0
    BY <1>0, <1>1 DEF CloseOpen, IsOpen
  <2> QED BY <2>1
<1>2. CASE mapper.open # "none"
  <2> DEFINE e == Event("content_block_stop", mapper.index)
  <2>1. e \in Events /\ e.type = "content_block_stop" /\ e.index = mapper.index
    BY DEF Event, Events, EventTypes, MapperOK, Mappers
  <2>2. s \o CloseOpen(mapper) = Append(s, e) /\ IsOpen(mapper) = 1
    BY <1>0, <1>2, <2>1 DEF CloseOpen, IsOpen
  <2> HIDE DEF e
  <2> QED BY <2>1, <2>2, MidGoesOn
<1> QED BY <1>1, <1>2

\* What the mapper emits for one event keeps the message well-formed.
LEMMA EmitsRight ==
    ASSUME MapperOK, NEW s, Mid(s, mapper.index, IsOpen(mapper)), NEW e \in Upstream,
           NEW m, m = [mapper EXCEPT !.state = "mapping", !.events = @ + 1]
    PROVE  Mid(s \o Emitted(m, e), Consumed(m, e).index, IsOpen(Consumed(m, e)))
<1>0. s \in Seq(Events) /\ m.index = mapper.index /\ m.open = mapper.open
  BY DEF Mid, MapperOK, Mappers
<1>1. CASE e \in {"text_added", "tool_added"}
  <2> DEFINE start == Event("content_block_start", mapper.index + 1)
             r == s \o CloseOpen(mapper)
  <2>1. start \in Events /\ start.type = "content_block_start" /\ start.index = mapper.index + 1
    BY DEF Event, Events, EventTypes, MapperOK, Mappers
  <2>2. Mid(r, mapper.index, 0)
    BY Closes
  <2>3. CloseOpen(m) = CloseOpen(mapper) /\ CloseOpen(mapper) \in Seq(Events)
    BY <1>0, CloseOpenIsEvents DEF CloseOpen
  <2>4. s \o Emitted(m, e) = Append(r, start)
    <3>1. Emitted(m, e) = CloseOpen(mapper) \o <<start>>
      BY <1>0, <1>1, <2>3 DEF Emitted, Opens
    <3> HIDE DEF start
    <3>2. s \o (CloseOpen(mapper) \o <<start>>) = (s \o CloseOpen(mapper)) \o <<start>>
      BY <1>0, <2>1, <2>3
    <3>3. r \in Seq(Events)
      BY <1>0, <2>3
    <3>4. r \o <<start>> = Append(r, start)
      BY <2>1, <3>3
    <3> QED BY <3>1, <3>2, <3>4
  <2>5. Consumed(m, e).index = mapper.index + 1 /\ IsOpen(Consumed(m, e)) = 1
    BY <1>0, <1>1 DEF Consumed, IsOpen, MapperOK, Mappers
  <2> HIDE DEF start, r
  <2>6. Mid(Append(r, start), mapper.index + 1, 1)
    BY <2>1, <2>2, MidGoesOn
  <2> QED BY <2>4, <2>5, <2>6
<1>2. CASE \/ e = "text_delta" /\ mapper.open = "text_added"
           \/ e = "tool_delta" /\ mapper.open = "tool_added"
  <2> DEFINE delta == Event(IF e = "text_delta" THEN "text_delta" ELSE "input_json_delta", mapper.index)
  <2>1. delta \in Events /\ delta.type \in {"text_delta", "input_json_delta"} /\ delta.index = mapper.index
    BY DEF Event, Events, EventTypes, MapperOK, Mappers
  <2>2. Emitted(m, e) = <<delta>>
    BY <1>0, <1>2 DEF Emitted
  <2>3. Consumed(m, e).index = mapper.index /\ IsOpen(Consumed(m, e)) = 1 /\ IsOpen(mapper) = 1
    BY <1>0, <1>2 DEF Consumed, IsOpen
  <2> HIDE DEF delta
  <2>4. s \o Emitted(m, e) = Append(s, delta)
    <3>1. s \o <<delta>> = Append(s, delta)
      BY <1>0, <2>1
    <3> QED BY <2>2, <3>1
  <2>5. Mid(Append(s, delta), mapper.index, 1)
    BY <2>1, <2>3, MidGoesOn
  <2> QED BY <2>3, <2>4, <2>5
<1>3. CASE e = "item_done"
  <2>1. Emitted(m, e) = CloseOpen(mapper) /\ Consumed(m, e).index = mapper.index /\ IsOpen(Consumed(m, e)) = 0
    BY <1>0, <1>3 DEF Emitted, Consumed, CloseOpen, IsOpen, MapperOK, Mappers
  <2> QED BY <2>1, Closes
<1>4. CASE /\ e \notin {"text_added", "tool_added", "item_done"}
           /\ ~(e = "text_delta" /\ mapper.open = "text_added")
           /\ ~(e = "tool_delta" /\ mapper.open = "tool_added")
  <2>1. Emitted(m, e) = <<>>
    BY <1>0, <1>4 DEF Emitted
  <2>2. Consumed(m, e).index = mapper.index /\ IsOpen(Consumed(m, e)) = IsOpen(mapper)
    BY <1>0, <1>4 DEF Consumed, IsOpen, MapperOK, Mappers
  <2>3. s \o <<>> = s
    BY <1>0
  <2> QED BY <2>1, <2>2, <2>3
<1> QED BY <1>1, <1>2, <1>3, <1>4

\* An error ends a message, and so do the two events of an ending.
LEMMA EndsRight ==
    ASSUME MapperOK, ~post.native, NEW s, Mid(s, mapper.index, IsOpen(mapper)), NEW how
    PROVE  Ended(s \o Ends(mapper, how))
<1> DEFINE r == s \o CloseOpen(mapper)
           error == Event("error", 0)
           delta == Event("message_delta", 0)
           stop == Event("message_stop", 0)
<1>1. s \in Seq(Events) /\ CloseOpen(mapper) \in Seq(Events)
  BY CloseOpenIsEvents DEF Mid
<1>2. Mid(r, mapper.index, 0) /\ r \in Seq(Events)
  BY <1>1, Closes
<1>3. error \in Events /\ delta \in Events /\ stop \in Events
  BY DEF Event, Events, EventTypes
<1>4. /\ error.type \in Terminals /\ stop.type \in Terminals /\ delta.type = "message_delta"
      /\ error.index = 0 /\ stop.index = 0 /\ delta.index = 0
  BY DEF Event, Terminals
<1>5. CASE how \in {"raises", "failed"}
  <2>1. Ends(mapper, how) = CloseOpen(mapper) \o <<error>>
    BY <1>5 DEF Ends
  <2> HIDE DEF error
  <2>2. s \o (CloseOpen(mapper) \o <<error>>) = Append(r, error)
    BY <1>1, <1>3
  <2> QED BY <1>2, <1>3, <1>4, <2>1, <2>2, MidEnds
<1>6. CASE how \notin {"raises", "failed"}
  <2>1. Ends(mapper, how) = CloseOpen(mapper) \o <<delta, stop>>
    BY <1>6 DEF Ends
  <2> HIDE DEF delta, stop
  <2>2. s \o (CloseOpen(mapper) \o <<delta, stop>>) = r \o <<delta, stop>>
    BY <1>1, <1>3
  <2>3. r \o <<delta, stop>> = Append(Append(r, delta), stop)
    BY <1>2, <1>3
  <2> HIDE DEF r
  <2>4. Mid(Append(r, delta), mapper.index, 0)
    BY <1>2, <1>3, <1>4, MidGoesOn
  <2> QED BY <1>3, <1>4, <2>1, <2>2, <2>3, <2>4, MidEnds
<1> QED BY <1>5, <1>6

\* A request that is answered stays as it was in all else.
LEMMA AnswerSets ==
    ASSUME PostOK, NEW s \in Statuses, Answer(s)
    PROVE  PostOK' /\ post'.native = post.native /\ post'.phase = "answered"
BY DEF Answer, PostOK, Posts, Phases

\* A mapper that has mapped one more event is a mapper again.
LEMMA Mapping ==
    ASSUME NEW x \in Mappers
    PROVE  /\ [x EXCEPT !.state = "mapping", !.events = @ + 1] \in Mappers
           /\ [x EXCEPT !.state = "mapping", !.events = @ + 1].state = "mapping"
<1> DEFINE k == x.events + 1
<1>1. k \in Nat
  BY DEF Mappers
<1> HIDE DEF k
<1>2. /\ [x EXCEPT !.state = "mapping", !.events = k] \in Mappers
      /\ [x EXCEPT !.state = "mapping", !.events = k].state = "mapping"
  BY <1>1 DEF Mappers
<1> QED BY <1>2 DEF k

\* The mapper after an event is a mapper again.
LEMMA ConsumedIsMapper ==
    ASSUME NEW x \in Mappers, x.state = "mapping", NEW e \in Upstream
    PROVE  Consumed(x, e) \in Mappers /\ Consumed(x, e).state # "peeking"
<1>1. CASE e \in {"text_added", "tool_added"}
  <2> DEFINE k == x.index + 1
  <2>1. k \in Nat
    BY DEF Mappers
  <2> HIDE DEF k
  <2>2. [x EXCEPT !.index = k, !.open = e] \in Mappers /\ [x EXCEPT !.index = k, !.open = e].state = "mapping"
    BY <1>1, <2>1 DEF Mappers
  <2>3. Consumed(x, e) = [x EXCEPT !.index = k, !.open = e]
    BY <1>1 DEF Consumed, k
  <2> QED BY <2>2, <2>3
<1>2. CASE e = "item_done"
  BY <1>2 DEF Consumed, Mappers
<1>3. CASE e \in {"completed", "failed"}
  BY <1>3 DEF Consumed, Mappers
<1>4. CASE e \notin {"text_added", "tool_added", "item_done", "completed", "failed"}
  BY <1>4 DEF Consumed, Mappers
<1> QED BY <1>1, <1>2, <1>3, <1>4

\* Before the stream nothing is sent, and no step of the request sends anything.
LEMMA RequestKeeps ==
    ASSUME StreamInv,
           \/ \E status \in {400, 404, 413} : Refuse(status)
           \/ \E body \in Bodies : CountTokens(body) \/ \E n, i \in BOOLEAN : Receive(body, n, i)
           \/ Prepare \/ Dispatch \/ StartStream
           \/ post.phase = "prepared" /\ \E texts, loses : Compress(texts, loses)
           \/ \E status \in {200, 401, 404, 502} : Answered(status)
    PROVE  StreamInv'
<1>1. UNCHANGED <<mapper, sent>> /\ MapperOK' /\ (Unopened' <=> Unopened) /\ (Peeking' <=> Peeking)
  <2>1. UNCHANGED <<mapper, sent>>
    BY ZenonT(40) DEF Refuse, CountTokens, Receive, Prepare, Dispatch, StartStream, Compress, Answered, Unsent
  <2>2. mapper' = mapper /\ sent' = sent
    BY <2>1
  <2>3. MapperOK'
    BY <2>2 DEF StreamInv, MapperOK
  <2>4. (Unopened' <=> Unopened) /\ (Peeking' <=> Peeking)
    BY <2>2 DEF Unopened, Peeking
  <2> QED BY <2>1, <2>3, <2>4
<1>2. post.phase \notin {"streaming", "answered"}
  <2>1. Prepare => post.phase = "received"
    BY DEF Prepare
  <2>2. Dispatch => post.phase = "compressed"
    BY DEF Dispatch
  <2>3. StartStream => post.phase = "dispatched"
    BY DEF StartStream
  <2>4. (\E status \in {200, 401, 404, 502} : Answered(status)) => post.phase = "dispatched"
    BY DEF Answered
  <2>5. (\E status \in {400, 404, 413} : Refuse(status)) => post.phase = "new"
    BY DEF Refuse
  <2>6. (\E body \in Bodies : CountTokens(body)) => post.phase = "new"
    BY DEF CountTokens
  <2>7. (\E body \in Bodies : \E n, i \in BOOLEAN : Receive(body, n, i)) => post.phase = "new"
    BY DEF Receive
  <2> QED BY <2>1, <2>2, <2>3, <2>4, <2>5, <2>6, <2>7
<1>3. PostOK /\ (post.phase = "new" => ~post.native)
  BY DEF StreamInv
<1>4. CASE \E body \in Bodies : \E n, i \in BOOLEAN : Receive(body, n, i)
  <2>1. PICK body \in Bodies, n \in BOOLEAN, i \in BOOLEAN : Receive(body, n, i)
    BY <1>4
  <2>2. post.phase = "new" /\ post'.phase = "received" /\ PostOK'
    BY <1>3, <2>1, ZenonT(40) DEF Receive, PostOK, Posts, Phases, Degradable, Features
  <2> QED BY <1>1, <1>2, <1>3, <2>2 DEF StreamInv
<1>5. CASE /\ PostOK' /\ post'.native = post.native
           /\ post'.phase \in {"answered", "prepared", "compressed", "dispatched", "streaming"}
  BY <1>1, <1>2, <1>5 DEF StreamInv, Unopened
<1>6. \/ \E body \in Bodies : \E n, i \in BOOLEAN : Receive(body, n, i)
      \/ /\ PostOK' /\ post'.native = post.native
         /\ post'.phase \in {"answered", "prepared", "compressed", "dispatched", "streaming"}
  <2>1. (\E status \in Statuses : Answer(status)) => PostOK' /\ post'.native = post.native /\ post'.phase = "answered"
    BY <1>3, AnswerSets
  <2>2. Prepare => \/ \E status \in Statuses : Answer(status)
                   \/ PostOK' /\ post'.native = post.native /\ post'.phase = "prepared"
    BY <1>3 DEF Prepare, PostOK, Posts, Phases, Statuses
  <2>3. Dispatch \/ StartStream \/ (\E texts, loses : Compress(texts, loses))
          => PostOK' /\ post'.native = post.native /\ post'.phase \in {"compressed", "dispatched", "streaming"}
    BY <1>3 DEF Dispatch, StartStream, Compress, PostOK, Posts, Phases
  <2> QED BY <2>1, <2>2, <2>3 DEF Refuse, CountTokens, Answered, Statuses
<1> QED BY <1>4, <1>5, <1>6

\* What the mapper starts from: the two opening events, or what was sent.
Base == sent \o (IF Peeking THEN Started ELSE <<>>)

\* What an event is added to is a stream in the middle of a message.
LEMMA BaseIsMid ==
    ASSUME StreamInv, post.phase = "streaming", ~post.native
    PROVE  Mid(Base, mapper.index, IsOpen(mapper)) /\ Base \in Seq(Events)
<1>1. CASE Peeking
  <2>1. sent = <<>> /\ mapper.index = 0 /\ IsOpen(mapper) = 0
    BY <1>1 DEF StreamInv, Unopened, IsOpen
  <2>2. Mid(Started, 0, 0) /\ Started \in Seq(Events)
    BY StartedIsMid DEF Mid
  <2>3. Base = Started
    BY <1>1, <2>1, <2>2 DEF Base
  <2> QED BY <2>1, <2>2, <2>3
<1>2. CASE ~Peeking
  <2>1. Mid(sent, mapper.index, IsOpen(mapper))
    BY <1>2 DEF StreamInv
  <2>2. sent \in Seq(Events)
    BY <2>1 DEF Mid
  <2>3. Base = sent
    BY <1>2, <2>2 DEF Base
  <2> QED BY <2>1, <2>2, <2>3
<1> QED BY <1>1, <1>2

\* What an event is mapped to are events of the stream.
LEMMA EmittedIsEvents ==
    ASSUME MapperOK, NEW m, m = [mapper EXCEPT !.state = "mapping", !.events = @ + 1], NEW e \in Upstream
    PROVE  Emitted(m, e) \in Seq(Events)
<1>1. m.index = mapper.index /\ m.open = mapper.open
  BY DEF MapperOK, Mappers
<1>2. CloseOpen(m) = CloseOpen(mapper) /\ CloseOpen(mapper) \in Seq(Events)
  BY <1>1, CloseOpenIsEvents DEF CloseOpen
<1> DEFINE start == Event("content_block_start", mapper.index + 1)
           text == Event("text_delta", mapper.index)
           json == Event("input_json_delta", mapper.index)
<1>3. start \in Events /\ text \in Events /\ json \in Events
  BY DEF Event, Events, EventTypes, MapperOK, Mappers
<1>4. Emitted(m, e) \in {CloseOpen(mapper) \o <<start>>, <<text>>, <<json>>, CloseOpen(mapper), <<>>}
  BY <1>1, <1>2 DEF Emitted, Opens
<1> HIDE DEF start, text, json
<1>5. <<start>> \in Seq(Events) /\ <<text>> \in Seq(Events) /\ <<json>> \in Seq(Events) /\ <<>> \in Seq(Events)
  BY <1>3
<1>6. CloseOpen(mapper) \o <<start>> \in Seq(Events)
  BY <1>2, <1>5
<1> QED BY <1>2, <1>4, <1>5, <1>6

\* An event of the adapter keeps the stream well formed.
LEMMA MapsKeeps ==
    ASSUME StreamInv, NEW e \in Upstream, Maps(e) PROVE StreamInv'
<1> DEFINE m == [mapper EXCEPT !.state = "mapping", !.events = @ + 1]
<1>1. /\ post.phase = "streaming" /\ ~post.native /\ MapperOK /\ PostOK
      /\ mapper' = Consumed(m, e)
      /\ sent' = sent \o (IF Peeking THEN Started ELSE <<>>) \o Emitted(m, e)
      /\ post' = [post EXCEPT !.status = 200]
  BY DEF Maps, Streaming, StreamInv
<1>2. post'.phase = "streaming" /\ ~post'.native /\ PostOK'
  BY <1>1, SMTT(30) DEF PostOK, Posts, Phases, Statuses
<1>3. MapperOK' /\ ~Peeking'
  <2>1. m \in Mappers /\ m.state = "mapping"
    BY <1>1, Mapping DEF MapperOK
  <2> HIDE DEF m
  <2>2. mapper' = Consumed(m, e)
    BY <1>1 DEF m
  <2> QED BY <2>1, <2>2, ConsumedIsMapper DEF MapperOK, Peeking
<1>4. sent' = Base \o Emitted(m, e)
  BY <1>1 DEF Base
<1>5. Mid(Base, mapper.index, IsOpen(mapper))
  BY <1>1, BaseIsMid
<1> HIDE DEF m
<1>6. Mid(Base \o Emitted(m, e), Consumed(m, e).index, IsOpen(Consumed(m, e)))
  BY <1>1, <1>5, EmitsRight DEF m
<1>7. Mid(sent', mapper'.index, IsOpen(mapper'))
  BY <1>1, <1>4, <1>6 DEF m
<1> QED BY <1>2, <1>3, <1>7 DEF StreamInv, IsOpen

\* Whoever ends the stream ends the message.
LEMMA EndingKeeps ==
    ASSUME StreamInv, Finishes \/ UpstreamEnds \/ \E status \in {401, 404, 502} : UpstreamRaises(status)
    PROVE  StreamInv'
<1>1. post.phase = "streaming" /\ MapperOK /\ PostOK
  BY DEF Finishes, UpstreamEnds, UpstreamRaises, Streaming, StreamInv
<1>2. post'.phase = "answered" /\ post'.native = post.native /\ PostOK'
  <2>1. \E status \in Statuses : Answer(status)
    BY DEF Finishes, UpstreamEnds, UpstreamRaises, Statuses
  <2> QED BY <1>1, <2>1, AnswerSets
<1>3. MapperOK'
  <2>1. CASE Finishes
    BY <1>1, <2>1 DEF Finishes, MapperOK, Mappers
  <2>2. CASE UpstreamEnds
    BY <1>1, <2>2 DEF UpstreamEnds, MapperOK, Mappers
  <2>3. CASE \E status \in {401, 404, 502} : UpstreamRaises(status)
    <3>1. mapper' = [mapper EXCEPT !.open = "none", !.state = "failed"]
      BY <2>3 DEF UpstreamRaises
    <3> QED BY <1>1, <3>1, ZenonT(40) DEF MapperOK, Mappers
  <2> QED BY <2>1, <2>2, <2>3
<1>4. ASSUME ~post.native PROVE sent' = <<>> \/ Ended(sent')
  <2>1. CASE Finishes
    <3>1. ~Peeking /\ sent' = sent \o Ends(mapper, mapper.state)
      BY <2>1 DEF Finishes, Peeking
    <3>2. Mid(sent, mapper.index, IsOpen(mapper))
      BY <1>1, <1>4, <3>1 DEF StreamInv
    <3> QED BY <1>1, <1>4, <3>1, <3>2, EndsRight
  <2>2. CASE UpstreamEnds
    <3>1. sent' = Base \o Ends(mapper, "ends")
      BY <1>4, <2>2 DEF UpstreamEnds, Base
    <3> QED BY <1>1, <1>4, <3>1, BaseIsMid, EndsRight
  <2>3. ASSUME NEW status \in {401, 404, 502}, UpstreamRaises(status)
        PROVE  sent' = <<>> \/ Ended(sent')
    <3>1. CASE Peeking
      BY <1>1, <1>4, <2>3, <3>1 DEF UpstreamRaises, StreamInv, Unopened
    <3>2. CASE ~Peeking
      <4>1. Mid(sent, mapper.index, IsOpen(mapper))
        BY <1>1, <1>4, <3>2 DEF StreamInv
      <4>2. sent' = sent \o Ends(mapper, "raises")
        BY <2>3, <3>2 DEF UpstreamRaises
      <4> QED BY <1>1, <1>4, <4>1, <4>2, EndsRight
    <3> QED BY <3>1, <3>2
  <2> QED BY <2>1, <2>2, <2>3
<1> QED BY <1>2, <1>3, <1>4 DEF StreamInv

\* A native stream is passed on as it is.
LEMMA ForwardsKeeps == ASSUME StreamInv, Forwards PROVE StreamInv'
<1>1. post.phase = "streaming" /\ post.native /\ MapperOK /\ PostOK
  BY DEF Forwards, Streaming, StreamInv
<1>2. post'.phase = "streaming" /\ post'.native /\ PostOK'
  BY <1>1 DEF Forwards, PostOK, Posts, Phases, Statuses
<1>3. MapperOK'
  BY <1>1, Mapping DEF Forwards, MapperOK
<1> QED BY <1>2, <1>3 DEF StreamInv

\* Every step keeps the invariant.
LEMMA RequestStep == ASSUME StreamInv, RequestNext PROVE StreamInv'
<1> DEFINE Asks == \E body \in Bodies : \/ CountTokens(body)
                                        \/ \E n, i \in BOOLEAN : Receive(body, n, i)
           Answers == \/ \E status \in {400, 404, 413} : Refuse(status)
                      \/ \E status \in {200, 401, 404, 502} : Answered(status)
           Compresses == /\ post.phase = "prepared"
                         /\ \/ \E texts \in [TextLeaves(request) -> Texts] : Compress(texts, FALSE)
                            \/ request.items # <<>> /\ Compress(<<>>, TRUE)
           Streams == \E e \in Upstream : Maps(e)
           Breaks == \E status \in {401, 404, 502} : UpstreamRaises(status)
<1>1. \/ Asks \/ Answers \/ Compresses \/ Streams \/ Breaks
      \/ Prepare \/ Dispatch \/ StartStream \/ Forwards \/ Finishes \/ UpstreamEnds
  BY ZenonT(40) DEF RequestNext
<1>2. Asks \/ Answers \/ Compresses => StreamInv'
  <2>1. Asks => StreamInv'
    BY RequestKeeps
  <2>2. Answers => StreamInv'
    BY RequestKeeps
  <2>3. Compresses => StreamInv'
    BY RequestKeeps, ZenonT(40)
  <2> HIDE DEF Asks, Answers, Compresses
  <2> QED BY <2>1, <2>2, <2>3
<1>3. Prepare \/ Dispatch \/ StartStream => StreamInv'
  BY RequestKeeps
<1>4. Streams => StreamInv'
  BY MapsKeeps
<1>5. Breaks \/ Finishes \/ UpstreamEnds => StreamInv'
  BY EndingKeeps
<1> HIDE DEF Asks, Answers, Compresses, Streams, Breaks
<1> QED BY <1>1, <1>2, <1>3, <1>4, <1>5, ForwardsKeeps

\* A request is answered with a well-formed stream, whatever its adapter emits: one open
\* block at a time, indexes in order, and one terminal event (anthropic_stream.py).
THEOREM StreamsAreWellFormed == RequestSpec => []StreamWellFormed
<1>1. RequestInit => StreamInv
  BY StreamInitially
<1>2. StreamInv /\ [RequestNext]_requestVars => StreamInv'
  <2> SUFFICES ASSUME StreamInv, [RequestNext]_requestVars PROVE StreamInv'
    OBVIOUS
  <2>1. CASE UNCHANGED requestVars
    BY <2>1 DEF requestVars, StreamInv, MapperOK, PostOK, Unopened, Peeking
  <2>2. CASE RequestNext
    BY <2>2, RequestStep
  <2> QED BY <2>1, <2>2
<1>3. StreamInv => StreamWellFormed
  BY StreamGood
<1> QED BY <1>1, <1>2, <1>3, PTL DEF RequestSpec

(***************************************************************************)
(* MessagesRequest: the body and its translation, for any bodies and texts.*)
(***************************************************************************)

-----------------------------------------------------------------------------
(* The strip and the gate.                                                 *)

\* Blocks that were stripped, and the payloads of them.
StrippedBlocks ==
    {b \in Blocks : b.kind # "thinking" /\ \A x \in b.marks : x[2] \notin Degradable \/ x[1] > MaxBlockDepth}
StrippedPayloads ==
    [params : SUBSET (Features \ Degradable), system : Seq(Texts), messages : Seq([content : Seq(StrippedBlocks)])]

LEMMA StripBlockStrips ==
    ASSUME NEW b \in Blocks
    PROVE  StripBlock(b) \in Blocks /\ (b.kind # "thinking" => StripBlock(b) \in StrippedBlocks)
<1>1. /\ StripBlock(b).kind = b.kind /\ StripBlock(b).text = b.text
      /\ StripBlock(b).marks = {x \in b.marks : x[2] \notin Degradable \/ x[1] > MaxBlockDepth}
      /\ StripBlock(b) \in Blocks
  BY DEF StripBlock, Blocks
<1> QED BY <1>1 DEF StrippedBlocks

\* StripContent goes through its blocks from the first to the last.
StripStep(kept, b) == IF b.kind = "thinking" THEN kept ELSE Append(kept, StripBlock(b))

LEMMA StripFolds ==
    ASSUME NEW c \in Seq(Blocks)
    PROVE  \E h : /\ h[0] = <<>> /\ StripContent(c) = h[Len(c)]
                  /\ \A k \in 1..Len(c) : h[k] = StripStep(h[k - 1], c[k])
<1> DEFINE n == Len(c)
           A == Seq(Blocks)
           g == [x \in (1..n) \X A |-> StripStep(x[2], c[x[1]])]
           eq(f) == [s \in SUBSET (1..n) |->
                       IF s = {} THEN <<>> ELSE StripStep(f[s \ {Max(s)}], c[Max(s)])]
           iter == CHOOSE f : f = eq(f)
           h == [k \in 0..n |-> iter[1..k]]
<1>1. n \in Nat /\ DOMAIN c = 1..n /\ \A i \in 1..n : c[i] \in Blocks
  OBVIOUS
<1>2. StripContent(c) = iter[1..n]
  BY <1>1 DEF StripContent, FoldLeft, MapThenFoldSet, StripStep
<1>3. \E f : f = eq(f)
  <2>1. ASSUME NEW x \in (1..n) \X A PROVE StripStep(x[2], c[x[1]]) \in A
    BY <1>1, <2>1, StripBlockStrips DEF StripStep
  <2>2. g \in [(1..n) \X A -> A] /\ <<>> \in A
    BY <2>1
  <2>3. PICK f \in [SUBSET (1..n) -> A] : Folded(f, g, <<>>, n)
    <3> HIDE DEF g, A, n
    <3> QED BY <1>1, <2>2, FoldsExist
  <2>4. ASSUME NEW s \in SUBSET (1..n), s # {}
        PROVE  g[<<Max(s), f[s \ {Max(s)}]>>] = StripStep(f[s \ {Max(s)}], c[Max(s)])
    <3>1. Max(s) \in 1..n
      BY <1>1, <2>4, MaxIs
    <3>2. f[s \ {Max(s)}] \in A
      BY <2>3
    <3> HIDE DEF A, n
    <3> QED BY <3>1, <3>2
  <2>5. f = eq(f)
    <3>1. f = [s \in SUBSET (1..n) |-> IF s = {} THEN <<>> ELSE g[<<Max(s), f[s \ {Max(s)}]>>]]
      BY <2>3 DEF Folded
    <3> HIDE DEF g, n
    <3> QED BY <3>1, <2>4
  <2> QED BY <2>5
<1>4. iter = eq(iter)
  <2> HIDE DEF eq
  <2> QED BY <1>3
<1> HIDE DEF iter
<1>5. iter[1..0] = <<>>
  <2>1. 1..0 = {}
    OBVIOUS
  <2> QED BY <1>4, <2>1
<1>6. ASSUME NEW k \in 1..n PROVE iter[1..k] = StripStep(iter[1..(k - 1)], c[k])
  <2>1. k \in Nat /\ k # 0 /\ 1..k \in SUBSET (1..n)
    BY <1>1
  <2>2. Max(1..k) = k /\ (1..k) \ {Max(1..k)} = 1..(k - 1) /\ 1..k # {}
    BY <2>1, MaxUpto
  <2> QED BY <1>4, <2>1, <2>2
<1>7. h[0] = <<>> /\ h[n] = StripContent(c)
  BY <1>1, <1>2, <1>5
<1>8. ASSUME NEW k \in 1..n PROVE h[k] = StripStep(h[k - 1], c[k])
  <2>1. k \in 0..n /\ k - 1 \in 0..n
    BY <1>1
  <2> HIDE DEF n
  <2> QED BY <1>6, <2>1
<1> HIDE DEF h
<1> QED BY <1>7, <1>8

LEMMA StripContentStrips ==
    ASSUME NEW c \in Seq(Blocks)
    PROVE  StripContent(c) \in Seq(StrippedBlocks)
<1>1. PICK h : /\ h[0] = <<>> /\ StripContent(c) = h[Len(c)]
               /\ \A k \in 1..Len(c) : h[k] = StripStep(h[k - 1], c[k])
  BY StripFolds
<1> DEFINE S == {k \in Nat : k <= Len(c) => h[k] \in Seq(StrippedBlocks)}
<1>2. 0 \in S
  <2>1. h[0] \in Seq(StrippedBlocks)
    BY <1>1
  <2> QED BY <2>1
<1>3. ASSUME NEW k \in Nat, k \in S PROVE k + 1 \in S
  <2> SUFFICES ASSUME k + 1 <= Len(c) PROVE h[k + 1] \in Seq(StrippedBlocks)
    OBVIOUS
  <2>1. h[k] \in Seq(StrippedBlocks) /\ k + 1 \in 1..Len(c) /\ (k + 1) - 1 = k /\ c[k + 1] \in Blocks
    BY <1>3
  <2>2. h[k + 1] = StripStep(h[k], c[k + 1])
    BY <1>1, <2>1
  <2>3. c[k + 1].kind # "thinking" => StripBlock(c[k + 1]) \in StrippedBlocks
    BY <2>1, StripBlockStrips
  <2> QED BY <2>1, <2>2, <2>3 DEF StripStep
<1>4. Len(c) \in S
  <2> HIDE DEF S
  <2> QED BY <1>2, <1>3, SetInduction
<1> QED BY <1>1, <1>4

\* A payload that was stripped has nothing left that the gate would see and could not
\* refuse.
LEMMA StripStrips ==
    ASSUME NEW body \in Payloads
    PROVE  Strip(body) \in StrippedPayloads
<1> DEFINE R == [content : Seq(Blocks)]
<1>0. body.messages \in Seq(R) /\ body = [params |-> body.params, system |-> body.system, messages |-> body.messages]
  <2> HIDE DEF R
  <2> QED BY DEF Payloads, R
<1>6. /\ DOMAIN body.messages = 1..Len(body.messages) /\ Len(body.messages) \in Nat
      /\ \A m \in DOMAIN body.messages : body.messages[m] \in R
  <2> HIDE DEF R
  <2> QED BY <1>0
<1>1. \A m \in DOMAIN body.messages : body.messages[m].content \in Seq(Blocks)
  BY <1>6
<1>2. \A m \in DOMAIN body.messages : StripContent(body.messages[m].content) \in Seq(StrippedBlocks)
  BY <1>1, StripContentStrips
<1> DEFINE ms == [m \in DOMAIN body.messages |-> [content |-> StripContent(body.messages[m].content)]]
<1>3. ms \in Seq([content : Seq(StrippedBlocks)])
  BY <1>2, <1>6
<1>4. Strip(body) = [params |-> body.params \ Degradable, system |-> body.system, messages |-> ms]
  <2>1. Strip(body) = [body EXCEPT !.params = body.params \ Degradable, !.messages = ms]
    BY DEF Strip
  <2> HIDE DEF ms
  <2> QED BY <1>0, <2>1
<1> HIDE DEF ms
<1>5. body.params \ Degradable \in SUBSET (Features \ Degradable) /\ body.system \in Seq(Texts)
  BY DEF Payloads
<1> QED BY <1>3, <1>4, <1>5 DEF StrippedPayloads

LEMMA StrippedShowsNothing ==
    ASSUME NEW body \in StrippedPayloads
    PROVE  Extract(body) \cap Degradable = {}
<1> SUFFICES ASSUME NEW d, d \in Extract(body), d \in Degradable PROVE FALSE
  OBVIOUS
<1>1. d \notin body.params
  BY DEF StrippedPayloads
<1> DEFINE R == [content : Seq(StrippedBlocks)]
<1>6. body.messages \in Seq(R)
  BY DEF StrippedPayloads
<1>0. PICK b \in AllBlocks(body) : \E x \in Marks(b) : d = x[2] /\ x[1] <= MaxBlockDepth
  <2>1. d \in UNION {Seen(b) : b \in AllBlocks(body)}
    BY <1>1 DEF Extract
  <2>2. PICK b \in AllBlocks(body) : d \in Seen(b)
    BY <2>1
  <2> QED BY <2>2 DEF Seen
<1>2. PICK x \in Marks(b) : d = x[2] /\ x[1] <= MaxBlockDepth
  BY <1>0
<1>3. b \in StrippedBlocks
  <2>1. PICK m \in DOMAIN body.messages : b \in Range(body.messages[m].content)
    BY <1>0 DEF AllBlocks
  <2>2. body.messages[m].content \in Seq(StrippedBlocks)
    <3>1. body.messages[m] \in R
      <4> HIDE DEF R
      <4> QED BY <1>6, <2>1
    <3> QED BY <3>1
  <2> QED BY <2>1, <2>2 DEF Range
<1>4. CASE x \in b.marks
  <2>1. x[1] > MaxBlockDepth /\ x[1] \in Nat
    BY <1>2, <1>3, <1>4 DEF StrippedBlocks, Blocks
  <2> QED BY <1>2, <2>1, DepthOK
<1>5. CASE x \notin b.marks
  <2>1. b.kind # "thinking"
    BY <1>3 DEF StrippedBlocks
  <2>2. x = <<0, "image">>
    BY <1>2, <1>5, <2>1 DEF Marks
  <2> QED BY <1>2, <2>2 DEF Degradable
<1> QED BY <1>4, <1>5

-----------------------------------------------------------------------------
(* The places that the parts of a request come from.                       *)

Places == Nat \X Nat
Parts == [kind : Kinds, text : Texts \cup {None}, from : Places]
Items == [kind : Kinds \cup {"message"}, parts : Seq(Parts)]
Addressed == [address : Places, pointer : Places]
Accs == [items : Seq(Items), parts : Seq(Parts), pointers : Seq(Places), sources : SUBSET Addressed]

\* Where the parts of a message item, or of all items, come from.
FromsOf(parts) == [p \in DOMAIN parts |-> parts[p].from]
AllFroms(items) == FlattenSeq([i \in DOMAIN items |-> FromsOf(items[i].parts)])
AccFroms(acc) == AllFroms(acc.items) \o FromsOf(acc.parts)

LEMMA FromsAppend ==
    ASSUME NEW parts \in Seq(Parts)
    PROVE  /\ FromsOf(parts) \in Seq(Places) /\ Len(FromsOf(parts)) = Len(parts)
           /\ \A x \in Parts : FromsOf(Append(parts, x)) = Append(FromsOf(parts), x.from)
           /\ FromsOf(<<>>) = <<>>
<1>1. /\ Len(parts) \in Nat /\ DOMAIN parts = 1..Len(parts)
      /\ \A p \in DOMAIN parts : parts[p] \in Parts
  <2> HIDE DEF Parts
  <2> QED OBVIOUS
<1>2. \A p \in DOMAIN parts : parts[p].from \in Places
  BY <1>1 DEF Parts
<1>3. FromsOf(parts) \in Seq(Places) /\ Len(FromsOf(parts)) = Len(parts)
  BY <1>1, <1>2 DEF FromsOf
<1>4. ASSUME NEW x \in Parts PROVE FromsOf(Append(parts, x)) = Append(FromsOf(parts), x.from)
  <2>1. x.from \in Places
    BY DEF Parts
  <2>2. /\ Append(parts, x) \in Seq(Parts) /\ Len(Append(parts, x)) = Len(parts) + 1
        /\ DOMAIN Append(parts, x) = 1..(Len(parts) + 1)
        /\ \A p \in 1..Len(parts) : Append(parts, x)[p] = parts[p]
        /\ Append(parts, x)[Len(parts) + 1] = x
    <3> HIDE DEF Parts
    <3> QED OBVIOUS
  <2> DEFINE new == Append(parts, x)
             l == FromsOf(new)
             r == Append(FromsOf(parts), x.from)
  <2>3. /\ l = [p \in 1..(Len(parts) + 1) |-> new[p].from]
        /\ FromsOf(parts) = [p \in 1..Len(parts) |-> parts[p].from]
    BY <1>1, <2>2 DEF FromsOf
  <2>4. r = [p \in 1..(Len(parts) + 1) |-> IF p = Len(parts) + 1 THEN x.from ELSE FromsOf(parts)[p]]
    BY <1>1, <1>3, <2>1
  <2>5. \A p \in 1..(Len(parts) + 1) : p # Len(parts) + 1 => p \in 1..Len(parts)
    BY <1>1
  <2>6. \A p \in 1..(Len(parts) + 1) :
            new[p].from = IF p = Len(parts) + 1 THEN x.from ELSE FromsOf(parts)[p]
    <3> HIDE DEF Parts
    <3> QED BY <2>2, <2>3, <2>5
  <2> HIDE DEF l, r, new
  <2>7. l = r
    BY <2>3, <2>4, <2>6
  <2> QED BY <2>7 DEF l, r, new
<1>5. FromsOf(<<>>) = <<>>
  BY DEF FromsOf
<1> QED BY <1>3, <1>4, <1>5

LEMMA AllFromsAppend ==
    ASSUME NEW items \in Seq(Items)
    PROVE  /\ AllFroms(items) \in Seq(Places)
           /\ \A x \in Items : AllFroms(Append(items, x)) = AllFroms(items) \o FromsOf(x.parts)
<1> DEFINE each(t) == [i \in DOMAIN t |-> FromsOf(t[i].parts)]
<1>1. ASSUME NEW x \in Items PROVE x.parts \in Seq(Parts) /\ FromsOf(x.parts) \in Seq(Places)
  <2>1. x.parts \in Seq(Parts)
    BY DEF Items
  <2> QED BY <2>1, FromsAppend
<1>2. /\ Len(items) \in Nat /\ DOMAIN items = 1..Len(items)
      /\ \A i \in DOMAIN items : items[i] \in Items
  <2> HIDE DEF Items
  <2> QED OBVIOUS
<1>3. each(items) \in Seq(Seq(Places)) /\ Len(each(items)) = Len(items)
  <2>1. \A i \in 1..Len(items) : FromsOf(items[i].parts) \in Seq(Places)
    BY <1>1, <1>2
  <2> HIDE DEF Places
  <2> QED BY <1>2, <2>1
<1>4. AllFroms(items) \in Seq(Places)
  <2> HIDE DEF each
  <2>1. FlattenSeq(each(items)) \in Seq(Places)
    BY <1>3, FlattenInSeq
  <2> QED BY <2>1 DEF AllFroms, each
<1>5. ASSUME NEW x \in Items PROVE AllFroms(Append(items, x)) = AllFroms(items) \o FromsOf(x.parts)
  <2> DEFINE more == Append(items, x)
  <2>1. /\ DOMAIN more = 1..(Len(items) + 1) /\ more[Len(items) + 1] = x
        /\ \A i \in 1..Len(items) : more[i] = items[i]
    <3> HIDE DEF Items
    <3> QED OBVIOUS
  <2> HIDE DEF more
  <2>2. FromsOf(x.parts) \in Seq(Places)
    BY <1>1
  <2>3. each(more) = Append(each(items), FromsOf(x.parts))
    <3> DEFINE r == Append(each(items), FromsOf(x.parts))
    <3>1. each(more) = [i \in 1..(Len(items) + 1) |-> FromsOf(more[i].parts)]
      BY <2>1
    <3>2. each(items) = [i \in 1..Len(items) |-> FromsOf(items[i].parts)]
      BY <1>2
    <3>3. r = [i \in 1..(Len(items) + 1) |->
                  IF i = Len(items) + 1 THEN FromsOf(x.parts) ELSE each(items)[i]]
      <4> HIDE DEF each
      <4> QED BY <1>2, <1>3, <2>2
    <3>4. \A i \in 1..(Len(items) + 1) : i # Len(items) + 1 => i \in 1..Len(items)
      BY <1>2
    <3>5. \A i \in 1..(Len(items) + 1) :
              FromsOf(more[i].parts) = IF i = Len(items) + 1 THEN FromsOf(x.parts) ELSE each(items)[i]
      <4> HIDE DEF r
      <4> QED BY <2>1, <3>2, <3>4
    <3> HIDE DEF each, r
    <3>6. each(more) = r
      BY <3>1, <3>3, <3>5
    <3> QED BY <3>6 DEF r
  <2>4. FlattenSeq(each(more)) = FlattenSeq(each(items)) \o FromsOf(x.parts)
    <3> HIDE DEF each
    <3> QED BY <1>3, <2>2, <2>3, FlattenAppend
  <2> QED BY <2>4 DEF AllFroms, more
<1> QED BY <1>4, <1>5

-----------------------------------------------------------------------------
(* What becomes of one block.                                              *)

\* A recorded source is the address of a part that comes from its pointer.
SourceAt(items, s) ==
    /\ s.address[1] \in DOMAIN items /\ s.address[2] \in DOMAIN items[s.address[1]].parts
    /\ items[s.address[1]].parts[s.address[2]].from = s.pointer

\* The pointers are queued beside their parts, and what is recorded is right.
Sound(acc) ==
    /\ acc.pointers = FromsOf(acc.parts)
    /\ \A s \in acc.sources : SourceAt(acc.items, s)

LEMMA SourcesStay ==
    ASSUME NEW items \in Seq(Items), NEW x \in Items, NEW s \in Addressed, SourceAt(items, s)
    PROVE  SourceAt(Append(items, x), s)
<1>1. /\ DOMAIN items = 1..Len(items) /\ DOMAIN Append(items, x) = 1..(Len(items) + 1)
      /\ \A i \in 1..Len(items) : Append(items, x)[i] = items[i]
  <2> HIDE DEF Items
  <2> QED OBVIOUS
<1>2. Len(items) \in Nat
  OBVIOUS
<1>3. \A i \in DOMAIN items : i \in DOMAIN Append(items, x) /\ Append(items, x)[i] = items[i]
  BY <1>1, <1>2
<1> QED BY <1>3 DEF SourceAt

LEMMA AccIs ==
    ASSUME NEW acc \in Accs
    PROVE  /\ acc.items \in Seq(Items) /\ acc.parts \in Seq(Parts) /\ acc.pointers \in Seq(Places)
           /\ acc.sources \in SUBSET Addressed
           /\ acc = [items |-> acc.items, parts |-> acc.parts, pointers |-> acc.pointers, sources |-> acc.sources]
BY DEF Accs

LEMMA FlushKeeps ==
    ASSUME NEW acc \in Accs, Sound(acc)
    PROVE  /\ Flush(acc) \in Accs /\ Sound(Flush(acc))
           /\ Flush(acc).parts = <<>> /\ Flush(acc).pointers = <<>>
           /\ AccFroms(Flush(acc)) = AccFroms(acc)
<1>0. /\ acc.items \in Seq(Items) /\ acc.parts \in Seq(Parts) /\ acc.pointers \in Seq(Places)
      /\ acc.sources \in SUBSET Addressed
  BY AccIs
<1>a. acc.pointers = FromsOf(acc.parts) /\ \A s \in acc.sources : SourceAt(acc.items, s)
  BY DEF Sound
<1>1. CASE acc.parts = <<>>
  <2>1. Flush(acc) = acc
    BY <1>1 DEF Flush
  <2>2. acc.pointers = <<>>
    BY <1>1, <1>a, FromsAppend DEF FromsOf
  <2> QED BY <1>1, <2>1, <2>2
<1>2. CASE acc.parts # <<>>
  <2> DEFINE it == [kind |-> "message", parts |-> acc.parts]
             items == Append(acc.items, it)
             leaves == {q \in DOMAIN acc.parts : q <= Len(acc.pointers) /\ acc.parts[q].kind = "text"}
             place(p) == [address |-> <<Len(acc.items) + 1, p>>, pointer |-> acc.pointers[p]]
             new == {place(p) : p \in leaves}
  <2>1. Flush(acc) = [items |-> items, parts |-> <<>>, pointers |-> <<>>, sources |-> acc.sources \cup new]
    BY <1>2 DEF Flush
  <2>2. it \in Items /\ it.parts = acc.parts
    BY <1>0 DEF Items
  <2> HIDE DEF it
  <2>3. /\ items \in Seq(Items) /\ Len(acc.items) \in Nat
        /\ Len(acc.items) + 1 \in DOMAIN items /\ items[Len(acc.items) + 1] = it
    <3> HIDE DEF Items
    <3> QED BY <1>0, <2>2
  <2>4. /\ DOMAIN acc.parts = 1..Len(acc.parts) /\ Len(acc.parts) \in Nat
        /\ Len(acc.pointers) = Len(acc.parts) /\ DOMAIN acc.pointers = 1..Len(acc.parts)
        /\ \A p \in DOMAIN acc.parts : acc.pointers[p] \in Places /\ acc.pointers[p] = acc.parts[p].from
    <3>1. FromsOf(acc.parts) \in Seq(Places) /\ Len(FromsOf(acc.parts)) = Len(acc.parts)
      BY <1>0, FromsAppend
    <3>2. DOMAIN acc.parts = 1..Len(acc.parts) /\ Len(acc.parts) \in Nat
      BY <1>0
    <3>3. Len(acc.pointers) = Len(acc.parts) /\ DOMAIN acc.pointers = 1..Len(acc.parts)
      BY <1>0, <1>a, <3>1
    <3>4. \A p \in DOMAIN acc.parts : acc.pointers[p] = acc.parts[p].from
      BY <1>a DEF FromsOf
    <3>5. \A p \in DOMAIN acc.parts : acc.pointers[p] \in Places
      <4> HIDE DEF Places
      <4> QED BY <1>0, <3>2, <3>3
    <3> QED BY <3>2, <3>3, <3>4, <3>5
  <2>5. ASSUME NEW p \in leaves PROVE place(p) \in Addressed /\ SourceAt(items, place(p))
    <3>1. p \in Nat /\ p \in DOMAIN acc.parts
      BY <2>4
    <3>2. acc.pointers[p] \in Places /\ acc.pointers[p] = acc.parts[p].from
      BY <2>4
    <3>3. place(p) \in Addressed
      BY <2>3, <3>1, <3>2 DEF Addressed, Places
    <3>4. /\ place(p).address[1] = Len(acc.items) + 1 /\ place(p).address[2] = p
          /\ place(p).pointer = acc.pointers[p]
      OBVIOUS
    <3> HIDE DEF place, items
    <3> QED BY <2>2, <2>3, <3>1, <3>2, <3>3, <3>4 DEF SourceAt
  <2>6. new \in SUBSET Addressed
    <3> HIDE DEF place, leaves
    <3> QED BY <2>5
  <2>7. Flush(acc) \in Accs
    <3>1. <<>> \in Seq(Parts) /\ <<>> \in Seq(Places) /\ acc.sources \cup new \in SUBSET Addressed
      BY <1>0, <2>6
    <3> HIDE DEF items, new
    <3> QED BY <2>1, <2>3, <3>1 DEF Accs
  <2>8. \A s \in acc.sources \cup new : SourceAt(items, s)
    <3>1. \A s \in acc.sources : SourceAt(items, s)
      BY <1>0, <1>a, <2>2, SourcesStay
    <3>2. \A s \in new : SourceAt(items, s)
      <4> HIDE DEF place, leaves
      <4> QED BY <2>5
    <3> HIDE DEF new
    <3> QED BY <3>1, <3>2
  <2>9. Sound(Flush(acc))
    <3>1. FromsOf(<<>>) = <<>>
      BY <1>0, FromsAppend
    <3> HIDE DEF items, new
    <3> QED BY <2>1, <2>8, <3>1 DEF Sound
  <2>10. AccFroms(Flush(acc)) = AccFroms(acc)
    <3>1. AllFroms(items) = AllFroms(acc.items) \o FromsOf(acc.parts) /\ AllFroms(items) \in Seq(Places)
      BY <1>0, <2>2, <2>3, AllFromsAppend
    <3>2. FromsOf(<<>>) = <<>>
      BY <1>0, FromsAppend
    <3>3. AllFroms(items) \o <<>> = AllFroms(items)
      BY <3>1
    <3>4. Flush(acc).items = items /\ Flush(acc).parts = <<>>
      <4> HIDE DEF items, new
      <4> QED BY <2>1
    <3>5. AccFroms(Flush(acc)) = AllFroms(items) \o FromsOf(<<>>)
      <4> HIDE DEF items
      <4> QED BY <3>4 DEF AccFroms
    <3> HIDE DEF items
    <3> QED BY <3>1, <3>2, <3>3, <3>5 DEF AccFroms
  <2> HIDE DEF items, new
  <2> QED BY <2>1, <2>7, <2>9, <2>10
<1> QED BY <1>1, <1>2

LEMMA AddPartKeeps ==
    ASSUME NEW acc \in Accs, Sound(acc), NEW b \in Blocks, NEW from \in Places
    PROVE  /\ AddPart(acc, b, from) \in Accs /\ Sound(AddPart(acc, b, from))
           /\ AccFroms(AddPart(acc, b, from)) = Append(AccFroms(acc), from)
<1> DEFINE x == Part(b, from)
           parts == Append(acc.parts, x)
           pointers == Append(acc.pointers, from)
<1>0. /\ acc.items \in Seq(Items) /\ acc.parts \in Seq(Parts) /\ acc.pointers \in Seq(Places)
      /\ acc.sources \in SUBSET Addressed
  BY AccIs
<1>1. AddPart(acc, b, from)
      = [items |-> acc.items, parts |-> parts, pointers |-> pointers, sources |-> acc.sources]
  <2> HIDE DEF x
  <2>1. AddPart(acc, b, from) = [acc EXCEPT !.parts = parts, !.pointers = pointers]
    BY DEF AddPart, x
  <2> HIDE DEF parts, pointers
  <2> QED BY <2>1, AccIs
<1>2. x \in Parts /\ x.from = from
  BY DEF Part, Parts, Blocks
<1> HIDE DEF x
<1>3. parts \in Seq(Parts) /\ pointers \in Seq(Places)
  <2> HIDE DEF Parts, Places
  <2> QED BY <1>0, <1>2
<1>4. FromsOf(parts) = Append(FromsOf(acc.parts), from) /\ FromsOf(acc.parts) \in Seq(Places)
  BY <1>0, <1>2, FromsAppend
<1>5. AllFroms(acc.items) \in Seq(Places)
  BY <1>0, AllFromsAppend
<1>6. AllFroms(acc.items) \o Append(FromsOf(acc.parts), from) = Append(AllFroms(acc.items) \o FromsOf(acc.parts), from)
  <2> HIDE DEF Places
  <2> QED BY <1>4, <1>5
<1> HIDE DEF parts
<1>7. pointers = FromsOf(parts)
  BY <1>4 DEF Sound
<1> HIDE DEF pointers
<1>8. AddPart(acc, b, from) \in Accs
  BY <1>0, <1>1, <1>3 DEF Accs
<1>9. Sound(AddPart(acc, b, from))
  BY <1>1, <1>7 DEF Sound
<1>10. AccFroms(AddPart(acc, b, from)) = Append(AccFroms(acc), from)
  BY <1>1, <1>4, <1>6 DEF AccFroms
<1> QED BY <1>8, <1>9, <1>10

LEMMA AddItemKeeps ==
    ASSUME NEW acc \in Accs, Sound(acc), NEW b \in Blocks, NEW from \in Places
    PROVE  /\ AddItem(acc, b, from) \in Accs /\ Sound(AddItem(acc, b, from))
           /\ AccFroms(AddItem(acc, b, from)) = Append(AccFroms(acc), from)
<1> DEFINE a == Flush(acc)
           x == Part(b, from)
           it == [kind |-> b.kind, parts |-> <<x>>]
           items == Append(a.items, it)
<1>0. a \in Accs /\ Sound(a) /\ a.parts = <<>> /\ a.pointers = <<>> /\ AccFroms(a) = AccFroms(acc)
  BY FlushKeeps
<1>1. AddItem(acc, b, from) = [a EXCEPT !.items = items]
  BY DEF AddItem
<1> HIDE DEF a
<1>2. a.items \in Seq(Items) /\ a.sources \in SUBSET Addressed
  BY <1>0, AccIs
<1>3. x \in Parts /\ x.from = from
  BY DEF Part, Parts, Blocks
<1> HIDE DEF x
<1>4. it \in Items /\ it.parts = <<x>>
  <2>1. <<x>> \in Seq(Parts)
    <3> HIDE DEF Parts
    <3> QED BY <1>3
  <2> QED BY <2>1 DEF Items, Blocks
<1> HIDE DEF it
<1>5. items \in Seq(Items)
  <2> HIDE DEF Items
  <2> QED BY <1>2, <1>4
<1>6. AddItem(acc, b, from) = [items |-> items, parts |-> <<>>, pointers |-> <<>>, sources |-> a.sources]
  <2> HIDE DEF items
  <2> QED BY <1>0, <1>1, AccIs
<1>7. FromsOf(it.parts) = <<from>> /\ FromsOf(<<>>) = <<>>
  BY <1>3, <1>4 DEF FromsOf
<1>8. AllFroms(items) = AllFroms(a.items) \o <<from>> /\ AllFroms(a.items) \in Seq(Places)
  BY <1>2, <1>4, <1>7, AllFromsAppend
<1>9. AccFroms(a) = AllFroms(a.items)
  BY <1>0, <1>7, <1>8 DEF AccFroms
<1>10. AllFroms(items) \o <<>> = Append(AllFroms(a.items), from)
  <2> HIDE DEF Places, items
  <2> QED BY <1>8
<1>11. \A s \in a.sources : SourceAt(items, s)
  BY <1>0, <1>2, <1>4, SourcesStay DEF Sound
<1> HIDE DEF items
<1>12. AddItem(acc, b, from) \in Accs
  <2>1. <<>> \in Seq(Parts) /\ <<>> \in Seq(Places)
    OBVIOUS
  <2> QED BY <1>2, <1>5, <1>6, <2>1 DEF Accs
<1>13. Sound(AddItem(acc, b, from))
  BY <1>6, <1>7, <1>11 DEF Sound
<1>14. AccFroms(AddItem(acc, b, from)) = Append(AccFroms(acc), from)
  BY <1>0, <1>6, <1>7, <1>9, <1>10 DEF AccFroms
<1> QED BY <1>12, <1>13, <1>14

-----------------------------------------------------------------------------
(* What becomes of one message.                                            *)

\* What MessageItems does with one block.
ItemStep(a, m, content, i) ==
    IF content[i].kind \in {"text", "image"} THEN AddPart(a, content[i], <<m, i>>)
    ELSE AddItem(a, content[i], <<m, i>>)

LEMMA ItemStepKeeps ==
    ASSUME NEW a \in Accs, Sound(a), NEW m \in Nat, NEW content \in Seq(Blocks), NEW i \in 1..Len(content)
    PROVE  /\ ItemStep(a, m, content, i) \in Accs /\ Sound(ItemStep(a, m, content, i))
           /\ AccFroms(ItemStep(a, m, content, i)) = Append(AccFroms(a), <<m, i>>)
<1>1. content[i] \in Blocks
  <2> HIDE DEF Blocks
  <2> QED OBVIOUS
<1>2. <<m, i>> \in Places
  BY DEF Places
<1> QED BY <1>1, <1>2, AddPartKeeps, AddItemKeeps DEF ItemStep

\* MessageItems goes through the blocks of a message from the first to the last.
LEMMA ItemsFold ==
    ASSUME NEW acc \in Accs, Sound(acc), NEW m \in Nat, NEW content \in Seq(Blocks)
    PROVE  \E h : /\ h[0] = acc /\ MessageItems(acc, m, content) = Flush(h[Len(content)])
                  /\ \A k \in 1..Len(content) : h[k] = ItemStep(h[k - 1], m, content, k)
<1> DEFINE n == Len(content)
           A == {a \in Accs : Sound(a)}
           g == [x \in (1..n) \X A |-> ItemStep(x[2], m, content, x[1])]
           ids == [i \in DOMAIN content |-> i]
           eq(f) == [s \in SUBSET (1..n) |->
                       IF s = {} THEN acc ELSE ItemStep(f[s \ {Max(s)}], m, content, Max(s))]
           raw(f) == [s \in SUBSET (1..n) |->
                       IF s = {} THEN acc ELSE ItemStep(f[s \ {Max(s)}], m, content, ids[Max(s)])]
           iter == CHOOSE f : f = raw(f)
           h == [k \in 0..n |-> iter[1..k]]
<1>1. n \in Nat /\ DOMAIN content = 1..n /\ DOMAIN ids = 1..n /\ \A i \in 1..n : ids[i] = i
  OBVIOUS
<1>2. MessageItems(acc, m, content) = Flush(iter[1..n])
  <2>1. MessageItems(acc, m, content)
        = Flush(FoldLeft(LAMBDA a, i : ItemStep(a, m, content, i), acc, ids))
    BY DEF MessageItems, ItemStep
  <2>2. FoldLeft(LAMBDA a, i : ItemStep(a, m, content, i), acc, ids) = iter[1..n]
    <3> HIDE DEF ids
    <3> QED BY <1>1 DEF FoldLeft, MapThenFoldSet
  <2> HIDE DEF iter
  <2> QED BY <2>1, <2>2
<1>9. ASSUME NEW f PROVE raw(f) = eq(f)
  <2>1. ASSUME NEW s \in SUBSET (1..n), s # {}
        PROVE  ids[Max(s)] = Max(s)
    <3>1. Max(s) \in 1..n
      BY <1>1, <2>1, MaxIs
    <3> HIDE DEF ids, n
    <3> QED BY <1>1, <3>1
  <2> HIDE DEF ids, n
  <2> QED BY <2>1
<1>3. \E f : f = raw(f)
  <2>1. ASSUME NEW x \in (1..n) \X A PROVE ItemStep(x[2], m, content, x[1]) \in A
    BY <1>1, <2>1, ItemStepKeeps
  <2>2. g \in [(1..n) \X A -> A] /\ acc \in A
    <3> HIDE DEF A
    <3>1. acc \in A
      BY DEF A
    <3> QED BY <2>1, <3>1
  <2>3. PICK f \in [SUBSET (1..n) -> A] : Folded(f, g, acc, n)
    <3> HIDE DEF g, A, n
    <3> QED BY <1>1, <2>2, FoldsExist
  <2>4. ASSUME NEW s \in SUBSET (1..n), s # {}
        PROVE  g[<<Max(s), f[s \ {Max(s)}]>>] = ItemStep(f[s \ {Max(s)}], m, content, Max(s))
    <3>1. Max(s) \in 1..n
      BY <1>1, <2>4, MaxIs
    <3>2. f[s \ {Max(s)}] \in A
      BY <2>3
    <3> HIDE DEF A, n
    <3> QED BY <3>1, <3>2
  <2>5. f = eq(f)
    <3>1. f = [s \in SUBSET (1..n) |-> IF s = {} THEN acc ELSE g[<<Max(s), f[s \ {Max(s)}]>>]]
      BY <2>3 DEF Folded
    <3> HIDE DEF g, n
    <3> QED BY <3>1, <2>4
  <2> HIDE DEF raw, eq
  <2> QED BY <2>5, <1>9
<1>4. iter = eq(iter)
  <2>1. iter = raw(iter)
    <3> HIDE DEF raw
    <3> QED BY <1>3
  <2> HIDE DEF iter, raw, eq
  <2> QED BY <2>1, <1>9
<1> HIDE DEF iter
<1>5. iter[1..0] = acc
  <2>1. 1..0 = {}
    OBVIOUS
  <2> QED BY <1>4, <2>1
<1>6. ASSUME NEW k \in 1..n PROVE iter[1..k] = ItemStep(iter[1..(k - 1)], m, content, k)
  <2>1. k \in Nat /\ k # 0 /\ 1..k \in SUBSET (1..n)
    BY <1>1
  <2>2. Max(1..k) = k /\ (1..k) \ {Max(1..k)} = 1..(k - 1) /\ 1..k # {}
    BY <2>1, MaxUpto
  <2> QED BY <1>4, <2>1, <2>2
<1>7. h[0] = acc /\ MessageItems(acc, m, content) = Flush(h[n])
  BY <1>1, <1>2, <1>5
<1>8. ASSUME NEW k \in 1..n PROVE h[k] = ItemStep(h[k - 1], m, content, k)
  <2>1. k \in 0..n /\ k - 1 \in 0..n
    BY <1>1
  <2> HIDE DEF n
  <2> QED BY <1>6, <2>1
<1> HIDE DEF h
<1> QED BY <1>7, <1>8

\* The places of the first k blocks of message m.
PlacesOf(m, k) == [i \in 1..k |-> <<m, i>>]

LEMMA PlacesGrow ==
    ASSUME NEW s, s \in Seq(Places), NEW m \in Nat, NEW k \in Nat
    PROVE  Append(s \o PlacesOf(m, k), <<m, k + 1>>) = s \o PlacesOf(m, k + 1)
<1>1. PlacesOf(m, k) \in Seq(Places) /\ Len(PlacesOf(m, k)) = k /\ DOMAIN PlacesOf(m, k) = 1..k
  BY DEF PlacesOf, Places
<1>2. \A i \in 1..(k + 1) : i # k + 1 => i \in 1..k
  OBVIOUS
<1>3. \A i \in 1..k : PlacesOf(m, k)[i] = <<m, i>>
  BY DEF PlacesOf
<1>4. <<m, k + 1>> \in Places
  BY DEF Places
<1>5. Append(PlacesOf(m, k), <<m, k + 1>>)
      = [i \in 1..(k + 1) |-> IF i = k + 1 THEN <<m, k + 1>> ELSE PlacesOf(m, k)[i]]
  BY <1>1, <1>4
<1>6. \A i \in 1..(k + 1) : (IF i = k + 1 THEN <<m, k + 1>> ELSE PlacesOf(m, k)[i]) = <<m, i>>
  BY <1>2, <1>3
<1>7. Append(PlacesOf(m, k), <<m, k + 1>>) = PlacesOf(m, k + 1)
  BY <1>5, <1>6 DEF PlacesOf
<1> DEFINE t == PlacesOf(m, k)
           x == <<m, k + 1>>
<1>8. t \in Seq(Places) /\ x \in Places
  BY <1>1, <1>4
<1> HIDE DEF t, x
<1>9. Append(s \o t, x) = s \o Append(t, x)
  BY <1>8
<1> QED BY <1>7, <1>9 DEF t, x

LEMMA MessageItemsKeep ==
    ASSUME NEW acc \in Accs, Sound(acc), acc.parts = <<>>, NEW m \in Nat, NEW content \in Seq(Blocks)
    PROVE  LET next == MessageItems(acc, m, content)
           IN  /\ next \in Accs /\ Sound(next) /\ next.parts = <<>>
               /\ AccFroms(next) = AccFroms(acc) \o PlacesOf(m, Len(content))
<1>1. PICK h : /\ h[0] = acc /\ MessageItems(acc, m, content) = Flush(h[Len(content)])
               /\ \A k \in 1..Len(content) : h[k] = ItemStep(h[k - 1], m, content, k)
  BY ItemsFold
<1> DEFINE Right(k) == /\ h[k] \in Accs /\ Sound(h[k])
                       /\ AccFroms(h[k]) = AccFroms(acc) \o PlacesOf(m, k)
           S == {k \in Nat : k <= Len(content) => Right(k)}
<1>0. AccFroms(acc) \in Seq(Places)
  <2>1. /\ acc.items \in Seq(Items) /\ acc.parts \in Seq(Parts)
    BY AccIs
  <2>2. AllFroms(acc.items) \in Seq(Places) /\ FromsOf(acc.parts) \in Seq(Places)
    BY <2>1, AllFromsAppend, FromsAppend
  <2> HIDE DEF Places
  <2> QED BY <2>2 DEF AccFroms
<1>2. 0 \in S
  <2>1. PlacesOf(m, 0) = <<>>
    BY DEF PlacesOf
  <2>2. AccFroms(acc) \o <<>> = AccFroms(acc)
    BY <1>0
  <2> QED BY <1>1, <2>1, <2>2
<1>3. ASSUME NEW k \in Nat, k \in S PROVE k + 1 \in S
  <2> SUFFICES ASSUME k + 1 <= Len(content) PROVE Right(k + 1)
    <3> HIDE DEF Right
    <3> QED OBVIOUS
  <2>1. k + 1 \in 1..Len(content) /\ (k + 1) - 1 = k /\ k <= Len(content)
    OBVIOUS
  <2>2. Right(k)
    <3> HIDE DEF Right
    <3> QED BY <1>3, <2>1
  <2>3. h[k + 1] = ItemStep(h[k], m, content, k + 1)
    BY <1>1, <2>1
  <2>4. /\ h[k + 1] \in Accs /\ Sound(h[k + 1])
        /\ AccFroms(h[k + 1]) = Append(AccFroms(h[k]), <<m, k + 1>>)
    <3>1. h[k] \in Accs /\ Sound(h[k])
      BY <2>2
    <3> DEFINE a == h[k]
               j == k + 1
    <3>2. a \in Accs /\ Sound(a) /\ j \in 1..Len(content)
      BY <2>1, <3>1
    <3> HIDE DEF Right, S, a, j
    <3>3. /\ ItemStep(a, m, content, j) \in Accs /\ Sound(ItemStep(a, m, content, j))
          /\ AccFroms(ItemStep(a, m, content, j)) = Append(AccFroms(a), <<m, j>>)
      BY <3>2, ItemStepKeeps
    <3> QED BY <2>3, <3>3 DEF a, j
  <2>5. Append(AccFroms(acc) \o PlacesOf(m, k), <<m, k + 1>>) = AccFroms(acc) \o PlacesOf(m, k + 1)
    BY <1>0, PlacesGrow
  <2> QED BY <2>2, <2>4, <2>5
<1>4. Right(Len(content))
  <2>1. Len(content) \in Nat
    OBVIOUS
  <2> HIDE DEF S
  <2>2. Len(content) \in S
    BY <1>2, <1>3, <2>1, SetInduction
  <2> HIDE DEF Right
  <2> QED BY <2>1, <2>2 DEF S
<1> QED BY <1>1, <1>4, FlushKeeps

-----------------------------------------------------------------------------
(* What becomes of a conversation.                                         *)

Contents(messages) ==
    messages \in Seq([content : Seq(Blocks)])

\* The places of the blocks of the first k messages.
AllPlaces(messages, k) == [m \in 1..k |-> PlacesOf(m, Len(messages[m].content))]

LEMMA ContentsAre ==
    ASSUME NEW messages, Contents(messages)
    PROVE  /\ Len(messages) \in Nat /\ DOMAIN messages = 1..Len(messages)
           /\ \A m \in 1..Len(messages) : messages[m].content \in Seq(Blocks)
<1> DEFINE R == [content : Seq(Blocks)]
<1>1. messages \in Seq(R)
  BY DEF Contents
<1>2. \A r \in R : r.content \in Seq(Blocks)
  OBVIOUS
<1> HIDE DEF R
<1> QED BY <1>1, <1>2

LEMMA NoItemsAre ==
    NoItems \in Accs /\ Sound(NoItems) /\ NoItems.parts = <<>> /\ AccFroms(NoItems) = <<>>
<1>1. /\ NoItems.items = <<>> /\ NoItems.parts = <<>> /\ NoItems.pointers = <<>>
      /\ NoItems.sources = {} /\ NoItems \in Accs
  BY DEF NoItems, Accs
<1>2. FromsOf(<<>>) = <<>>
  BY DEF FromsOf
<1>3. AllFroms(<<>>) = <<>>
  <2>1. [i \in DOMAIN <<>> |-> FromsOf(<<>>[i].parts)] = <<>>
    OBVIOUS
  <2>2. FlattenSeq(<<>>) = <<>>
    BY DEF FlattenSeq
  <2> QED BY <2>1, <2>2 DEF AllFroms
<1>4. <<>> \o <<>> = <<>>
  OBVIOUS
<1> QED BY <1>1, <1>2, <1>3, <1>4 DEF Sound, AccFroms

\* Translated goes through the messages from the first to the last.
LEMMA MessagesFold ==
    ASSUME NEW body, Contents(body.messages)
    PROVE  \E h : /\ h[0] = NoItems /\ Translated(body) = h[Len(body.messages)]
                  /\ \A k \in 1..Len(body.messages) :
                        h[k] = MessageItems(h[k - 1], k, body.messages[k].content)
<1> DEFINE messages == body.messages
           n == Len(messages)
           A == {a \in Accs : Sound(a) /\ a.parts = <<>>}
           next(a, m) == MessageItems(a, m, messages[m].content)
           g == [x \in (1..n) \X A |-> next(x[2], x[1])]
           ids == [m \in DOMAIN messages |-> m]
           eq(f) == [s \in SUBSET (1..n) |->
                       IF s = {} THEN NoItems ELSE next(f[s \ {Max(s)}], Max(s))]
           raw(f) == [s \in SUBSET (1..n) |->
                       IF s = {} THEN NoItems ELSE next(f[s \ {Max(s)}], ids[Max(s)])]
           iter == CHOOSE f : f = raw(f)
           h == [k \in 0..n |-> iter[1..k]]
<1>1. n \in Nat /\ DOMAIN messages = 1..n /\ DOMAIN ids = 1..n /\ \A i \in 1..n : ids[i] = i
  BY ContentsAre
<1>2. Translated(body) = iter[1..n]
  <2>1. Translated(body) = FoldLeft(LAMBDA a, m : MessageItems(a, m, messages[m].content), NoItems, ids)
    BY DEF Translated
  <2>2. FoldLeft(LAMBDA a, m : MessageItems(a, m, messages[m].content), NoItems, ids) = iter[1..n]
    <3> HIDE DEF ids
    <3> QED BY <1>1 DEF FoldLeft, MapThenFoldSet
  <2> HIDE DEF iter
  <2> QED BY <2>1, <2>2
<1>9. ASSUME NEW f PROVE raw(f) = eq(f)
  <2>1. ASSUME NEW s \in SUBSET (1..n), s # {}
        PROVE  ids[Max(s)] = Max(s)
    <3>1. Max(s) \in 1..n
      BY <1>1, <2>1, MaxIs
    <3> HIDE DEF ids, n
    <3> QED BY <1>1, <3>1
  <2> HIDE DEF ids, n, next
  <2> QED BY <2>1
<1>3. \E f : f = raw(f)
  <2>1. ASSUME NEW m \in 1..n, NEW a \in A PROVE next(a, m) \in A
    <3>1. m \in Nat /\ messages[m].content \in Seq(Blocks)
      BY <1>1, ContentsAre
    <3> QED BY <3>1, MessageItemsKeep
  <2>2. g \in [(1..n) \X A -> A] /\ NoItems \in A
    <3>1. NoItems \in A
      BY NoItemsAre
    <3> HIDE DEF A, next, n
    <3>2. \A x \in (1..n) \X A : next(x[2], x[1]) \in A
      BY <2>1
    <3> QED BY <3>1, <3>2
  <2>3. PICK f \in [SUBSET (1..n) -> A] : Folded(f, g, NoItems, n)
    <3> HIDE DEF g, A, n
    <3> QED BY <1>1, <2>2, FoldsExist
  <2>4. ASSUME NEW s \in SUBSET (1..n), s # {}
        PROVE  g[<<Max(s), f[s \ {Max(s)}]>>] = next(f[s \ {Max(s)}], Max(s))
    <3>1. Max(s) \in 1..n
      BY <1>1, <2>4, MaxIs
    <3>2. f[s \ {Max(s)}] \in A
      BY <2>3
    <3> HIDE DEF A, n, next
    <3> QED BY <3>1, <3>2
  <2>5. f = eq(f)
    <3>1. f = [s \in SUBSET (1..n) |-> IF s = {} THEN NoItems ELSE g[<<Max(s), f[s \ {Max(s)}]>>]]
      BY <2>3 DEF Folded
    <3> HIDE DEF g, n, next
    <3> QED BY <3>1, <2>4
  <2> HIDE DEF raw, eq
  <2> QED BY <2>5, <1>9
<1>4. iter = eq(iter)
  <2>1. iter = raw(iter)
    <3> HIDE DEF raw
    <3> QED BY <1>3
  <2> HIDE DEF iter, raw, eq
  <2> QED BY <2>1, <1>9
<1> HIDE DEF iter, next
<1>5. iter[1..0] = NoItems
  <2>1. 1..0 = {}
    OBVIOUS
  <2> QED BY <1>4, <2>1
<1>6. ASSUME NEW k \in 1..n PROVE iter[1..k] = next(iter[1..(k - 1)], k)
  <2>1. k \in Nat /\ k # 0 /\ 1..k \in SUBSET (1..n)
    BY <1>1
  <2>2. Max(1..k) = k /\ (1..k) \ {Max(1..k)} = 1..(k - 1) /\ 1..k # {}
    BY <2>1, MaxUpto
  <2> QED BY <1>4, <2>1, <2>2
<1>7. h[0] = NoItems /\ Translated(body) = h[n]
  BY <1>1, <1>2, <1>5
<1>8. ASSUME NEW k \in 1..n PROVE h[k] = next(h[k - 1], k)
  <2>1. k \in 0..n /\ k - 1 \in 0..n
    BY <1>1
  <2> HIDE DEF n
  <2> QED BY <1>6, <2>1
<1> HIDE DEF h
<1> QED BY <1>7, <1>8 DEF next

LEMMA TranslatedKeeps ==
    ASSUME NEW body, Contents(body.messages)
    PROVE  /\ Translated(body) \in Accs /\ Sound(Translated(body))
           /\ AllFroms(Translated(body).items) = FlattenSeq(AllPlaces(body.messages, Len(body.messages)))
<1> DEFINE messages == body.messages
           n == Len(messages)
<1>1. PICK h : /\ h[0] = NoItems /\ Translated(body) = h[n]
               /\ \A k \in 1..n : h[k] = MessageItems(h[k - 1], k, messages[k].content)
  BY MessagesFold
<1>2. n \in Nat /\ \A m \in 1..n : messages[m].content \in Seq(Blocks)
  BY ContentsAre
<1> HIDE DEF n, messages
<1> DEFINE Right(k) == /\ h[k] \in Accs /\ Sound(h[k]) /\ h[k].parts = <<>>
                       /\ AccFroms(h[k]) = FlattenSeq(AllPlaces(messages, k))
           S == {k \in Nat : k <= n => Right(k)}
<1>3. 0 \in S
  <2>1. AllPlaces(messages, 0) = <<>>
    BY DEF AllPlaces
  <2>2. FlattenSeq(<<>>) = <<>>
    BY DEF FlattenSeq
  <2> QED BY <1>1, <2>1, <2>2, NoItemsAre
<1>4. ASSUME NEW k \in Nat, k \in S PROVE k + 1 \in S
  <2> SUFFICES ASSUME k + 1 <= n PROVE Right(k + 1)
    <3> HIDE DEF Right
    <3> QED OBVIOUS
  <2>1. k + 1 \in 1..n /\ (k + 1) - 1 = k /\ k <= n /\ k + 1 \in Nat
    BY <1>2
  <2>2. Right(k)
    <3> HIDE DEF Right
    <3> QED BY <1>4, <2>1
  <2> DEFINE j == k + 1
             content == messages[j].content
             next == MessageItems(h[k], j, content)
  <2>3. h[j] = next
    BY <1>1, <2>1
  <2>4. content \in Seq(Blocks) /\ j \in Nat
    BY <1>2, <2>1
  <2>5. /\ next \in Accs /\ Sound(next) /\ next.parts = <<>>
        /\ AccFroms(next) = AccFroms(h[k]) \o PlacesOf(j, Len(content))
    <3>1. h[k] \in Accs /\ Sound(h[k]) /\ h[k].parts = <<>>
      BY <2>2
    <3> HIDE DEF j, content, Right, S
    <3> QED BY <2>4, <3>1, MessageItemsKeep
  <2> DEFINE x == PlacesOf(j, Len(content))
             before == AllPlaces(messages, k)
  <2>6. AllPlaces(messages, j) = Append(before, x) /\ before \in Seq(Seq(Places)) /\ x \in Seq(Places)
    <3>1. ASSUME NEW m \in Nat, NEW len \in Nat PROVE PlacesOf(m, len) \in Seq(Places)
      BY DEF PlacesOf, Places
    <3>2. ASSUME NEW m \in 1..k PROVE PlacesOf(m, Len(messages[m].content)) \in Seq(Places)
      <4>1. m \in 1..n /\ m \in Nat
        BY <1>2, <2>1
      <4>2. Len(messages[m].content) \in Nat
        BY <1>2, <4>1
      <4> QED BY <3>1, <4>1, <4>2
    <3>3. x \in Seq(Places)
      <4>1. Len(content) \in Nat
        BY <2>4
      <4> HIDE DEF content, j
      <4> QED BY <2>4, <3>1, <4>1
    <3>4. before \in Seq(Seq(Places)) /\ Len(before) = k
      <4> HIDE DEF Right, S
      <4> QED BY <3>2 DEF AllPlaces
    <3>5. \A m \in 1..j : m # j => m \in 1..k
      OBVIOUS
    <3>6. \A m \in 1..k : before[m] = PlacesOf(m, Len(messages[m].content))
      BY DEF AllPlaces
    <3>7. Append(before, x) = [m \in 1..j |-> IF m = j THEN x ELSE before[m]]
      <4> HIDE DEF before, x, content, Right, S
      <4>1. Append(before, x) = Longer(before, x)
        BY <3>3, <3>4, AppendIs
      <4> QED BY <3>4, <4>1 DEF Longer
    <3>8. \A m \in 1..j : (IF m = j THEN x ELSE before[m]) = PlacesOf(m, Len(messages[m].content))
      <4> HIDE DEF before, Right, S
      <4> QED BY <3>5, <3>6
    <3>9. AllPlaces(messages, j) = Append(before, x)
      <4> HIDE DEF before, x, content, Right, S, j
      <4> QED BY <3>7, <3>8 DEF AllPlaces
    <3> QED BY <3>3, <3>4, <3>9
  <2>7. FlattenSeq(Append(before, x)) = FlattenSeq(before) \o x
    <3> HIDE DEF before, x
    <3> QED BY <2>6, FlattenAppend
  <2>8. AccFroms(h[k]) = FlattenSeq(before)
    BY <2>2
  <2> HIDE DEF next, before, x, content
  <2> QED BY <2>3, <2>5, <2>6, <2>7, <2>8 DEF x
<1>5. Right(n)
  <2> HIDE DEF S
  <2>1. n \in S
    BY <1>2, <1>3, <1>4, SetInduction
  <2> HIDE DEF Right
  <2> QED BY <1>2, <2>1 DEF S
<1>6. AccFroms(h[n]) = AllFroms(h[n].items)
  <2>1. h[n].items \in Seq(Items) /\ h[n].parts = <<>>
    BY <1>5, AccIs
  <2>2. AllFroms(h[n].items) \in Seq(Places)
    BY <2>1, AllFromsAppend
  <2>3. FromsOf(<<>>) = <<>>
    BY DEF FromsOf
  <2>4. AllFroms(h[n].items) \o <<>> = AllFroms(h[n].items)
    BY <2>2
  <2> QED BY <2>1, <2>3, <2>4 DEF AccFroms
<1> QED BY <1>1, <1>5, <1>6 DEF n, messages

-----------------------------------------------------------------------------
(* What a request and what compression returns have in common.             *)

LEMMA PayloadIs ==
    ASSUME NEW body \in Payloads
    PROVE  /\ body = [params |-> body.params, system |-> body.system, messages |-> body.messages]
           /\ Contents(body.messages)
<1> DEFINE R == Seq([content : Seq(Blocks)])
<1>1. body.messages \in R /\ body = [params |-> body.params, system |-> body.system, messages |-> body.messages]
  <2> HIDE DEF R
  <2> QED BY DEF Payloads, R
<1> QED BY <1>1 DEF Contents

LEMMA StrippedAre == StrippedPayloads \subseteq Payloads
<1> SUFFICES ASSUME NEW body \in StrippedPayloads PROVE body \in Payloads
  OBVIOUS
<1> DEFINE R == [content : Seq(Blocks)]
           Q == [content : Seq(StrippedBlocks)]
<1>1. StrippedBlocks \subseteq Blocks
  BY DEF StrippedBlocks
<1>2. /\ body.messages \in Seq(Q) /\ body.system \in Seq(Texts) /\ body.params \subseteq Features
      /\ body = [params |-> body.params, system |-> body.system, messages |-> body.messages]
  <2> HIDE DEF Q
  <2> QED BY DEF StrippedPayloads, Q
<1>3. Q \subseteq R
  <2>1. \A c \in Seq(StrippedBlocks) : c \in Seq(Blocks)
    <3> HIDE DEF R, Q
    <3> QED BY <1>1
  <2> QED BY <2>1
<1>4. body.messages \in Seq(R)
  <2> HIDE DEF R, Q
  <2> QED BY <1>2, <1>3
<1> QED BY <1>2, <1>4 DEF Payloads

LEMMA RequestKeepsOrder ==
    ASSUME NEW body \in Payloads
    PROVE  /\ AsRequest(body).items \in Seq(Items)
           /\ FlattenSeq([i \in DOMAIN AsRequest(body).items |->
                             [p \in DOMAIN AsRequest(body).items[i].parts |->
                                 AsRequest(body).items[i].parts[p].from]])
              = FlattenSeq([m \in DOMAIN body.messages |->
                               [i \in DOMAIN body.messages[m].content |-> <<m, i>>]])
<1>1. Contents(body.messages)
  BY PayloadIs
<1>2. /\ Translated(body) \in Accs
      /\ AllFroms(Translated(body).items) = FlattenSeq(AllPlaces(body.messages, Len(body.messages)))
  BY <1>1, TranslatedKeeps
<1>3. AsRequest(body).items = Translated(body).items
  BY DEF AsRequest
<1>4. AsRequest(body).items \in Seq(Items)
  BY <1>2, <1>3, AccIs
<1> DEFINE r == [m \in DOMAIN body.messages |-> [i \in DOMAIN body.messages[m].content |-> <<m, i>>]]
<1>5. r = AllPlaces(body.messages, Len(body.messages))
  <2>1. /\ DOMAIN body.messages = 1..Len(body.messages)
        /\ \A m \in 1..Len(body.messages) : body.messages[m].content \in Seq(Blocks)
    BY <1>1, ContentsAre
  <2>2. ASSUME NEW m \in 1..Len(body.messages)
        PROVE  [i \in DOMAIN body.messages[m].content |-> <<m, i>>]
               = PlacesOf(m, Len(body.messages[m].content))
    <3>1. DOMAIN body.messages[m].content = 1..Len(body.messages[m].content)
      BY <2>1
    <3> QED BY <3>1 DEF PlacesOf
  <2> QED BY <2>1, <2>2 DEF AllPlaces
<1> HIDE DEF r
<1> QED BY <1>2, <1>3, <1>4, <1>5 DEF AllFroms, FromsOf, r

\* What compression returns has items like those of the request.
LEMMA CompressedIs ==
    ASSUME NEW r, r.items \in Seq(Items), NEW texts, \A x \in DOMAIN texts : texts[x] \in Texts
    PROVE  WithTexts(r, texts).items \in Seq(Items)
<1> DEFINE items == r.items
           new == [i \in DOMAIN items |-> [items[i] EXCEPT !.parts = Retexted(@, i, texts)]]
<1>1. WithTexts(r, texts).items = new
  BY DEF WithTexts
<1>2. /\ Len(items) \in Nat /\ DOMAIN items = 1..Len(items)
      /\ \A i \in DOMAIN items : items[i] \in Items
  <2> HIDE DEF Items
  <2> QED OBVIOUS
<1> HIDE DEF items
<1>3. ASSUME NEW i \in DOMAIN items PROVE [items[i] EXCEPT !.parts = Retexted(@, i, texts)] \in Items
  <2>1. items[i] \in Items
    BY <1>2
  <2> DEFINE parts == items[i].parts
             next == Retexted(parts, i, texts)
  <2>2. parts \in Seq(Parts)
    BY <2>1 DEF Items
  <2>3. /\ Len(parts) \in Nat /\ DOMAIN parts = 1..Len(parts)
        /\ \A p \in DOMAIN parts : parts[p] \in Parts
    <3> HIDE DEF Parts, parts
    <3> QED BY <2>2
  <2> HIDE DEF parts
  <2>4. ASSUME NEW p \in DOMAIN parts
        PROVE  (IF <<i, p>> \in DOMAIN texts THEN [parts[p] EXCEPT !.text = texts[<<i, p>>]] ELSE parts[p]) \in Parts
    BY <2>3 DEF Parts
  <2>5. next \in Seq(Parts)
    <3> HIDE DEF Parts
    <3> QED BY <2>3, <2>4 DEF Retexted
  <2> HIDE DEF next
  <2> QED BY <2>1, <2>5 DEF Items, next, parts
<1>4. new \in Seq(Items)
  <2> HIDE DEF Items
  <2> QED BY <1>2, <1>3
<1> QED BY <1>1, <1>4

LEMMA SourcesAreRight ==
    ASSUME NEW body \in Payloads, NEW s \in Sources(body)
    PROVE  \/ s.address[1] = 0 /\ s.pointer = <<0, 1>>
           \/ /\ s.address[1] \in Nat \ {0} /\ SourceAt(AsRequest(body).items, s)
<1>1. Contents(body.messages)
  BY PayloadIs
<1>2. Translated(body) \in Accs /\ Sound(Translated(body))
  BY <1>1, TranslatedKeeps
<1>3. CASE s \in Translated(body).sources
  <2>1. SourceAt(Translated(body).items, s)
    BY <1>2, <1>3 DEF Sound
  <2>2. DOMAIN Translated(body).items = 1..Len(Translated(body).items)
    BY <1>2, AccIs
  <2>3. s.address[1] \in Nat \ {0}
    BY <2>1, <2>2 DEF SourceAt
  <2> QED BY <2>1, <2>3 DEF AsRequest
<1>4. CASE s \notin Translated(body).sources
  <2>1. s = [address |-> <<0, 1>>, pointer |-> <<0, 1>>]
    BY <1>4 DEF Sources
  <2> QED BY <2>1
<1> QED BY <1>3, <1>4

\* The part of c at the address a comes from where the part of r there comes from.
SamePart(r, c, a) ==
    /\ a[1] \in DOMAIN c.items /\ a[2] \in DOMAIN c.items[a[1]].parts
    /\ c.items[a[1]].parts[a[2]].from = r.items[a[1]].parts[a[2]].from

\* Of two requests of the same shape, the parts at an address come from the same place.
LEMMA SameFroms ==
    ASSUME NEW r, NEW c, r.items \in Seq(Items), c.items \in Seq(Items),
           NEW addresses, SameShape(r, c, addresses), NEW a \in addresses, a[1] \in Nat \ {0}
    PROVE  SamePart(r, c, a)
<1> DEFINE blank == [x \in addresses |-> "text"]
           n == a[1]
           p == a[2]
<1>1. /\ IsLeaf(r, a) /\ IsLeaf(c, a) /\ WithTexts(r, blank) = WithTexts(c, blank)
  BY DEF SameShape
<1>2. /\ n \in DOMAIN r.items /\ p \in DOMAIN r.items[n].parts
      /\ n \in DOMAIN c.items /\ p \in DOMAIN c.items[n].parts
  BY <1>1 DEF IsLeaf
<1> DEFINE all(t) == [i \in DOMAIN t |-> [t[i] EXCEPT !.parts = Retexted(@, i, blank)]]
<1>3. all(r.items) = all(c.items)
  <2>1. WithTexts(r, blank).items = all(r.items) /\ WithTexts(c, blank).items = all(c.items)
    BY DEF WithTexts
  <2> HIDE DEF all, blank
  <2> QED BY <1>1, <2>1
<1>4. ASSUME NEW t, t \in Seq(Items), n \in DOMAIN t, p \in DOMAIN t[n].parts
      PROVE  all(t)[n].parts[p].from = t[n].parts[p].from
  <2>1. t[n] \in Items
    <3> HIDE DEF Items, all
    <3> QED BY <1>4
  <2>2. t[n].parts \in Seq(Parts)
    BY <2>1 DEF Items
  <2>3. t[n].parts[p] \in Parts
    <3> HIDE DEF Parts, all
    <3> QED BY <1>4, <2>2
  <2>4. all(t)[n].parts = Retexted(t[n].parts, n, blank)
    <3>1. all(t)[n] = [t[n] EXCEPT !.parts = Retexted(t[n].parts, n, blank)]
      BY <1>4
    <3> HIDE DEF blank, all
    <3> QED BY <2>1, <3>1 DEF Items
  <2>5. Retexted(t[n].parts, n, blank)[p].from = t[n].parts[p].from
    <3>1. Retexted(t[n].parts, n, blank)[p]
          = IF <<n, p>> \in DOMAIN blank THEN [t[n].parts[p] EXCEPT !.text = blank[<<n, p>>]] ELSE t[n].parts[p]
      BY <1>4 DEF Retexted
    <3> HIDE DEF blank, all
    <3> QED BY <2>3, <3>1 DEF Parts
  <2> QED BY <2>4, <2>5
<1> HIDE DEF all
<1> QED BY <1>2, <1>3, <1>4 DEF SamePart

-----------------------------------------------------------------------------
(* The projection back.                                                    *)

\* A text is one that compression wrote for the part of its place, and that no
\* recorded pointer has.
OwnText(body, c, recorded, place, text) ==
    /\ \E item \in Range(c.items) : \E part \in Range(item.parts) : part.from = place /\ part.text = text
    /\ \A t \in recorded : text # NativeText(body, t.pointer)

KeepsTexts(body, c, recorded, next) ==
    \A m \in DOMAIN next.messages : \A i \in DOMAIN next.messages[m].content :
        next.messages[m].content[i].text # body.messages[m].content[i].text
            => OwnText(body, c, recorded, <<m, i>>, next.messages[m].content[i].text)

LEMMA ProjectionIsRight ==
    ASSUME NEW body \in Payloads, NEW c, c.items \in Seq(Items),
           NEW m \in DOMAIN body.messages, NEW i \in DOMAIN body.messages[m].content,
           NEW recorded, recorded = Sources(body),
           SameShape(AsRequest(body), c, {s.address : s \in recorded}), ~ Moved(body, c, recorded),
           NEW s \in recorded, s.pointer = <<m, i>>,
           Leaf(c, s.address) # body.messages[m].content[i].text
    PROVE  OwnText(body, c, recorded, <<m, i>>, Leaf(c, s.address))
<1> DEFINE r == AsRequest(body)
           a == s.address
           addresses == {t.address : t \in recorded}
<1>1. m \in Nat \ {0}
  <2>1. DOMAIN body.messages = 1..Len(body.messages)
    BY PayloadIs, ContentsAre
  <2> QED BY <2>1
<1>2. a[1] \in Nat \ {0} /\ SourceAt(r.items, s)
  <2>1. s.pointer[1] = m
    OBVIOUS
  <2> QED BY <1>1, <2>1, SourcesAreRight
<1>3. r.items \in Seq(Items)
  BY RequestKeepsOrder
<1>4. a \in addresses
  OBVIOUS
<1>5. /\ a[1] \in DOMAIN c.items /\ a[2] \in DOMAIN c.items[a[1]].parts
      /\ c.items[a[1]].parts[a[2]].from = r.items[a[1]].parts[a[2]].from
  <2>1. SameShape(r, c, addresses)
    OBVIOUS
  <2> HIDE DEF r, a, addresses
  <2>2. SamePart(r, c, a)
    BY <1>2, <1>3, <1>4, <2>1, SameFroms
  <2> QED BY <2>2 DEF SamePart
<1>6. r.items[a[1]].parts[a[2]].from = <<m, i>>
  BY <1>2 DEF SourceAt
<1>7. Leaf(c, a) = c.items[a[1]].parts[a[2]].text
  BY <1>2 DEF Leaf
<1>8. \E item \in Range(c.items) : \E part \in Range(item.parts) :
          part.from = <<m, i>> /\ part.text = Leaf(c, a)
  <2>1. c.items[a[1]] \in Range(c.items) /\ c.items[a[1]].parts[a[2]] \in Range(c.items[a[1]].parts)
    BY <1>5 DEF Range
  <2> HIDE DEF a, r, addresses
  <2> QED BY <1>5, <1>6, <1>7, <2>1
<1>9. ASSUME NEW t \in recorded, Leaf(c, a) = NativeText(body, t.pointer) PROVE FALSE
  <2>1. PICK u \in recorded : u.address = a /\ NativeText(body, u.pointer) = Leaf(c, a)
    BY <1>9 DEF Moved
  <2>2. SourceAt(r.items, u)
    BY <1>2, <2>1, SourcesAreRight
  <2>3. u.pointer = <<m, i>>
    BY <1>6, <2>1, <2>2 DEF SourceAt
  <2>4. NativeText(body, <<m, i>>) = body.messages[m].content[i].text
    BY <1>1 DEF NativeText
  <2> QED BY <2>1, <2>3, <2>4
<1> QED BY <1>8, <1>9 DEF OwnText

LEMMA ProjectKeepsTexts ==
    ASSUME NEW body \in Payloads, NEW c, c.items \in Seq(Items),
           NEW recorded, recorded = Sources(body),
           NEW next, next = Project(body, AsRequest(body), c, recorded)
    PROVE  KeepsTexts(body, c, recorded, next)
<1> SUFFICES ASSUME NEW m \in DOMAIN next.messages, NEW i \in DOMAIN next.messages[m].content,
                    next.messages[m].content[i].text # body.messages[m].content[i].text
             PROVE  OwnText(body, c, recorded, <<m, i>>, next.messages[m].content[i].text)
  BY DEF KeepsTexts
<1> DEFINE pointers == {s.pointer : s \in recorded}
           source(ptr) == CHOOSE s \in recorded : s.pointer = ptr
           texts == [ptr \in pointers |-> Leaf(c, source(ptr).address)]
           projects == /\ SameShape(AsRequest(body), c, {s.address : s \in recorded})
                       /\ ~ Moved(body, c, recorded)
<1>1. projects /\ next = WithNative(body, texts)
  BY DEF Project
<1>2. Contents(body.messages)
  BY PayloadIs
<1>3. next.messages = [n \in DOMAIN body.messages |-> [content |-> Retexted(body.messages[n].content, n, texts)]]
  <2> DEFINE ms == [n \in DOMAIN body.messages |-> [content |-> Retexted(body.messages[n].content, n, texts)]]
             sys == IF <<0, 1>> \in DOMAIN texts THEN <<texts[<<0, 1>>]>> ELSE body.system
  <2>1. next = [body EXCEPT !.system = sys, !.messages = ms]
    <3> HIDE DEF texts
    <3> QED BY <1>1 DEF WithNative
  <2> HIDE DEF ms, sys
  <2>2. next.messages = ms
    BY <2>1, PayloadIs
  <2> QED BY <2>2 DEF ms
<1> HIDE DEF texts, projects
<1>4. m \in DOMAIN body.messages /\ next.messages[m].content = Retexted(body.messages[m].content, m, texts)
  BY <1>3
<1> DEFINE b == body.messages[m].content[i]
<1>5. /\ i \in DOMAIN body.messages[m].content
      /\ next.messages[m].content[i] = IF <<m, i>> \in DOMAIN texts THEN [b EXCEPT !.text = texts[<<m, i>>]] ELSE b
  BY <1>4 DEF Retexted
<1>6. b \in Blocks
  <2>1. body.messages[m].content \in Seq(Blocks)
    BY <1>2, <1>4, ContentsAre
  <2> HIDE DEF Blocks
  <2> QED BY <1>5, <2>1
<1>7. <<m, i>> \in pointers /\ next.messages[m].content[i].text = texts[<<m, i>>]
  <2>1. DOMAIN texts = pointers
    BY DEF texts
  <2>2. <<m, i>> \in DOMAIN texts
    BY <1>5
  <2> QED BY <1>5, <1>6, <2>1, <2>2 DEF Blocks
<1> DEFINE s == source(<<m, i>>)
<1>8. s \in recorded /\ s.pointer = <<m, i>>
  BY <1>7
<1>9. next.messages[m].content[i].text = Leaf(c, s.address)
  BY <1>7 DEF texts
<1> HIDE DEF s, b, source
<1>10. Leaf(c, s.address) # body.messages[m].content[i].text
  BY <1>9
<1>11. /\ SameShape(AsRequest(body), c, {x.address : x \in recorded}) /\ ~ Moved(body, c, recorded)
  BY <1>1 DEF projects
<1>12. OwnText(body, c, recorded, <<m, i>>, Leaf(c, s.address))
  BY <1>4, <1>5, <1>8, <1>10, <1>11, ProjectionIsRight
<1> QED BY <1>9, <1>12

-----------------------------------------------------------------------------
Translating == {"prepared", "compressed", "dispatched"}

\* What a request is at each of its phases.
RequestInv ==
    /\ PostOK
    /\ post.unsupported \subseteq Degradable \cup {"image"}
    /\ post.phase = "new" => payload = Nothing
    /\ post.phase = "received" => payload \in Payloads
    /\ IF post.phase \in Translating
       THEN payload \in StrippedPayloads /\ request = AsRequest(payload) /\ sources = Sources(payload)
       ELSE request = Nothing
    /\ post.phase \in {"compressed", "dispatched"} => compressed.items \in Seq(Items)
    /\ native # Nothing => post.phase = "dispatched" /\ native = Project(payload, request, compressed, sources)
    /\ OnlyImagesRefuse

LEMMA AnswerIs ==
    ASSUME PostOK, NEW s \in Statuses, Answer(s)
    PROVE  PostOK' /\ post'.phase = "answered" /\ post'.status = s /\ post'.unsupported = post.unsupported
BY DEF Answer, PostOK, Posts, Phases

LEMMA PhaseIs ==
    ASSUME PostOK, NEW next \in Phases, post' = [post EXCEPT !.phase = next]
    PROVE  PostOK' /\ post'.phase = next /\ post'.status = post.status /\ post'.unsupported = post.unsupported
BY DEF PostOK, Posts

LEMMA ReceivedIs ==
    ASSUME PostOK, NEW n \in BOOLEAN, NEW u \in SUBSET Features,
           post' = [post EXCEPT !.phase = "received", !.native = n, !.unsupported = u]
    PROVE  PostOK' /\ post'.phase = "received" /\ post'.unsupported = u
<1>1. "received" \in Phases
  BY DEF Phases
<1>2. post \in Posts
  BY DEF PostOK
<1>3. post' \in Posts
  BY <1>1, <1>2 DEF Posts
<1> QED BY <1>2, <1>3 DEF PostOK, Posts

LEMMA RequestInvInit == RequestInit => RequestInv
BY DEF RequestInit, RequestInv, OnlyImagesRefuse, Translating, PostOK, Posts, Phases, Statuses

LEMMA RequestInvNext == RequestInv /\ [RequestNext]_requestVars => RequestInv'
<1> SUFFICES ASSUME RequestInv, [RequestNext]_requestVars PROVE RequestInv'
  OBVIOUS
<1>0. PostOK /\ {200, 400, 401, 404, 413, 502} \subseteq Statuses
  BY DEF RequestInv, Statuses
<1>a. {"answered", "prepared", "compressed", "dispatched", "streaming"} \subseteq Phases
  BY DEF Phases
<1>1. CASE UNCHANGED requestVars
  BY <1>1 DEF requestVars, RequestInv, OnlyImagesRefuse, PostOK
<1>2. ASSUME NEW status \in {400, 404, 413}, Refuse(status) PROVE RequestInv'
  BY <1>0, <1>2, AnswerIs DEF Refuse, Unsent, RequestInv, OnlyImagesRefuse, Translating
<1>3. ASSUME NEW body \in Bodies, CountTokens(body) PROVE RequestInv'
  BY <1>0, <1>3, AnswerIs DEF CountTokens, Unsent, RequestInv, OnlyImagesRefuse, Translating
<1>4. ASSUME NEW body \in Bodies, NEW n \in BOOLEAN, NEW images \in BOOLEAN, Receive(body, n, images) PROVE RequestInv'
  <2>1. PostOK' /\ post'.phase = "received" /\ post'.unsupported \subseteq Degradable \cup {"image"}
    <3> DEFINE u == Degradable \cup IF images THEN {} ELSE {"image"}
    <3>1. post' = [post EXCEPT !.phase = "received", !.native = n, !.unsupported = u]
      BY <1>4 DEF Receive
    <3>2. u \subseteq Degradable \cup {"image"} /\ u \in SUBSET Features
      BY DEF Degradable, Features
    <3> HIDE DEF u
    <3>3. PostOK' /\ post'.phase = "received" /\ post'.unsupported = u
      BY <1>0, <3>1, <3>2, ReceivedIs, ZenonT(40)
    <3> QED BY <3>2, <3>3
  <2> QED BY <1>4, <2>1, BodiesOK DEF Receive, Unsent, RequestInv, OnlyImagesRefuse, Translating
<1>5. CASE Prepare
  <2> DEFINE next == Strip(payload)
  <2>1. payload \in Payloads /\ post.phase = "received" /\ payload' = next
    BY <1>5 DEF Prepare, RequestInv
  <2>2. next \in StrippedPayloads
    BY <2>1, StripStrips
  <2>3. Extract(next) \cap Degradable = {}
    BY <2>2, StrippedShowsNothing
  <2>4. Extract(next) \cap post.unsupported # {} => "image" \in Extract(next)
    BY <2>3 DEF RequestInv
  <2>5. CASE Extract(next) \cap post.unsupported # {}
    <3>1. Answer(400) /\ UNCHANGED <<request, native>>
      BY <1>5, <2>5 DEF Prepare
    <3>2. PostOK' /\ post'.phase = "answered" /\ post'.status = 400 /\ post'.unsupported = post.unsupported
      BY <1>0, <3>1, AnswerIs
    <3> HIDE DEF next
    <3> QED BY <3>2, <2>1, <2>4, <2>5, <3>1 DEF RequestInv, OnlyImagesRefuse, Translating
  <2>6. CASE Extract(next) \cap post.unsupported = {}
    <3>1. /\ post' = [post EXCEPT !.phase = "prepared"] /\ request' = AsRequest(next) /\ sources' = Sources(next)
          /\ UNCHANGED native
      BY <1>5, <2>6 DEF Prepare
    <3>2. PostOK' /\ post'.phase = "prepared" /\ post'.unsupported = post.unsupported
      BY <1>0, <1>a, <3>1, PhaseIs
    <3> HIDE DEF next
    <3> QED BY <3>2, <2>1, <2>2, <3>1 DEF RequestInv, OnlyImagesRefuse, Translating
  <2> QED BY <2>5, <2>6
<1>6. ASSUME NEW texts \in [TextLeaves(request) -> Texts], Compress(texts, FALSE) PROVE RequestInv'
  <2>1. /\ post.phase = "prepared" /\ post' = [post EXCEPT !.phase = "compressed"]
        /\ compressed' = WithTexts(request, texts) /\ UNCHANGED <<payload, request, sources, native>>
    BY <1>6 DEF Compress
  <2>2. request.items \in Seq(Items)
    BY <2>1, StrippedAre, RequestKeepsOrder DEF RequestInv, Translating
  <2>3. compressed'.items \in Seq(Items)
    BY <2>1, <2>2, CompressedIs
  <2>4. PostOK' /\ post'.phase = "compressed" /\ post'.unsupported = post.unsupported
    BY <1>0, <1>a, <2>1, PhaseIs
  <2> QED BY <2>4, <2>1, <2>3 DEF RequestInv, OnlyImagesRefuse, Translating
<1>7. ASSUME request.items # <<>>, Compress(<<>>, TRUE) PROVE RequestInv'
  <2>1. /\ post.phase = "prepared" /\ post' = [post EXCEPT !.phase = "compressed"]
        /\ compressed' = [request EXCEPT !.items = Front(@)] /\ UNCHANGED <<payload, request, sources, native>>
    BY <1>7 DEF Compress
  <2>0. payload \in StrippedPayloads /\ request = AsRequest(payload)
    BY <2>1 DEF RequestInv, Translating
  <2>2. request.items \in Seq(Items) /\ request = [instructions |-> payload.system, items |-> request.items]
    BY <2>0, StrippedAre, RequestKeepsOrder DEF AsRequest
  <2>3. Front(request.items) \in Seq(Items)
    <3> HIDE DEF Items
    <3> QED BY <1>7, <2>2 DEF Front
  <2>4. compressed'.items = Front(request.items)
    BY <2>1, <2>2
  <2>5. PostOK' /\ post'.phase = "compressed" /\ post'.unsupported = post.unsupported
    BY <1>0, <1>a, <2>1, PhaseIs
  <2> QED BY <2>5, <2>1, <2>3, <2>4 DEF RequestInv, OnlyImagesRefuse, Translating
<1>8. CASE Dispatch
  <2>1. /\ post.phase = "compressed" /\ post' = [post EXCEPT !.phase = "dispatched"]
        /\ UNCHANGED <<payload, request, sources, compressed>>
        /\ native' = Nothing \/ native' = Project(payload, request, compressed, sources)
    BY <1>8 DEF Dispatch
  <2>2. PostOK' /\ post'.phase = "dispatched" /\ post'.unsupported = post.unsupported
    BY <1>0, <1>a, <2>1, PhaseIs
  <2> QED BY <2>2, <2>1 DEF RequestInv, OnlyImagesRefuse, Translating
<1>9. ASSUME NEW status \in {200, 401, 404, 502}, Answered(status) PROVE RequestInv'
  BY <1>0, <1>9, AnswerIs DEF Answered, Forget, RequestInv, OnlyImagesRefuse, Translating
<1>10. CASE StartStream
  <2>1. PostOK' /\ post'.phase = "streaming" /\ post'.unsupported = post.unsupported
    BY <1>0, <1>a, <1>10, PhaseIs DEF StartStream
  <2> QED BY <1>10, <2>1 DEF StartStream, Forget, RequestInv, OnlyImagesRefuse, Translating
<1>11. ASSUME NEW e \in Upstream, Maps(e) PROVE RequestInv'
  <2>1. /\ post.phase = "streaming" /\ post' = [post EXCEPT !.status = 200]
        /\ UNCHANGED <<payload, request, sources, compressed, native>>
    BY <1>11 DEF Maps, Streaming
  <2>2. PostOK' /\ post'.phase = "streaming" /\ post'.unsupported = post.unsupported
    BY <1>0, <2>1 DEF PostOK, Posts, Statuses
  <2> QED BY <2>2, <2>1 DEF RequestInv, OnlyImagesRefuse, Translating
<1>12. CASE Forwards
  <2>1. /\ post.phase = "streaming" /\ post' = [post EXCEPT !.status = 200]
        /\ UNCHANGED <<payload, request, sources, compressed, native>>
    BY <1>12 DEF Forwards, Streaming
  <2>2. PostOK' /\ post'.phase = "streaming" /\ post'.unsupported = post.unsupported
    BY <1>0, <2>1 DEF PostOK, Posts, Statuses
  <2> QED BY <2>2, <2>1 DEF RequestInv, OnlyImagesRefuse, Translating
<1>13. CASE Finishes \/ UpstreamEnds \/ \E status \in {401, 404, 502} : UpstreamRaises(status)
  <2>1. /\ post.phase = "streaming" /\ UNCHANGED <<payload, request, sources, compressed, native>>
        /\ PostOK' /\ post'.phase = "answered" /\ post'.status # 400 /\ post'.unsupported = post.unsupported
    <3>1. CASE Finishes
      BY <1>0, <3>1, AnswerIs DEF Finishes
    <3>2. CASE UpstreamEnds
      BY <1>0, <3>2, AnswerIs DEF UpstreamEnds, Streaming
    <3>3. CASE \E status \in {401, 404, 502} : UpstreamRaises(status)
      <4> DEFINE last(status) == IF Peeking THEN status ELSE 200
      <4>1. PICK status \in {401, 404, 502} : UpstreamRaises(status)
        BY <3>3
      <4>2. last(status) \in {200, 401, 404, 502} /\ Answer(last(status))
        BY <4>1 DEF UpstreamRaises
      <4>3. post.phase = "streaming" /\ UNCHANGED <<payload, request, sources, compressed, native>>
        BY <4>1 DEF UpstreamRaises, Streaming
      <4> HIDE DEF last
      <4> QED BY <1>0, <4>2, <4>3, AnswerIs
    <3> QED BY <1>13, <3>1, <3>2, <3>3
  <2> QED BY <2>1 DEF RequestInv, OnlyImagesRefuse, Translating
<1> DEFINE Asks == \E body \in Bodies : \/ CountTokens(body)
                                        \/ \E n, i \in BOOLEAN : Receive(body, n, i)
           Refuses == \E status \in {400, 404, 413} : Refuse(status)
           Answers == \E status \in {200, 401, 404, 502} : Answered(status)
           Compresses == /\ post.phase = "prepared"
                         /\ \/ \E texts \in [TextLeaves(request) -> Texts] : Compress(texts, FALSE)
                            \/ request.items # <<>> /\ Compress(<<>>, TRUE)
           Streams == \E e \in Upstream : Maps(e)
           Breaks == \E status \in {401, 404, 502} : UpstreamRaises(status)
<1>14. CASE RequestNext
  <2>1. \/ Asks \/ Refuses \/ Answers \/ Compresses \/ Streams \/ Breaks
        \/ Prepare \/ Dispatch \/ StartStream \/ Forwards \/ Finishes \/ UpstreamEnds
    BY <1>14, ZenonT(40) DEF RequestNext
  <2>2. Asks => RequestInv'
    BY <1>3, <1>4
  <2>3. (Refuses => RequestInv') /\ (Answers => RequestInv') /\ (Streams => RequestInv')
    BY <1>2, <1>9, <1>11
  <2>4. Compresses => RequestInv'
    BY <1>6, <1>7
  <2>5. Breaks => RequestInv'
    BY <1>13
  <2> HIDE DEF Asks, Refuses, Answers, Compresses, Streams, Breaks
  <2> QED BY <2>1, <2>2, <2>3, <2>4, <2>5, <1>5, <1>8, <1>10, <1>12, <1>13
<1> QED BY <1>1, <1>14

LEMMA RequestInvIsFaithful == RequestInv => TranslationIsFaithful
<1> SUFFICES ASSUME RequestInv PROVE TranslationIsFaithful
  OBVIOUS
<1>1. TranslationKeepsOrder
  BY StrippedAre, RequestKeepsOrder DEF RequestInv, TranslationKeepsOrder
<1>2. ASSUME native # Nothing PROVE EachBlockKeepsItsText
  <2>1. /\ payload \in Payloads /\ sources = Sources(payload) /\ compressed.items \in Seq(Items)
        /\ native = Project(payload, AsRequest(payload), compressed, sources)
    BY <1>2, StrippedAre DEF RequestInv, Translating
  <2>2. KeepsTexts(payload, compressed, sources, native)
    BY <2>1, ProjectKeepsTexts
  <2> QED BY <2>2 DEF EachBlockKeepsItsText, KeepsTexts, OwnText
<1>3. EachBlockKeepsItsText
  BY <1>2 DEF EachBlockKeepsItsText
<1> QED BY <1>1, <1>3 DEF RequestInv, TranslationIsFaithful

\* Whatever clients send and compression writes, a request loses and moves nothing, only
\* an image refuses it, and a native adapter gets each block with its own text
\* (anthropic_feature_gate.py, _message_to_items and
\* project_compressed_request_to_anthropic_payload).
THEOREM TranslationsAreFaithful == RequestSpec => []TranslationIsFaithful
<1>1. RequestSpec => []RequestInv
  BY RequestInvInit, RequestInvNext, PTL DEF RequestSpec
<1> QED BY <1>1, RequestInvIsFaithful, PTL
=============================================================================
