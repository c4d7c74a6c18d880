----------------------------- MODULE LocalFiles -----------------------------
(***************************************************************************)
(* The files of Codex and of Claude Code as `reverso-codex-sync'           *)
(* (codex_sync.py) and `reverso-claude-code-sync' (claude_code_sync.py)    *)
(* converge them, over several runs.                                       *)
(*                                                                         *)
(* A run copies the files it manages to a staging directory, asks the      *)
(* gateway what it serves, works on the copy, compares the copy with what  *)
(* it was made from, and writes the differences one file at a time: what   *)
(* appears or changes first, outermost first, then what goes, innermost    *)
(* first.  The user works on the same files meanwhile, and the process     *)
(* may be killed between two writes.  How one write is made, and how a     *)
(* group is undone, is the subject of PreparedGroup: here a write is one   *)
(* step and so is the undoing.                                             *)
(***************************************************************************)
EXTENDS CodexConfig, PyNone

CONSTANTS
    Routed,         \* the prefixes that may have a canonical profile
    Optional,       \* OPTIONAL_DISCOVERY_PREFIXES, among them
    Direct,         \* the names of the direct Codex profiles
    Variants,       \* the names of profiles that older versions generated
    Offers,         \* what the gateway may list for a prefix: sequences of models
    BackupsKept,    \* BACKUPS_KEPT
    Launchers,      \* LAUNCHER_CATALOGS
    PathEntries,    \* what `claude' may be on PATH: files, or launchers it is a link to
    StartFiles,     \* the files the first run may find
    UserTexts,      \* the texts the user may give config.toml
    MaxRuns,        \* how many runs there are (bounds the model only)
    MaxEdits,       \* how often the user edits (bounds the model only)
    MaxSecond       \* the last second of the clock (bounds the model only)

ASSUME FilesOK == /\ Claude \in Routed /\ Optional \subseteq Routed
                  /\ IsFiniteSet(Routed) /\ IsFiniteSet(Direct) /\ Direct \cap (Routed \cup Variants) = {}
                  /\ \A models \in Offers : models \in Seq(Range(models))
                  /\ \A path \in PathEntries : path \in Seq(Range(path))
                  /\ \A text \in UserTexts : text \in Seq(Range(text))
                  /\ BackupsKept \in Nat \ {0} /\ MaxRuns \in Nat /\ MaxEdits \in Nat

VARIABLES
    disk,         \* what is at each path; a path not in its domain is absent
    run,        \* the run under way
    second,     \* the clock: backups are named by it
    runs, edits

filesVars == <<disk, run, second, runs, edits>>

\* Paths.  A backup and an archived file are named by the file they were and a second.
Config == <<"config">>
Canon(p) == <<"canon", p>>          \* reverso-<p>.config.toml
Bare(p) == <<"bare", p>>            \* <p>.config.toml
Catalog(p) == <<"catalog", p>>      \* reverso/<p>.json
Settings == <<"settings">>          \* Claude Code's settings.json
Launcher(l) == <<"launcher", l>>
Copy(kind, x, n) == <<kind, x, second, n>>

\* A file: who it belongs to by its first lines, what it says, and whether it is a
\* profile that names its provider's catalog.
File(owner, says, catalog) == [owner |-> owner, says |-> says, catalog |-> catalog]
Managed(S, x) == x \in DOMAIN S /\ S[x].owner = "reverso"
IsLink(S, x) == x \in DOMAIN S /\ S[x].owner = "link"
Text(S) == IF Config \in DOMAIN S THEN S[Config].says ELSE <<>>

Patch(S, gone, new) == [x \in (DOMAIN S \ gone) \cup DOMAIN new |-> IF x \in DOMAIN new THEN new[x] ELSE S[x]]

-----------------------------------------------------------------------------
(* Backups *)

\* _make_backup, _unique_archive_path, next_backup_path: the first free suffix.
FreeName(S, kind, x) ==
    Copy(kind, x, CHOOSE n \in 0..Cardinality(DOMAIN S) :
                    /\ Copy(kind, x, n) \notin DOMAIN S
                    /\ \A m \in 0..(n - 1) : Copy(kind, x, m) \in DOMAIN S)

BackupsOf(S, x) == {y \in DOMAIN S : y[1] = "backup" /\ y[2] = x}

\* Names sort by the second, then by the suffix.
Older(x, y) == x[3] < y[3] \/ (x[3] = y[3] /\ x[4] < y[4])

\* A mutant of Rotated: the newest go.
RotatedNewest(S, x) == {y \in BackupsOf(S, x) : Cardinality({z \in BackupsOf(S, x) : Older(z, y)}) >= BackupsKept}

\* _rotate_backups: all but the last BACKUPS_KEPT names go.
Rotated(S, x) == {y \in BackupsOf(S, x) : Cardinality({z \in BackupsOf(S, x) : Older(y, z)}) >= BackupsKept}

\* Files are written: the old ones are copied first, old copies go afterwards.
WithBackups(S, new) ==
    LET old == DOMAIN new \cap DOMAIN S
        copies == [y \in {FreeName(S, "backup", x) : x \in old} |-> S[y[2]]]
        written == Patch(Patch(S, {}, copies), {}, new)
    IN Patch(written, UNION {Rotated(written, x) : x \in DOMAIN new}, <<>>)

\* _archive_file: files move away and keep their contents.
Archived(S, gone) ==
    Patch(S, gone, [y \in {FreeName(S, "archive", x) : x \in gone} |-> S[y[2]]])

-----------------------------------------------------------------------------
(* What the Codex run makes of the files S, when the gateway lists `offered' *)
(* for the prefixes it asks about                                            *)

\* _live_provider_models.
Live(offered) == {p \in DOMAIN offered : offered[p] # <<>>}

CatalogFile(offered, p) == File("reverso", offered[p], FALSE)
\* reverso_codex_profile_spec: the profile pins the first model that is listed.
ProfileFile(offered, p) == File("reverso", offered[p][1], TRUE)
DirectFile(d) == File("reverso", d, FALSE)

\* _profile_files; a run for one provider leaves the direct profiles alone.
Profiles(offered, single) ==
    [x \in {Canon(p) : p \in Live(offered)} \cup (IF single THEN {} ELSE {Bare(d) : d \in Direct}) |->
        IF x[1] = "canon" THEN ProfileFile(offered, x[2]) ELSE DirectFile(x[2])]

\* A mutant of ToWrite: a managed profile is written again although it is as wanted.
ToWriteAgain(S, offered, single) ==
    {x \in DOMAIN Profiles(offered, single) : x \in DOMAIN S => (x[1] = "bare" => Managed(S, x))}

\* _write_profile_files: a direct profile the user wrote stays.
ToWrite(S, offered, single) ==
    LET wanted == Profiles(offered, single) IN
    {x \in DOMAIN wanted : x \in DOMAIN S => S[x] # wanted[x] /\ (x[1] = "bare" => Managed(S, x))}

\* _managed_profile_catalog_path, _catalog_is_owned.
CatalogOwned(S, p) == \E x \in {Canon(p), Bare(p)} : Managed(S, x) /\ S[x].catalog

\* _validate_sync_paths, _validate_canonical_reverso_profile_targets and
\* _validate_catalog_mutations: nothing is written over a link or the user's file.
FilesRefused(S, offered, single) ==
    \/ \E x \in DOMAIN S : IsLink(S, x) /\ (single => x[1] \in {"canon", "catalog"} /\ x[2] \in Live(offered))
    \/ \E p \in Live(offered) :
         \/ Canon(p) \in DOMAIN S /\ ~Managed(S, Canon(p))
         \/ Catalog(p) \in DOMAIN S /\ ~CatalogOwned(S, p)

\* _archive_legacy_managed_reverso_profiles and _archive_stale_variant_profiles: the
\* bare profiles that canonical ones replace; _archive_stale_managed_reverso_profiles:
\* the profiles of prefixes that are not exposed, with the catalogs they name.
Superseded(S, offered) ==
    {Bare(q) : q \in {q \in Live(offered) \cup Variants : Managed(S, Bare(q))}}
Stale(S, offered) ==
    LET gone == {p \in Routed \ DOMAIN offered : Managed(S, Canon(p))} IN
    {Canon(p) : p \in gone}
        \cup {Catalog(p) : p \in {p \in gone : S[Canon(p)].catalog /\ Catalog(p) \in DOMAIN S}}

\* _sync_unlocked, on the staged copy.
CodexStaged(S, offered, single) ==
    LET catalogs == [x \in {Catalog(p) : p \in Live(offered)} |-> CatalogFile(offered, x[2])]
        wanted == Profiles(offered, single)
        profiles == WithBackups(Patch(S, {}, catalogs), [x \in ToWrite(S, offered, single) |-> wanted[x]])
        text == Rewritten(Text(S), DOMAIN offered)
        moved == Archived(profiles, Superseded(profiles, offered) \cup Stale(profiles, offered))
    IN IF single THEN profiles
       ELSE IF text = Text(S) THEN moved
       ELSE WithBackups(moved, [x \in {Config} |-> File("user", text, FALSE)])

CodexRefused(S, offered, single) == FilesRefused(S, offered, single) \/ (~single /\ RewriteRefused(Text(S)))

-----------------------------------------------------------------------------
(* What the Claude Code run makes of the files S.  Its settings are a        *)
(* dictionary: of env "base", "token", "small", "discovery", "headers" (a    *)
(* set of lines) and "other", and beside it "marker" and "model".            *)

Has(s, key, value) == key \in DOMAIN s /\ s[key] = value

\* _remove_reverso_overrides: the gateway's URL and placeholder token, what only they
\* explain, the x-reverso headers, and a model an older version restored wrongly.
Repaired(s) ==
    LET routed == Has(s, "base", "reverso")
        tagged == "headers" \in DOMAIN s /\ "reverso" \in s["headers"]
        gone == {key \in DOMAIN s :
                   \/ key \in {"base", "small"} /\ routed
                   \/ key = "token" /\ s[key] = "reverso"
                   \/ key = "discovery" /\ (routed \/ tagged)
                   \/ key = "headers" /\ s[key] = {"reverso"}
                   \/ key = "marker"
                   \/ key = "model" /\ "marker" \in DOMAIN s /\ s[key] = "broken"}
    IN [key \in DOMAIN s \ gone |-> IF key = "headers" THEN s[key] \ {"reverso"} ELSE s[key]]

\* A mutant of RealClaude: the sync's own launcher will do.
AnyClaude(S, path) ==
    LET there == {i \in DOMAIN path : path[i][1] = "launcher" => path[i] \in DOMAIN S}
    IN IF there = {} THEN None ELSE path[Min(there)]

\* _resolve_claude_executable: the first that exists and is not a managed launcher.
RealClaude(S, path) ==
    LET usable == {i \in DOMAIN path : path[i][1] = "launcher" => path[i] \in DOMAIN S /\ ~Managed(S, path[i])}
    IN IF usable = {} THEN None ELSE path[Min(usable)]

LauncherFile(l, claude) == File("reverso", <<l, claude>>, FALSE)

\* Unreadable settings, no claude to run, or a launcher that is not ours.
ClaudeRefused(S, path) ==
    \/ Settings \in DOMAIN S /\ S[Settings].owner # "user"
    \/ RealClaude(S, path) = None
    \/ \E l \in Launchers : Launcher(l) \in DOMAIN S /\ ~Managed(S, Launcher(l))

\* prepare_sync; there is one backup for each repair, and none is ever removed.
ClaudeStaged(S, path) ==
    LET launchers == [x \in {Launcher(l) : l \in Launchers} |-> LauncherFile(x[2], RealClaude(S, path))]
        repaired == File("user", Repaired(S[Settings].says), FALSE)
        settings == IF Settings \notin DOMAIN S \/ S[Settings] = repaired THEN <<>>
                    ELSE [x \in {Settings, FreeName(S, "backup", Settings)} |->
                            IF x = Settings THEN repaired ELSE S[Settings]]
    IN Patch(Patch(S, {}, settings), {}, launchers)

-----------------------------------------------------------------------------
(* A run *)

Modes == {"codex", "provider", "claude"}
Idle == [mode |-> None, phase |-> "idle", seen |-> <<>>, staged |-> <<>>, input |-> None, written |-> {}, calm |-> TRUE]

FilesInit ==
    /\ disk \in StartFiles
    /\ run = Idle /\ second = 1 /\ runs = 0 /\ edits = 0

\* The files are copied (_copy_managed_paths; capture_state in Claude Code's run).
Start(mode) ==
    /\ run.phase \in {"idle", "done"} /\ runs < MaxRuns
    /\ runs' = runs + 1
    /\ second' \in {second, second + 1} /\ second' <= MaxSecond
    /\ run' = [Idle EXCEPT !.mode = mode, !.phase = "staging", !.seen = disk]
    /\ UNCHANGED <<disk, edits>>

\* What a Codex run gets to work with: for each exposed prefix its models, or <<>>
\* for one that may be missing (fetch_all; prepare_provider_sync for a single one).
\* A required prefix without models ends the run before it looks at a file.
Discovered ==
    UNION {[exposed -> Offers] : exposed \in IF run.mode = "codex"
                                           THEN {Routed \ gone : gone \in SUBSET Optional}
                                           ELSE {{p} : p \in Routed}}

Refused == run' = Idle /\ UNCHANGED <<disk, second, runs, edits>>

Differ(S, T) == {x \in DOMAIN S \cup DOMAIN T : x \notin DOMAIN S \/ x \notin DOMAIN T \/ S[x] # T[x]}

\* What the run is about to write.
Stage(input, refused, staged) ==
    IF refused THEN Refused
    ELSE /\ run' = [run EXCEPT !.phase = "writing", !.input = input, !.staged = staged]
         /\ UNCHANGED <<disk, second, runs, edits>>

\* The copy is worked on, and what differs must still be what was copied.
StageCodex ==
    /\ run.phase = "staging" /\ run.mode # "claude"
    /\ \E offered \in Discovered :
          LET single == run.mode = "provider"
              staged == CodexStaged(run.seen, offered, single)
          IN IF \/ \E p \in DOMAIN offered \ Optional : offered[p] = <<>>
                \/ CodexRefused(run.seen, offered, single)
             THEN Refused
             ELSE Stage(offered, Differ(run.seen, staged) \cap Differ(run.seen, disk) # {}, staged)

StageClaude ==
    /\ run.phase = "staging" /\ run.mode = "claude"
    /\ \E path \in PathEntries :
          IF ClaudeRefused(run.seen, path) THEN Refused
          ELSE Stage(path, FALSE, ClaudeStaged(run.seen, path))

\* _ordered_mutations: files that appear or change, outermost first (and a file before
\* its own copy, by name), then files that go, innermost first.  Claude Code's run
\* keeps its own order: the backup, the settings, the launchers.
Rank(x) ==
    LET depth == CASE x[1] = "backup" -> 2 [] x[1] = "catalog" -> 3 [] x[1] = "archive" -> 4 [] OTHER -> 1
    IN IF run.mode = "claude"
       THEN CASE x[1] = "backup" -> 1 [] x = Settings -> 2 [] OTHER -> 3
       ELSE IF x \in DOMAIN run.staged THEN depth ELSE 10 - depth

Pending == Differ(run.seen, run.staged) \ run.written
NextPath == CHOOSE x \in Pending : \A y \in Pending : Rank(x) <= Rank(y)

Part(S, X) == [x \in X \cap DOMAIN S |-> S[x]]

\* Paths of the group; Claude Code's also holds the files it leaves as they are.
Group == Pending \cup IF run.mode = "claude" THEN {Settings} \cup {Launcher(l) : l \in Launchers} ELSE {}

\* A mutant of Unchanged: what the user did since the copy is not looked at.
Unseen(x) == TRUE

\* apply_state's comparison with the expected state.
Unchanged(x) == x \notin Differ(run.seen, disk)

\* apply_prepared_group validates the whole group before it writes the first file.
MayWrite == \A x \in IF run.written = {} THEN Group ELSE {NextPath} : Unchanged(x)

Write ==
    /\ run.phase = "writing" /\ Pending # {} /\ MayWrite
    /\ disk' = Patch(disk, {NextPath}, Part(run.staged, {NextPath}))
    /\ run' = [run EXCEPT !.written = @ \cup {NextPath}]
    /\ UNCHANGED <<second, runs, edits>>

Finish ==
    /\ run.phase = "writing" /\ Pending = {}
    /\ run' = [run EXCEPT !.phase = "done"]
    /\ UNCHANGED <<disk, second, runs, edits>>

\* A file has changed under way: what was written goes back, where nobody touched it.
Undo ==
    /\ run.phase = "writing" /\ Pending # {} /\ ~MayWrite
    /\ LET back == run.written \ Differ(run.staged, disk) IN
       disk' = Patch(disk, back, Part(run.seen, back))
    /\ run' = Idle
    /\ UNCHANGED <<second, runs, edits>>

\* The process is killed between two writes.
Kill ==
    /\ run.phase = "writing" /\ run.written # {} /\ Pending # {}
    /\ run' = Idle
    /\ UNCHANGED <<disk, second, runs, edits>>

\* The user puts a file of his own at a path, or a text into config.toml.
UserFile == File("user", None, FALSE)
Edit(x, file) ==
    /\ edits < MaxEdits /\ edits' = edits + 1
    /\ disk' = Patch(disk, {}, [y \in {x} |-> file])
    /\ run' = [run EXCEPT !.calm = FALSE]
    /\ UNCHANGED <<second, runs>>

UserPaths == {Canon(p) : p \in Routed} \cup {Bare(q) : q \in Direct \cup Variants} \cup {Launcher(l) : l \in Launchers}

\* What the user's own files at these paths say is nothing to the sync.  Files are
\* finitely many, config.toml is a text, and no copy is from the future.
ASSUME StartFilesOK ==
    \A S \in StartFiles :
        /\ S = [x \in DOMAIN S |-> S[x]]
        /\ Config \in DOMAIN S /\ ~IsLink(S, Config) => S[Config].says \in Seq(Range(S[Config].says))
        /\ \A x \in DOMAIN S \cap UserPaths : S[x].owner = "user" => S[x] = UserFile
        /\ IsFiniteSet(DOMAIN S) /\ \A y \in DOMAIN S : y[1] = "backup" => y[3] \in {0, 1}

FilesNext ==
    \/ \E mode \in Modes : Start(mode)
    \/ StageCodex \/ StageClaude \/ Write \/ Finish \/ Undo \/ Kill
    \/ \E x \in UserPaths : Edit(x, UserFile)
    \/ \E text \in UserTexts : Edit(Config, File("user", text, FALSE))

FilesSpec == FilesInit /\ [][FilesNext]_filesVars

-----------------------------------------------------------------------------
(* Properties *)

\* A run that ended well, while the user left the files alone.
Converged == run.phase = "done" /\ run.calm

\* What older versions wrote into config.toml: overlays, blocks, and more than the one
\* end of a lost block that a run takes away (_strip_lone_sentinel_line).
Legacy(text) ==
    \E i \in 1..Len(text) :
        \/ text[i][1] = "overlay" \/ (text[i][1] = "begin" /\ text[i][2] # "gateway")
        \/ text[i] = Line("end", "profiles") /\ \E j \in 1..(i - 1) : text[j] = text[i]

Again ==
    IF run.mode = "claude" THEN ClaudeStaged(disk, run.input)
    ELSE CodexStaged(disk, run.input, run.mode = "provider")

\* A second run with the same answers changes no file and makes no backup, if the first
\* one found nothing of the older versions in config.toml (_sync_unlocked: "idempotent").
AgainChangesNothing == Converged /\ ~Legacy(Text(run.seen)) => Again = disk

\* The docstring of _sync_unlocked, with no exception: "a second call with the same
\* fetcher output produces no diff and creates no backup" (codex_sync.py:1722).
SecondCallProducesNoDiff == Converged => Again = disk

\* "a profile never points at a missing catalog" (codex_sync.py:938).
NeverAMissingCatalog ==
    \A p \in Routed : Managed(disk, Canon(p)) /\ disk[Canon(p)].catalog => Catalog(p) \in DOMAIN disk

\* A file the user put at a path that the sync manages stays as it is, whenever he
\* put it there: before, during or after a run (_write_profile_files, _launcher_plan).
UserFilesStay ==
    [][\A x \in DOMAIN disk : x \in UserPaths /\ disk[x].owner = "user" =>
          x \in DOMAIN disk' /\ disk'[x] = disk[x]]_filesVars

\* What a run replaced or took away is left in a copy, whatever the run took for a
\* name, unless so many copies were made in this second that names begin again
\* (_make_backup, _archive_file).  A catalog or a launcher that changes is not copied.
ReplacedIsKept ==
    Converged => \A x \in Differ(run.seen, disk) \cap DOMAIN run.seen :
        \/ x[1] \in {"backup", "archive"}
        \/ x[1] \in {"catalog", "launcher"} /\ x \in DOMAIN disk
        \/ \E y \in DOMAIN disk : y[1] \in {"backup", "archive"} /\ y[2] = x /\ disk[y] = run.seen[x]
        \/ Cardinality({y \in BackupsOf(run.seen, x) : y[3] = second}) >= BackupsKept

\* After a full run each profile of a served prefix pins a model of its catalog, and
\* config.toml has the provider it names (_write_per_provider_catalogs,
\* _ensure_gateway_provider_tables).
ProfilesWork ==
    Converged /\ run.mode = "codex" => \A p \in Live(run.input) :
        /\ \E i \in DOMAIN disk[Catalog(p)].says : disk[Catalog(p)].says[i] = disk[Canon(p)].says
        /\ HasTable(Text(disk), p)

\* What older versions put between their sentinels, those that have no end among it.
InBlock(text, i, b) == \E j \in 1..(i - 1) : text[j] = Line("begin", b) /\ Line("end", b) \notin {text[k] : k \in j..i}

\* The user's lines of a text: those outside the blocks and overlays of older
\* versions.  A header in a block goes with it and ends no overlay.
Owned(text, i) ==
    LET outside(k) == ~InBlock(text, k, "catalog") /\ ~InBlock(text, k, "nux") IN
    /\ text[i][1] \notin {"begin", "end", "overlay", "env_key"}
    /\ outside(i) /\ ~InBlock(text, i, "profiles")
    /\ ~\E j \in 1..(i - 1) : text[j][1] = "overlay" /\ \A k \in (j + 1)..i : IsHeader(text[k]) => ~outside(k)

\* No block has a sentinel of another in it.
Apart(text) ==
    \A i \in 1..Len(text), b \in {"catalog", "nux", "profiles"} :
        text[i][1] \in {"begin", "end"} /\ InBlock(text, i, b) => text[i][2] = b

Occurs(line, text) == Cardinality({i \in 1..Len(text) : text[i] = line})

\* The user's lines come out, in their order, and none more often than it went in.
LinesStay(old, new) ==
    /\ Apart(old) =>
         \A i, j \in {i \in 1..Len(old) : Owned(old, i)} : i <= j =>
            \E k \in 1..Len(new) : new[k] = old[i] /\ \E l \in k..Len(new) : new[l] = old[j] /\ (i < j => k < l)
    /\ \A k \in 1..Len(new) : new[k][1] = "user" => Occurs(new[k], new) <= Occurs(new[k], old)

\* Every line of the user's comes out of a run, in its order (the module docstring of
\* codex_sync.py: "byte-faithful preservation").
UserLinesStay ==
    run.phase = "writing" /\ run.mode = "codex" /\ Config \in DOMAIN run.seen =>
        LinesStay(Text(run.seen), Text(run.staged))

\* After a run of Claude Code's sync its settings no longer go through the gateway, no
\* key of the user's is gone that has a meaning without the gateway, and no launcher
\* runs a launcher (_remove_reverso_overrides, _resolve_claude_executable).
ClaudeIsItself ==
    Converged /\ run.mode = "claude" =>
        /\ \A l \in Launchers :
              LET real == disk[Launcher(l)].says[2] IN real[1] = "launcher" => ~Managed(disk, real)
        /\ Settings \in DOMAIN disk =>
             LET old == run.seen[Settings].says
                 new == disk[Settings].says
             IN /\ \A key \in {"base", "token"} : ~Has(new, key, "reverso")
                /\ "headers" \in DOMAIN new => "reverso" \notin new["headers"]
                /\ Has(old, "base", "reverso") => {"small", "discovery"} \cap DOMAIN new = {}
                /\ \A key \in DOMAIN old \ {"headers", "marker"} : old[key] = "user" =>
                      \/ Has(new, key, "user")
                      \/ key \in {"small", "discovery"} /\ Has(old, "base", "reverso")
                      \/ key = "discovery" /\ "headers" \in DOMAIN old /\ "reverso" \in old["headers"]

\* After a run Codex can use its profiles, and Claude Code is itself.
ClientsWork == ProfilesWork /\ ClaudeIsItself

\* A run changes no more than it has to: the next one, with the same answers, changes
\* nothing, and each leaves the user's lines of config.toml as they were.
NoNeedlessChange == AgainChangesNothing /\ UserLinesStay

=============================================================================
