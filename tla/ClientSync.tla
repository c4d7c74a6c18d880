----------------------------- MODULE ClientSync -----------------------------
(***************************************************************************)
(* The convergence command of the clients (client_sync.py): one lock, one  *)
(* plan made from two discoveries of the gateway's models, and one         *)
(* prepared group after the other applied to the clients' files.           *)
(*                                                                         *)
(* A file shows the version of a provider's inventory it was rendered      *)
(* from.  Each provider has a Codex profile, rendered from the provider's  *)
(* own listing, and an OpenCode fragment, rendered from the listing of all *)
(* providers, which the gateway answers from its cache for a provider it   *)
(* cannot reach; one more fragment, the shared one, shows all providers.   *)
(*                                                                         *)
(* The operator's apply and uninstall-ollama and the scheduled refresh run *)
(* side by side, the user edits the files without the lock, and a process  *)
(* may be killed, or ended by the refresh's alarm, between any two steps   *)
(* and within a group.  How one group is applied is PreparedGroup's.       *)
(***************************************************************************)
EXTENDS Integers, Sequences

CONSTANTS
    N,          \* the providers are 1..N, asked in this order
    Ollama,     \* the provider without which nothing is applied
    Syncs,      \* the processes that sync
    Kind,       \* "apply", "refresh" or "uninstall": what each of them runs
    Absent, UserFile,   \* a file that is not there, and one the user wrote
    NoListing,  \* the listing of all providers could not be used
    Nobody,     \* the holder of a free lock
    MaxEvents,  \* what the environment does (bounds the model only)
    MaxRuns     \* the commands the operator gives (bounds the model only)

Providers == 1..N

ASSUME ProvidersOK == N \in Nat /\ Ollama \in Providers
ASSUME KindOK == \A s \in Syncs : Kind[s] \in {"apply", "refresh", "uninstall"}
ASSUME NamesOK == Nobody \notin Syncs /\ Absent # UserFile
\* What stands for no content, and for no listing, is not taken for one.
ASSUME ContentsOK == Absent \notin Nat /\ UserFile \notin Nat /\ NoListing \notin [Providers -> Nat]
ASSUME BoundsOK == MaxEvents \in Nat

VARIABLES
    version,    \* the latest inventory of each provider
    up,         \* the providers that answer
    cached,     \* the gateway's snapshot of each provider, 0 when it has none
    disk,       \* what each file shows
    lock,       \* the process that holds the client sync lock
    pc, found, listed, before, after, todo,   \* the work of each process
    exit,       \* its exit code, once the run is over
    wrote,      \* whether the run changed a file and left it so
    status,     \* the refresh status record
    events, runs

gateway == <<version, up, cached>>
work == <<found, listed, before, after, todo>>
vars == <<version, up, cached, disk, lock, pc, found, listed, before, after, todo,
          exit, wrote, status, events, runs>>

Codex(p) == <<"codex", p>>
Fragment(p) == <<"opencode", p>>
Shared == <<"opencode", 0>>
Files == {Codex(p) : p \in Providers} \cup {Fragment(p) : p \in Providers} \cup {Shared}

\* The groups: one per provider, and 0 for what depends on all of them.
Group(g) == IF g = 0 THEN {Shared} ELSE {Codex(g), Fragment(g)}

Versions == 0..(MaxEvents + 1)
Contents(f) ==
    {Absent, UserFile} \cup (IF f = Shared THEN [Providers -> Versions] ELSE Versions)
\* The exit code of a run that is not over.
Running == -1

NoFiles == [f \in Files |-> Absent]

TypeOK ==
    /\ version \in [Providers -> Versions] /\ up \subseteq Providers
    /\ cached \in [Providers -> Versions]
    /\ \A f \in Files : disk[f] \in Contents(f)
    /\ lock \in Syncs \cup {Nobody}
    /\ pc \in [Syncs -> {"idle", "lock", "discover", "list", "validate", "write", "record", "unlock"}]
    /\ \A s \in Syncs : pc[s] \in {"discover", "list", "validate", "write", "record"} => lock = s
    /\ \A s \in Syncs : Len(found[s]) <= N /\ \A i \in DOMAIN found[s] : found[s][i] \in Versions
    /\ \A s \in Syncs : listed[s] \in [Providers -> Versions] \cup {NoListing}
    /\ \A s \in Syncs, f \in Files : before[s][f] \in Contents(f) /\ after[s][f] \in Contents(f)
    /\ todo \in [Syncs -> SUBSET (0..N)]
    /\ exit \in [Syncs -> {Running, 0, 2, 3, 4, 5}]
    /\ wrote \in [Syncs -> BOOLEAN]
    /\ status \in {"none", "success", "partial_freshness", "failed"}

Init ==
    /\ version = [p \in Providers |-> 1] /\ up = Providers
    /\ cached = [p \in Providers |-> 0]
    /\ disk = NoFiles
    /\ lock = Nobody
    /\ pc = [s \in Syncs |-> "idle"]
    /\ found = [s \in Syncs |-> <<>>] /\ listed = [s \in Syncs |-> NoListing]
    /\ before = [s \in Syncs |-> NoFiles] /\ after = [s \in Syncs |-> NoFiles]
    /\ todo = [s \in Syncs |-> {}]
    /\ exit = [s \in Syncs |-> Running] /\ wrote = [s \in Syncs |-> FALSE]
    /\ status = "none"
    /\ events = 0 /\ runs = 0

Event == events < MaxEvents /\ events' = events + 1

Goto(s, label) == pc' = [pc EXCEPT ![s] = label]

\* The process is gone, and its lock is free if it had it.
Gone(s) ==
    /\ Goto(s, "idle")
    /\ lock' = IF lock = s THEN Nobody ELSE lock
    /\ found' = [found EXCEPT ![s] = <<>>] /\ listed' = [listed EXCEPT ![s] = NoListing]
    /\ before' = [before EXCEPT ![s] = NoFiles] /\ after' = [after EXCEPT ![s] = NoFiles]
    /\ todo' = [todo EXCEPT ![s] = {}]
    /\ exit' = [exit EXCEPT ![s] = Running] /\ wrote' = [wrote EXCEPT ![s] = FALSE]

\* The run is over; only what _apply_result returned is recorded by a refresh.
End(s, code) == Goto(s, "unlock") /\ exit' = [exit EXCEPT ![s] = code]
Close(s, code) ==
    /\ Goto(s, IF Kind[s] = "refresh" THEN "record" ELSE "unlock")
    /\ exit' = [exit EXCEPT ![s] = code]

-----------------------------------------------------------------------------
(* Start and lock *)

\* The operator starts his command, the scheduler the refresh.  Only uninstall-ollama
\* captures what it will remove before it has the lock.
Start(s) ==
    /\ pc[s] = "idle"
    /\ IF Kind[s] = "refresh" THEN UNCHANGED runs ELSE runs < MaxRuns /\ runs' = runs + 1
    /\ IF Kind[s] = "uninstall" /\ disk[Codex(Ollama)] = UserFile
       THEN End(s, 3) /\ UNCHANGED before
       ELSE /\ Goto(s, "lock")
            /\ before' = [before EXCEPT ![s][Codex(Ollama)] =
                            IF Kind[s] = "uninstall" THEN disk[Codex(Ollama)] ELSE Absent]
            /\ UNCHANGED exit
    /\ UNCHANGED <<gateway, disk, lock, found, listed, after, todo, wrote, status, events>>

\* A version that syncs without the lock when it is busy.
CarelessLock(s) ==
    /\ pc[s] = "lock"
    /\ lock' = s
    /\ todo' = [todo EXCEPT ![s] = IF Kind[s] = "uninstall" THEN {Ollama} ELSE {}]
    /\ Goto(s, IF Kind[s] = "uninstall" THEN "write" ELSE "discover")
    /\ UNCHANGED <<gateway, disk, found, listed, before, after, exit, wrote, status, events, runs>>

Lock(s) ==
    /\ pc[s] = "lock" /\ lock = Nobody
    /\ lock' = s
    /\ todo' = [todo EXCEPT ![s] = IF Kind[s] = "uninstall" THEN {Ollama} ELSE {}]
    /\ Goto(s, IF Kind[s] = "uninstall" THEN "write" ELSE "discover")
    /\ UNCHANGED <<gateway, disk, found, listed, before, after, exit, wrote, status, events, runs>>

\* A refresh gives up at once, the operator's commands after their timeout.
LockBusy(s) ==
    /\ pc[s] = "lock" /\ lock # Nobody
    /\ End(s, CASE Kind[s] = "refresh" -> 0 [] Kind[s] = "apply" -> 2 [] OTHER -> 3)
    /\ UNCHANGED <<gateway, disk, lock, work, wrote, status, events, runs>>

-----------------------------------------------------------------------------
(* The plan *)

\* discover_provider_models and prepare_provider_sync of the next provider: 0 stands
\* for a provider that is stale, whose files are preserved.
Discover(s) ==
    LET p == Len(found[s]) + 1
        v == IF p \in up THEN version[p] ELSE 0 IN
    /\ pc[s] = "discover"
    /\ IF v # 0 /\ disk[Codex(p)] = UserFile
       THEN End(s, 3) /\ UNCHANGED <<found, before>>
       ELSE /\ found' = [found EXCEPT ![s] = Append(@, v)]
            /\ before' = [before EXCEPT ![s][Codex(p)] = disk[Codex(p)]]
            /\ Goto(s, IF p = N THEN "list" ELSE "discover")
            /\ UNCHANGED exit
    /\ UNCHANGED <<gateway, disk, lock, listed, after, todo, wrote, status, events, runs>>

Stale(s) == {p \in Providers : found[s][p] = 0}

\* The gateway's answer: the cached snapshot of what it cannot reach.
Listing == [p \in Providers |-> IF p \in up THEN version[p] ELSE cached[p]]

\* A version that renders the shared fragment although a provider is stale.
MixingCandidate(s, captured, listing, f) ==
    CASE f = Shared -> IF listing = NoListing THEN captured[f] ELSE listing
      [] f # Shared /\ f[2] \in Stale(s) -> captured[f]
      [] f # Shared /\ f[2] \notin Stale(s) /\ f[1] = "codex" -> found[s][f[2]]
      [] f # Shared /\ f[2] \notin Stale(s) /\ f[1] = "opencode" ->
            IF listing = NoListing THEN captured[f] ELSE listing[f[2]]

\* What the plan is to show: nothing new of a stale provider, nothing shared when one
\* is stale, and no fragment without a usable listing.
Candidate(s, captured, listing, f) ==
    CASE f = Shared -> IF Stale(s) # {} \/ listing = NoListing THEN captured[f] ELSE listing
      [] f # Shared /\ f[2] \in Stale(s) -> captured[f]
      [] f # Shared /\ f[2] \notin Stale(s) /\ f[1] = "codex" -> found[s][f[2]]
      [] f # Shared /\ f[2] \notin Stale(s) /\ f[1] = "opencode" ->
            IF listing = NoListing THEN captured[f] ELSE listing[f[2]]

\* The Codex profiles are prepared once more when every provider answered; then the
\* fragments, from the listing of all providers, unless one of them is the user's.
List(s) ==
    /\ pc[s] = "list"
    /\ IF Stale(s) = {} /\ \E p \in Providers : disk[Codex(p)] = UserFile
       THEN End(s, 3) /\ UNCHANGED <<cached, listed, before, after, events>>
       ELSE \E answered \in BOOLEAN :
              LET usable == /\ answered
                            /\ \E p \in Providers : Listing[p] # 0
                            /\ \A f \in Files : f[1] = "opencode" => disk[f] # UserFile
                  listing == IF usable THEN Listing ELSE NoListing
                  captured == [f \in Files |-> IF f[1] = "codex" /\ Stale(s) # {} THEN before[s][f] ELSE disk[f]]
              IN
              /\ IF answered THEN UNCHANGED events ELSE Event
              /\ cached' = IF answered THEN Listing ELSE cached
              /\ listed' = [listed EXCEPT ![s] = listing]
              /\ before' = [before EXCEPT ![s] = captured]
              /\ after' = [after EXCEPT ![s] = [f \in Files |-> Candidate(s, captured, listing, f)]]
              /\ Goto(s, "validate")
              /\ UNCHANGED exit
    /\ UNCHANGED <<version, up, disk, lock, found, todo, wrote, status, runs>>

-----------------------------------------------------------------------------
(* _apply_result *)

Changed(s) == {f \in Files : before[s][f] # after[s][f]}

\* A version that trusts the comparison made before the first write.
TrustingGroupUnchanged(s, g) == TRUE

\* What the group expects: the files it changes, and the fragments it only confirms.
Expected(s, g) == {f \in Group(g) : f \in Changed(s) \/ (f[1] = "opencode" /\ listed[s] # NoListing)}

GroupUnchanged(s, g) == \A f \in Expected(s, g) : disk[f] = before[s][f]

\* Everything the run will replace is compared before the first write.
Validate(s) ==
    /\ pc[s] = "validate"
    /\ IF Ollama \in Stale(s)
       THEN Close(s, 4) /\ UNCHANGED todo
       ELSE LET eligible == {g \in 0..N : Group(g) \cap Changed(s) # {}} IN
            IF \A g \in eligible : GroupUnchanged(s, g)
            THEN /\ todo' = [todo EXCEPT ![s] = eligible]
                 /\ Goto(s, "write") /\ UNCHANGED exit
            ELSE Close(s, 2) /\ UNCHANGED todo
    /\ UNCHANGED <<gateway, disk, lock, found, listed, before, after, wrote, status, events, runs>>

\* Ollama before the other providers, and all of them before what depends on them.
Rank(g) == CASE g = Ollama -> 0 [] g = 0 -> N + 1 [] OTHER -> g

\* A version that applies the groups in the order of their numbers.
UnorderedFirst(s, g) == g \in todo[s] /\ \A h \in todo[s] : g <= h

First(s, g) == g \in todo[s] /\ \A h \in todo[s] : Rank(g) <= Rank(h)

ApplyGroup(s) ==
    /\ pc[s] = "write"
    /\ \E g \in todo[s] :
          /\ First(s, g)
          /\ IF GroupUnchanged(s, g)
             THEN /\ disk' = [f \in Files |-> IF f \in Group(g) \cap Changed(s) THEN after[s][f] ELSE disk[f]]
                  /\ todo' = [todo EXCEPT ![s] = @ \ {g}]
                  /\ wrote' = [wrote EXCEPT ![s] = @ \/ disk' # disk]
                  /\ UNCHANGED <<pc, exit>>
             ELSE /\ Close(s, IF Kind[s] = "uninstall" THEN 3 ELSE 2)
                  /\ UNCHANGED <<disk, todo, wrote>>
    /\ UNCHANGED <<gateway, lock, found, listed, before, after, status, events, runs>>

\* A group that was not applied to the end: each of its paths shows what it showed,
\* what it was to show, or nothing.
HalfApplied(s) ==
    \/ UNCHANGED disk
    \/ \E g \in todo[s] :
          /\ pc[s] = "write" /\ First(s, g) /\ GroupUnchanged(s, g)
          /\ \E left \in [Group(g) \cap Changed(s) -> {"before", "after", "absent"}] :
                disk' = [f \in Files |->
                            IF f \notin DOMAIN left \/ left[f] = "before" THEN disk[f]
                            ELSE IF left[f] = "after" THEN after[s][f] ELSE Absent]

\* A group fails and is rolled back, or cannot be.
ApplyFails(s) ==
    /\ pc[s] = "write" /\ todo[s] # {}
    /\ Event
    /\ \/ Close(s, 3) /\ UNCHANGED disk
       \/ Close(s, IF Kind[s] = "uninstall" THEN 3 ELSE 5) /\ HalfApplied(s)
    /\ wrote' = [wrote EXCEPT ![s] = @ \/ disk' # disk]
    /\ UNCHANGED <<gateway, lock, work, status, runs>>

\* A version that calls a run a success when one provider at least was fresh.
OptimisticFinish(s) ==
    /\ pc[s] = "write" /\ todo[s] = {}
    /\ \/ /\ Close(s, IF Kind[s] # "uninstall" /\ Stale(s) = Providers THEN 4 ELSE 0)
          /\ UNCHANGED events
       \/ Kind[s] # "uninstall" /\ Event /\ Close(s, 5)
    /\ UNCHANGED <<gateway, disk, lock, work, wrote, status, runs>>

\* The readback, which may find a file or a client that does not work.
Finish(s) ==
    /\ pc[s] = "write" /\ todo[s] = {}
    /\ \/ /\ Close(s, IF Kind[s] # "uninstall" /\ (Stale(s) # {} \/ listed[s] = NoListing) THEN 4 ELSE 0)
          /\ UNCHANGED events
       \/ Kind[s] # "uninstall" /\ Event /\ Close(s, 5)
    /\ UNCHANGED <<gateway, disk, lock, work, wrote, status, runs>>

\* The refresh writes its status record, which may fail.
Record(s) ==
    /\ pc[s] = "record"
    /\ \/ /\ status' = CASE exit[s] = 0 -> "success" [] exit[s] = 4 -> "partial_freshness" [] OTHER -> "failed"
          /\ End(s, exit[s]) /\ UNCHANGED events
       \/ Event /\ End(s, 5) /\ UNCHANGED status
    /\ UNCHANGED <<gateway, disk, lock, work, wrote, runs>>

\* A version that forgets the lock when the plan fails.
LeakingUnlock(s) ==
    /\ pc[s] = "unlock"
    /\ Goto(s, "idle")
    /\ lock' = IF lock = s /\ exit[s] # 3 THEN Nobody ELSE lock
    /\ found' = [found EXCEPT ![s] = <<>>] /\ listed' = [listed EXCEPT ![s] = NoListing]
    /\ before' = [before EXCEPT ![s] = NoFiles] /\ after' = [after EXCEPT ![s] = NoFiles]
    /\ todo' = [todo EXCEPT ![s] = {}]
    /\ exit' = [exit EXCEPT ![s] = Running] /\ wrote' = [wrote EXCEPT ![s] = FALSE]
    /\ UNCHANGED <<gateway, disk, status, events, runs>>

Unlock(s) ==
    /\ pc[s] = "unlock"
    /\ Gone(s)
    /\ UNCHANGED <<gateway, disk, status, events, runs>>

-----------------------------------------------------------------------------
(* What else happens *)

\* The alarm ends a refresh that has the lock, which records it, and releases the lock.
Alarm(s) ==
    /\ Kind[s] = "refresh" /\ lock = s
    /\ Event
    /\ HalfApplied(s)
    /\ wrote' = [wrote EXCEPT ![s] = @ \/ disk' # disk]
    /\ status' = "failed"
    /\ End(s, 5)
    /\ UNCHANGED <<gateway, lock, work, runs>>

\* The process is killed; the kernel releases its lock.
Kill(s) ==
    /\ pc[s] # "idle"
    /\ Event
    /\ HalfApplied(s)
    /\ Gone(s)
    /\ UNCHANGED <<gateway, status, runs>>

\* A provider gets another inventory, stops answering, or answers again.
GatewayChanges(p) ==
    /\ Event
    /\ \/ version' = [version EXCEPT ![p] = @ + 1] /\ UNCHANGED up
       \/ up' = (IF p \in up THEN up \ {p} ELSE up \cup {p}) /\ UNCHANGED version
    /\ UNCHANGED <<cached, disk, lock, pc, work, exit, wrote, status, runs>>

\* The user writes a file of his own in the place of a client's, or removes one.
UserEdits(f) ==
    /\ Event
    /\ \E new \in {UserFile, Absent} \ {disk[f]} : disk' = [disk EXCEPT ![f] = new]
    /\ UNCHANGED <<gateway, lock, pc, work, exit, wrote, status, runs>>

Step(s) ==
    \/ Lock(s) \/ LockBusy(s) \/ Discover(s) \/ List(s) \/ Validate(s)
    \/ ApplyGroup(s) \/ ApplyFails(s) \/ Finish(s) \/ Record(s) \/ Unlock(s)

Next ==
    \/ \E s \in Syncs : Start(s) \/ Step(s) \/ Alarm(s) \/ Kill(s)
    \/ \E p \in Providers : GatewayChanges(p)
    \/ \E f \in Files : UserEdits(f)

Fairness ==
    \A s \in Syncs :
        /\ WF_vars(Step(s))
        /\ Kind[s] = "refresh" => WF_vars(Start(s))

Spec == Init /\ [][Next]_vars /\ Fairness

-----------------------------------------------------------------------------
(* Properties *)

ByUser == \E f \in Files : UserEdits(f)

\* No sync replaces a file the user wrote in the place of a client's, although he
\* writes it without the lock, at any time after it was captured.
UserFilesKept == [][~ByUser => \A f \in Files : disk[f] = UserFile => disk'[f] = UserFile]_vars

\* The shared fragment is only ever written when no provider's own fragment shows
\* another version of that provider: it is one rendering with all of them.
SharedMatchesFragments ==
    [][~ByUser /\ disk'[Shared] # disk[Shared] /\ disk'[Shared] # Absent =>
          \A p \in Providers : disk'[Fragment(p)] \in {disk'[Shared][p], UserFile, Absent}]_vars

\* No sync puts an older inventory over a newer one, however the runs of the operator
\* and of the scheduler overlap.
NewerInventoryIsKept ==
    [][\A p \in Providers : \A f \in {Codex(p), Fragment(p)} :
          disk[f] \in Versions /\ disk'[f] \in Versions => disk[f] <= disk'[f]]_vars

\* A run that exits with 0 leaves every file as the two discoveries showed the
\* providers, except where the user interfered; a recorded success says the same.
SuccessIsConverged ==
    [][\A s \in Syncs : Kind[s] # "uninstall" /\ exit[s] = Running /\ exit'[s] = 0 /\ lock = s =>
          /\ listed[s] # NoListing
          /\ \A p \in Providers :
                /\ disk[Codex(p)] \in {found[s][p], UserFile, Absent}
                /\ disk[Fragment(p)] \in {listed[s][p], UserFile, Absent}
          /\ disk[Shared] \in {listed[s], UserFile, Absent}]_vars

\* Every run ends.
EverySyncEnds == \A s \in Syncs : pc[s] # "idle" ~> pc[s] = "idle"

Converged ==
    /\ \A p \in Providers : disk[Codex(p)] = version[p] /\ disk[Fragment(p)] = version[p]
    /\ disk[Shared] = version

\* Once the providers answer and no file is the user's, the scheduled refresh brings
\* every client to the providers' inventories and keeps them there.
Converges ==
    <>[](up = Providers /\ \A f \in Files : disk[f] # UserFile) => <>[]Converged

\* The runs end, and together they bring the clients up to date.
SyncsEndAndConverge == EverySyncEnds /\ Converges

(* What the documentation says *)

\* "Invalid candidate or ownership conflict with no writes"
ExitThreeMeansNoWrites == \A s \in Syncs : exit[s] = 3 => ~wrote[s]

\* "A shared artifact is never rendered from a mixture of current and prior provider
\* state": it shows no version older than the one the same run discovered.
SharedIsNoMixture ==
    [][\A s \in Syncs : lock = s /\ ~ByUser /\ disk'[Shared] # disk[Shared] /\ disk'[Shared] # Absent =>
          \A p \in Providers : disk'[Shared][p] >= found[s][p]]_vars

=============================================================================
