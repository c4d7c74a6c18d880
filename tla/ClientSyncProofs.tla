-------------------------- MODULE ClientSyncProofs --------------------------
(***************************************************************************)
(* Proofs about ClientSync, for any number of providers, processes, runs,  *)
(* faults and edits: the lock excludes, the user's files stay, the shared  *)
(* fragment is one rendering with the providers' own fragments, no file    *)
(* goes back to an older inventory, and a success is a convergence.        *)
(*                                                                         *)
(* The argument has two inductive invariants.  In the first (IInv) only    *)
(* the holder of the lock is past `lock' (Exclusive), so that what a       *)
(* process captured is changed by nobody but itself and the user.  A plan  *)
(* never replaces a file that it saw to be the user's (Respectful), and    *)
(* once a group is applied its fragments show the plan's listing           *)
(* (Rendered), so that the shared group, which is the last one, is written *)
(* over fragments of the same listing.                                     *)
(*                                                                         *)
(* The second (KInv) rests on the first.  A plan is a function of one      *)
(* discovery and one listing (Made), and every file that no group to come  *)
(* will replace shows it (Progress).  No file is ahead of the providers,   *)
(* and no fragment of the gateway's snapshot (Past), so that what the      *)
(* holder of the lock finds and is listed is as new as what it replaces    *)
(* (FoundNewer, ListedNewer) and stays so while it holds the lock.         *)
(***************************************************************************)
EXTENDS ClientSync, TLAPS

Inside == {"discover", "list", "validate", "write", "record"}

Labels == Inside \cup {"idle", "lock", "unlock"}

Types ==
    /\ lock \in Syncs \cup {Nobody}
    /\ pc \in [Syncs -> Labels]
    /\ found \in [Syncs -> Seq(Nat)]
    /\ todo \in [Syncs -> SUBSET (0..N)]
    /\ version \in [Providers -> Nat]
    /\ DOMAIN before = Syncs /\ DOMAIN after = Syncs /\ DOMAIN listed = Syncs
    /\ \A s \in Syncs : DOMAIN before[s] = Files

Exclusive == \A s \in Syncs : pc[s] \in Inside => lock = s

\* What is captured of a file that the plan will replace is not the user's.
Careful(s) ==
    /\ pc[s] = "idle" => found[s] = <<>> /\ before[s] = NoFiles /\ after[s] = NoFiles
    /\ pc[s] = "lock" =>
          /\ found[s] = <<>> /\ after[s] = NoFiles
          /\ before[s][Shared] = Absent
          /\ \A f \in Files : before[s][f] # UserFile
    /\ pc[s] = "discover" => Len(found[s]) < N
    /\ pc[s] = "list" => Len(found[s]) = N
    /\ pc[s] \in {"discover", "list"} =>
          \A p \in Providers : p <= Len(found[s]) /\ found[s][p] # 0 => before[s][Codex(p)] # UserFile

Respectful(s) ==
    pc[s] \in {"validate", "write"} =>
        \A f \in Files : before[s][f] = UserFile => after[s][f] = UserFile

\* A file that shows what the plan saw or says, or what the user left.
Shows(f, content) == disk[f] \in {content, UserFile, Absent}

Rendered(s) ==
    pc[s] \in {"validate", "write"} /\ before[s][Shared] # after[s][Shared] =>
        \A p \in Providers :
            /\ after[s][Fragment(p)] = after[s][Shared][p]
            /\ pc[s] = "validate" => Shows(Fragment(p), before[s][Fragment(p)])
            /\ pc[s] = "write" =>
                  \/ p \in todo[s] /\ Shows(Fragment(p), before[s][Fragment(p)])
                  \/ Shows(Fragment(p), after[s][Fragment(p)])

IInv ==
    /\ Types
    /\ DOMAIN disk = Files
    /\ Exclusive
    /\ \A s \in Syncs : Careful(s) /\ Respectful(s) /\ Rendered(s)

-----------------------------------------------------------------------------
(* The groups *)

LEMMA GroupFiles ==
    /\ Shared \in Files /\ Group(0) = {Shared}
    /\ 0 \notin Providers
    /\ \A p \in Providers : /\ Codex(p) \in Files /\ Fragment(p) \in Files
                            /\ Codex(p) # Shared /\ Fragment(p) # Shared /\ Codex(p) # Fragment(p)
                            /\ Group(p) = {Codex(p), Fragment(p)}
                            /\ Codex(p)[1] = "codex" /\ Codex(p)[2] = p
                            /\ Fragment(p)[1] = "opencode" /\ Fragment(p)[2] = p
    /\ \A p, q \in Providers : Codex(p) # Fragment(q) /\ (Fragment(p) = Fragment(q) => p = q)
                               /\ (Codex(p) = Codex(q) => p = q)
    /\ \A g \in 0..N : Group(g) \subseteq Files
<1>1. 0 \notin Providers /\ 0..N = {0} \cup Providers
  BY ProvidersOK DEF Providers
<1> QED
  BY <1>1 DEF Files, Group, Codex, Fragment, Shared

\* The shared group is the last one of a run.
LEMMA SharedIsLast ==
    ASSUME NEW s \in Syncs, todo[s] \in SUBSET (0..N), First(s, 0)
    PROVE  todo[s] = {0}
<1>1. \A g \in 0..N : g # 0 => Rank(g) < N + 1
  BY ProvidersOK DEF Rank, Providers
<1>2. Rank(0) = N + 1
  BY ProvidersOK DEF Rank, Providers
<1> QED BY <1>1, <1>2, ProvidersOK DEF First, Rank, Providers

-----------------------------------------------------------------------------
(* Who changes what *)

Own(s) == <<pc[s], found[s], before[s], after[s], todo[s]>>

\* A process that is not at a step keeps what it works on.
LEMMA OthersKeep ==
    ASSUME IInv, NEW s \in Syncs, NEW t \in Syncs, t # s,
           Start(s) \/ Step(s) \/ Alarm(s) \/ Kill(s)
    PROVE  Own(t)' = Own(t)
<1>1. CASE Start(s)
  BY <1>1 DEF IInv, Types, Start, End, Goto, Own
<1>2. CASE Lock(s) \/ LockBusy(s)
  BY <1>2 DEF IInv, Types, Lock, LockBusy, End, Goto, Own, work
<1>3. CASE Discover(s)
  BY <1>3 DEF IInv, Types, Discover, End, Goto, Own
<1>4. CASE List(s)
  BY <1>4 DEF IInv, Types, List, End, Goto, Own
<1>5. CASE Validate(s)
  BY <1>5 DEF IInv, Types, Validate, Close, Goto, Own
<1>6. CASE ApplyGroup(s)
  BY <1>6 DEF IInv, Types, ApplyGroup, Close, Goto, Own
<1>7. CASE ApplyFails(s) \/ Finish(s)
  BY <1>7 DEF IInv, Types, ApplyFails, Finish, Close, Goto, Own, work
<1>8. CASE Record(s) \/ Alarm(s)
  BY <1>8 DEF IInv, Types, Record, Alarm, End, Goto, Own, work
<1>9. CASE Unlock(s) \/ Kill(s)
  BY <1>9 DEF IInv, Types, Unlock, Kill, Gone, Goto, Own
<1> QED BY <1>1, <1>2, <1>3, <1>4, <1>5, <1>6, <1>7, <1>8, <1>9 DEF Step

\* A step of a process writes no file and takes no lock while another one writes.
LEMMA WriterIsAlone ==
    ASSUME IInv, NEW s \in Syncs, NEW t \in Syncs, t # s, pc[t] \in Inside,
           Start(s) \/ Step(s) \/ Alarm(s) \/ Kill(s)
    PROVE  disk' = disk /\ lock' = lock
<1>1. lock = t /\ pc[s] \notin Inside /\ lock # Nobody
  BY NamesOK DEF IInv, Exclusive
<1>2. pc[s] # "write" /\ pc[s] \notin {"discover", "list", "validate", "record"}
  BY <1>1 DEF Inside
<1>3. CASE Start(s) \/ Lock(s) \/ LockBusy(s)
  BY <1>1, <1>3 DEF Start, Lock, LockBusy
<1>4. CASE Unlock(s) \/ Kill(s)
  BY <1>1, <1>2, <1>4 DEF Unlock, Kill, Gone, HalfApplied
<1>5. CASE Alarm(s)
  BY <1>1, <1>5 DEF Alarm
<1>6. ~(Discover(s) \/ List(s) \/ Validate(s) \/ ApplyGroup(s) \/ ApplyFails(s) \/ Finish(s) \/ Record(s))
  BY <1>2 DEF Discover, List, Validate, ApplyGroup, ApplyFails, Finish, Record
<1> QED BY <1>3, <1>4, <1>5, <1>6 DEF Step

-----------------------------------------------------------------------------
(* The invariant is inductive *)

LEMMA TypesStep ==
    ASSUME IInv, NEW s \in Syncs, Start(s) \/ Step(s) \/ Alarm(s) \/ Kill(s)
    PROVE  Types'
<1> USE DEF IInv, Types, Labels, Inside
<1>1. CASE Start(s)
  <2>1. UNCHANGED <<lock, found, todo, version, after, listed>>
    BY <1>1 DEF Start, gateway
  <2>2. pc' \in [Syncs -> Labels]
    BY <1>1 DEF Start, End, Goto
  <2>3. DOMAIN before' = Syncs /\ \A t \in Syncs : DOMAIN before'[t] = Files
    BY <1>1 DEF Start
  <2> QED BY <2>1, <2>2, <2>3
<1>2. CASE Lock(s) \/ LockBusy(s)
  <2>1. UNCHANGED <<found, before, version, after, listed>> /\ lock' \in Syncs \cup {Nobody}
    BY <1>2 DEF Lock, LockBusy, gateway, work
  <2>2. pc' \in [Syncs -> Labels]
    BY <1>2 DEF Lock, LockBusy, End, Goto
  <2>3. Ollama \in 0..N
    BY ProvidersOK DEF Providers
  <2>4. todo' \in [Syncs -> SUBSET (0..N)]
    <3>1. CASE Lock(s)
      BY <3>1, <2>3 DEF Lock
    <3>2. CASE LockBusy(s)
      BY <3>2 DEF LockBusy, work
    <3> QED BY <1>2, <3>1, <3>2
  <2> QED BY <2>1, <2>2, <2>4
<1>3. CASE Discover(s)
  <2>1. Len(found[s]) + 1 \in Nat
    OBVIOUS
  <2>2. CASE UNCHANGED found
    BY <1>3, <2>2 DEF Discover, End, Goto, gateway
  <2>3. ASSUME NEW v \in Nat, found' = [found EXCEPT ![s] = Append(@, v)]
        PROVE  found' \in [Syncs -> Seq(Nat)]
    BY <2>3
  <2>4. CASE pc[s] = "discover" /\ Careful(s)
    <3>1. Len(found[s]) + 1 \in Providers
      BY <2>1, <2>4, ProvidersOK DEF Careful, Providers
    <3>2. found' \in [Syncs -> Seq(Nat)]
      BY <1>3, <2>2, <2>3, <3>1 DEF Discover
    <3> QED BY <1>3, <3>2 DEF Discover, End, Goto, gateway
  <2> QED BY <1>3, <2>4 DEF Discover
<1>4. CASE List(s)
  <2>1. UNCHANGED <<lock, found, todo, version>>
    BY <1>4 DEF List
  <2>2. pc' \in [Syncs -> Labels]
    BY <1>4 DEF List, End, Goto
  <2>3. /\ DOMAIN after' = DOMAIN after /\ DOMAIN listed' = DOMAIN listed
        /\ \/ before' = before
           \/ \E captured : DOMAIN captured = Files /\ before' = [before EXCEPT ![s] = captured]
    BY <1>4 DEF List
  <2> QED BY <2>1, <2>2, <2>3
<1>5. CASE Validate(s)
  <2>1. UNCHANGED <<lock, found, before, version, after, listed>>
    BY <1>5 DEF Validate, gateway
  <2>2. pc' \in [Syncs -> Labels]
    BY <1>5 DEF Validate, Close, Goto
  <2>3. todo' \in [Syncs -> SUBSET (0..N)]
    <3>1. todo' = todo \/ \E T \in SUBSET (0..N) : todo' = [todo EXCEPT ![s] = T]
      BY <1>5 DEF Validate
    <3> QED BY <3>1
  <2> QED BY <2>1, <2>2, <2>3
<1>6. CASE ApplyGroup(s)
  <2>1. UNCHANGED <<lock, found, before, version, after, listed>>
    BY <1>6 DEF ApplyGroup, gateway
  <2>2. pc' \in [Syncs -> Labels]
    BY <1>6 DEF ApplyGroup, Close, Goto
  <2>3. todo' \in [Syncs -> SUBSET (0..N)]
    <3>1. todo' = todo \/ \E g \in todo[s] : todo' = [todo EXCEPT ![s] = @ \ {g}]
      BY <1>6 DEF ApplyGroup
    <3> QED BY <3>1
  <2> QED BY <2>1, <2>2, <2>3
<1>7. CASE ApplyFails(s) \/ Finish(s)
  BY <1>7 DEF ApplyFails, Finish, Close, Goto, work, gateway
<1>8. CASE Record(s) \/ Alarm(s)
  BY <1>8 DEF Record, Alarm, End, Goto, work, gateway
<1>9. CASE Unlock(s) \/ Kill(s)
  <2>1. found' \in [Syncs -> Seq(Nat)]
    <3>1. <<>> \in Seq(Nat)
      OBVIOUS
    <3>2. found' = [found EXCEPT ![s] = <<>>]
      BY <1>9 DEF Unlock, Kill, Gone
    <3> QED BY <3>1, <3>2
  <2> QED BY <1>9, <2>1, ZenonT(40) DEF Unlock, Kill, Gone, Goto, gateway, NoFiles
<1> QED BY <1>1, <1>2, <1>3, <1>4, <1>5, <1>6, <1>7, <1>8, <1>9 DEF Step

LEMMA ExclusiveStep ==
    ASSUME IInv, NEW s \in Syncs, Start(s) \/ Step(s) \/ Alarm(s) \/ Kill(s)
    PROVE  Exclusive'
<1>1. ASSUME NEW t \in Syncs, t # s, pc'[t] \in Inside
      PROVE  lock' = t
  BY <1>1, OthersKeep, WriterIsAlone DEF IInv, Exclusive, Own
<1>2. ASSUME pc'[s] \in Inside
      PROVE  lock' = s
  <2> USE DEF IInv, Types, Exclusive, Inside
  <2>1. CASE Start(s) \/ LockBusy(s)
    BY <1>2, <2>1 DEF Start, LockBusy, End, Goto
  <2>2. CASE Lock(s)
    BY <1>2, <2>2 DEF Lock, Goto
  <2>3. CASE Discover(s) \/ List(s)
    BY <1>2, <2>3 DEF Discover, List, End, Goto
  <2>4. CASE Validate(s) \/ ApplyGroup(s)
    BY <1>2, <2>4 DEF Validate, ApplyGroup, Close, Goto
  <2>5. CASE ApplyFails(s) \/ Finish(s) \/ Record(s) \/ Alarm(s)
    BY <1>2, <2>5 DEF ApplyFails, Finish, Record, Alarm, Close, End, Goto
  <2>6. CASE Unlock(s) \/ Kill(s)
    BY <1>2, <2>6 DEF Unlock, Kill, Gone, Goto
  <2> QED BY <2>1, <2>2, <2>3, <2>4, <2>5, <2>6 DEF Step
<1> QED BY <1>1, <1>2 DEF Exclusive

\* What a plan is to show of each file.
LEMMA CodexCandidate ==
    ASSUME NEW s \in Syncs, NEW captured, NEW listing, NEW p \in Providers
    PROVE  Candidate(s, captured, listing, Codex(p)) =
               IF p \in Stale(s) THEN captured[Codex(p)] ELSE found[s][p]
BY GroupFiles DEF Candidate

LEMMA FragmentCandidate ==
    ASSUME NEW s \in Syncs, NEW captured, NEW listing, NEW p \in Providers
    PROVE  /\ p \in Stale(s) => Candidate(s, captured, listing, Fragment(p)) = captured[Fragment(p)]
           /\ listing = NoListing => Candidate(s, captured, listing, Fragment(p)) = captured[Fragment(p)]
           /\ p \notin Stale(s) /\ listing # NoListing =>
                  Candidate(s, captured, listing, Fragment(p)) = listing[p]
BY GroupFiles DEF Candidate

LEMMA SharedCandidate ==
    ASSUME NEW s \in Syncs, NEW captured, NEW listing
    PROVE  /\ Stale(s) # {} \/ listing = NoListing =>
                  Candidate(s, captured, listing, Shared) = captured[Shared]
           /\ Stale(s) = {} /\ listing # NoListing => Candidate(s, captured, listing, Shared) = listing
BY DEF Candidate

\* The plan that List makes of what was found before it.
LEMMA ListPlans ==
    ASSUME IInv, NEW s \in Syncs, List(s), pc'[s] = "validate"
    PROVE  /\ \A f \in Files : before'[s][f] = UserFile => after'[s][f] = UserFile
           /\ before'[s][Shared] # after'[s][Shared] =>
                \A p \in Providers :
                    /\ after'[s][Fragment(p)] = after'[s][Shared][p]
                    /\ before'[s][Fragment(p)] = disk'[Fragment(p)]
<1>1. PICK answered \in BOOLEAN :
        LET usable == /\ answered
                      /\ \E p \in Providers : Listing[p] # 0
                      /\ \A f \in Files : f[1] = "opencode" => disk[f] # UserFile
            listing == IF usable THEN Listing ELSE NoListing
            captured == [f \in Files |-> IF f[1] = "codex" /\ Stale(s) # {} THEN before[s][f] ELSE disk[f]]
        IN
        /\ before' = [before EXCEPT ![s] = captured]
        /\ after' = [after EXCEPT ![s] = [f \in Files |-> Candidate(s, captured, listing, f)]]
  BY DEF List, End, Goto, IInv, Types
<1> DEFINE usable == /\ answered
                     /\ \E p \in Providers : Listing[p] # 0
                     /\ \A f \in Files : f[1] = "opencode" => disk[f] # UserFile
           listing == IF usable THEN Listing ELSE NoListing
           captured == [f \in Files |-> IF f[1] = "codex" /\ Stale(s) # {} THEN before[s][f] ELSE disk[f]]
<1>2. before'[s] = captured /\ after'[s] = [f \in Files |-> Candidate(s, captured, listing, f)]
  BY <1>1 DEF IInv, Types
<1>3. disk' = disk /\ pc[s] = "list"
  BY DEF List
<1>4. Len(found[s]) = N /\ \A p \in Providers : found[s][p] # 0 => before[s][Codex(p)] # UserFile
  BY <1>3, ProvidersOK DEF IInv, Careful, Providers
<1>5. Stale(s) = {} => \A p \in Providers : disk[Codex(p)] # UserFile
  BY DEF List, End, Goto, IInv, Types
<1>6. usable => \A f \in Files : f[1] = "opencode" => captured[f] # UserFile
  BY DEF Files, Codex
<1>7. ~usable => listing = NoListing
  OBVIOUS
<1>8. \A p \in Providers : p \notin Stale(s) => captured[Codex(p)] # UserFile
  BY <1>4, <1>5, GroupFiles DEF Stale
<1>9. /\ Shared[1] = "opencode"
      /\ captured[Shared] = disk[Shared] /\ \A p \in Providers : captured[Fragment(p)] = disk[Fragment(p)]
  BY GroupFiles DEF Shared
<1> HIDE DEF usable, listing, captured
<1>10. ASSUME NEW f \in Files, captured[f] = UserFile
       PROVE  Candidate(s, captured, listing, f) = UserFile
  <2>1. CASE f = Shared
    BY <1>6, <1>7, <1>9, <1>10, <2>1, SharedCandidate
  <2>2. ASSUME NEW p \in Providers, f = Codex(p) PROVE Candidate(s, captured, listing, f) = UserFile
    BY <1>8, <1>10, <2>2, CodexCandidate
  <2>3. ASSUME NEW p \in Providers, f = Fragment(p) PROVE Candidate(s, captured, listing, f) = UserFile
    <3>1. f[1] = "opencode" /\ listing = NoListing
      BY <1>6, <1>7, <1>10, <2>3, GroupFiles
    <3>2. Candidate(s, captured, listing, Fragment(p)) = captured[Fragment(p)]
      BY <3>1, FragmentCandidate
    <3> QED BY <1>10, <2>3, <3>2
  <2> QED BY <2>1, <2>2, <2>3 DEF Files
<1>11. ASSUME captured[Shared] # Candidate(s, captured, listing, Shared), NEW p \in Providers
       PROVE  Candidate(s, captured, listing, Fragment(p)) = Candidate(s, captured, listing, Shared)[p]
  BY <1>11, SharedCandidate, FragmentCandidate
<1> QED BY <1>2, <1>3, <1>9, <1>10, <1>11, GroupFiles

\* What ApplyGroup and HalfApplied do to a file.
LEMMA WriterWrites ==
    ASSUME IInv, NEW s \in Syncs, pc[s] = "write", NEW f \in Files,
           ApplyGroup(s) \/ HalfApplied(s), disk'[f] # disk[f]
    PROVE  /\ f \in Changed(s) /\ disk[f] = before[s][f] /\ disk'[f] \in {after[s][f], Absent}
           /\ \E g \in todo[s] : First(s, g) /\ f \in Group(g)
<1>1. CASE ApplyGroup(s)
  BY <1>1 DEF ApplyGroup, GroupUnchanged, Expected
<1>2. CASE HalfApplied(s)
  BY <1>2 DEF HalfApplied, GroupUnchanged, Expected
<1> QED BY <1>1, <1>2

\* Only the steps that write a group change a file.
LEMMA OnlyWritersWrite ==
    ASSUME IInv, NEW s \in Syncs, Start(s) \/ Step(s) \/ Alarm(s) \/ Kill(s), disk' # disk
    PROVE  pc[s] = "write" /\ (ApplyGroup(s) \/ HalfApplied(s))
<1>1. \/ ApplyGroup(s) \/ ApplyFails(s) \/ Alarm(s) \/ Kill(s)
  BY DEF Step, Start, Lock, LockBusy, Discover, List, Validate, Finish, Record, Unlock
<1>2. CASE ApplyGroup(s)
  BY <1>2 DEF ApplyGroup
<1>3. CASE HalfApplied(s)
  BY <1>3 DEF HalfApplied
<1>4. HalfApplied(s) \/ ApplyGroup(s)
  BY <1>1 DEF ApplyFails, Alarm, Kill
<1> QED BY <1>2, <1>3, <1>4

LEMMA CarefulStep ==
    ASSUME IInv, NEW s \in Syncs, Start(s) \/ Step(s) \/ Alarm(s) \/ Kill(s)
    PROVE  Careful(s)'
<1> USE DEF IInv, Types
<1>1. CASE Start(s)
  <2>1. found' = found /\ after' = after /\ pc'[s] \in {"lock", "unlock"}
    BY <1>1 DEF Start, End, Goto
  <2>2. found[s] = <<>> /\ before[s] = NoFiles /\ after[s] = NoFiles
    BY <1>1 DEF Start, Careful
  <2>3. pc'[s] = "lock" => /\ before'[s][Shared] = Absent
                          /\ \A f \in Files : before'[s][f] # UserFile
    BY <1>1, <2>2, NamesOK, GroupFiles, ProvidersOK DEF Start, End, Goto, NoFiles
  <2> QED BY <2>1, <2>2, <2>3 DEF Careful
<1>2. CASE Lock(s)
  <2>1. pc'[s] \in {"write", "discover"} /\ found' = found /\ found[s] = <<>>
    BY <1>2 DEF Lock, Goto, Careful
  <2>2. Len(<<>>) = 0 /\ N > 0 /\ \A p \in Providers : ~(p <= 0)
    BY ProvidersOK DEF Providers
  <2> QED BY <2>1, <2>2 DEF Careful
<1>3. CASE LockBusy(s)
  BY <1>3 DEF LockBusy, End, Goto, Careful
<1>4. CASE Discover(s)
  <2> DEFINE n == Len(found[s]) + 1
             v == IF n \in up THEN version[n] ELSE 0
  <2>1. n \in Providers /\ n \in 1..N
    BY <1>4, ProvidersOK DEF Discover, Careful, Providers
  <2>2. v \in Nat
    BY <2>1
  <2>3. CASE pc'[s] = "unlock"
    BY <2>3 DEF Careful
  <2>4. CASE pc'[s] # "unlock"
    <3>1. /\ found' = [found EXCEPT ![s] = Append(@, v)]
          /\ before' = [before EXCEPT ![s][Codex(n)] = disk[Codex(n)]]
          /\ pc'[s] = IF n = N THEN "list" ELSE "discover"
          /\ v = 0 \/ disk[Codex(n)] # UserFile
      BY <1>4, <2>4 DEF Discover, End, Goto
    <3>2. found'[s] = Append(found[s], v) /\ Len(found'[s]) = n /\ found'[s][n] = v
      BY <3>1, <2>2
    <3>3. \A p \in 1..Len(found[s]) : found'[s][p] = found[s][p]
      BY <3>2, <2>2
    <3>4. \A p \in Providers : p # n => before'[s][Codex(p)] = before[s][Codex(p)]
      BY <3>1, <2>1, GroupFiles
    <3>5. before'[s][Codex(n)] = disk[Codex(n)]
      BY <3>1, <2>1, GroupFiles
    <3>6. \A p \in Providers : p <= Len(found[s]) /\ found[s][p] # 0 => before[s][Codex(p)] # UserFile
      BY <1>4 DEF Discover, Careful
    <3>7. \A p \in Providers : p <= n => p = n \/ p \in 1..Len(found[s])
      BY ProvidersOK DEF Providers
    <3>8. \A p \in Providers : p <= n /\ found'[s][p] # 0 => before'[s][Codex(p)] # UserFile
      BY <3>1, <3>2, <3>3, <3>4, <3>5, <3>6, <3>7
    <3>9. n = N \/ n < N
      BY <2>1, ProvidersOK
    <3> HIDE DEF n, v
    <3> QED BY <3>1, <3>2, <3>8, <3>9 DEF Careful
  <2> QED BY <2>3, <2>4
<1>5. CASE List(s)
  BY <1>5 DEF List, End, Goto, Careful
<1>6. CASE Validate(s)
  BY <1>6 DEF Validate, Close, Goto, Careful
<1>7. CASE ApplyGroup(s)
  BY <1>7 DEF ApplyGroup, Close, Goto, Careful
<1>8. CASE ApplyFails(s) \/ Finish(s) \/ Record(s) \/ Alarm(s)
  BY <1>8 DEF ApplyFails, Finish, Record, Alarm, Close, End, Goto, Careful
<1>9. CASE Unlock(s) \/ Kill(s)
  <2>1. found'[s] = <<>> /\ before'[s] = NoFiles /\ after'[s] = NoFiles /\ pc'[s] = "idle"
    BY <1>9 DEF Unlock, Kill, Gone, Goto
  <2> QED BY <2>1 DEF Careful
<1> QED BY <1>1, <1>2, <1>3, <1>4, <1>5, <1>6, <1>7, <1>8, <1>9 DEF Step

LEMMA RespectfulStep ==
    ASSUME IInv, NEW s \in Syncs, Start(s) \/ Step(s) \/ Alarm(s) \/ Kill(s)
    PROVE  Respectful(s)'
<1> USE DEF IInv, Types
<1> SUFFICES ASSUME pc'[s] \in {"validate", "write"}
             PROVE  \A f \in Files : before'[s][f] = UserFile => after'[s][f] = UserFile
  BY DEF Respectful
<1>1. CASE List(s)
  <2>1. pc'[s] = "validate"
    BY <1>1 DEF List, End, Goto
  <2> QED BY <1>1, <2>1, ListPlans
<1>2. CASE Lock(s)
  BY <1>2 DEF Lock, Goto, Careful
<1>3. CASE Validate(s)
  BY <1>3 DEF Validate, Close, Goto, Respectful
<1>4. CASE ApplyGroup(s)
  BY <1>4 DEF ApplyGroup, Close, Goto, Respectful
<1>5. ~Start(s) /\ ~LockBusy(s)
  BY DEF Start, LockBusy, End, Goto
<1>6. ~Discover(s) /\ ~Record(s) /\ ~Alarm(s)
  BY DEF Discover, Record, Alarm, End, Goto
<1>7. ~ApplyFails(s) /\ ~Finish(s)
  BY DEF ApplyFails, Finish, Close, Goto
<1>8. ~Unlock(s) /\ ~Kill(s)
  BY DEF Unlock, Kill, Gone, Goto
<1> QED BY <1>1, <1>2, <1>3, <1>4, <1>5, <1>6, <1>7, <1>8 DEF Step

LEMMA RenderedStep ==
    ASSUME IInv, NEW s \in Syncs, Start(s) \/ Step(s) \/ Alarm(s) \/ Kill(s)
    PROVE  Rendered(s)'
<1> USE DEF IInv, Types
<1> SUFFICES ASSUME pc'[s] \in {"validate", "write"}, before'[s][Shared] # after'[s][Shared],
                    NEW p \in Providers
             PROVE  /\ after'[s][Fragment(p)] = after'[s][Shared][p]
                    /\ pc'[s] = "validate" =>
                          disk'[Fragment(p)] \in {before'[s][Fragment(p)], UserFile, Absent}
                    /\ pc'[s] = "write" =>
                          \/ p \in todo'[s] /\ disk'[Fragment(p)] \in {before'[s][Fragment(p)], UserFile, Absent}
                          \/ disk'[Fragment(p)] \in {after'[s][Fragment(p)], UserFile, Absent}
  BY DEF Rendered, Shows
<1>1. CASE List(s)
  <2>1. pc'[s] = "validate"
    BY <1>1 DEF List, End, Goto
  <2> QED BY <1>1, <2>1, ListPlans
<1>2. CASE Lock(s)
  <2>1. before'[s][Shared] = Absent /\ after'[s][Shared] = Absent
    BY <1>2, GroupFiles DEF Lock, Careful, NoFiles
  <2> QED BY <2>1
<1>3. CASE Validate(s)
  <2>1. /\ UNCHANGED <<before, after, disk>> /\ pc[s] = "validate" /\ pc'[s] = "write"
        /\ todo'[s] = {g \in 0..N : Group(g) \cap Changed(s) # {}}
    BY <1>3 DEF Validate, Close, Goto
  <2>2. /\ after[s][Fragment(p)] = after[s][Shared][p]
        /\ disk[Fragment(p)] \in {before[s][Fragment(p)], UserFile, Absent}
    BY <2>1 DEF Rendered, Shows
  <2>3. p \notin todo'[s] => before[s][Fragment(p)] = after[s][Fragment(p)]
    BY <2>1, GroupFiles, ProvidersOK DEF Changed, Providers
  <2> QED BY <2>1, <2>2, <2>3
<1>4. CASE ApplyGroup(s)
  <2>1. UNCHANGED <<before, after>> /\ pc[s] = "write" /\ pc'[s] = "write"
    BY <1>4 DEF ApplyGroup, Close, Goto
  <2>2. /\ after[s][Fragment(p)] = after[s][Shared][p]
        /\ \/ p \in todo[s] /\ disk[Fragment(p)] \in {before[s][Fragment(p)], UserFile, Absent}
           \/ disk[Fragment(p)] \in {after[s][Fragment(p)], UserFile, Absent}
    BY <2>1 DEF Rendered, Shows
  <2>3. PICK g \in todo[s] :
          /\ GroupUnchanged(s, g)
          /\ disk' = [f \in Files |-> IF f \in Group(g) \cap Changed(s) THEN after[s][f] ELSE disk[f]]
          /\ todo' = [todo EXCEPT ![s] = @ \ {g}]
    BY <1>4, <2>1 DEF ApplyGroup, Close, Goto
  <2>4. CASE p = g
    <3>1. Fragment(p) \in Group(g) /\ Fragment(p) \in Files
      BY <2>4, GroupFiles
    <3>2. CASE Fragment(p) \in Changed(s)
      BY <2>1, <2>2, <2>3, <3>1, <3>2
    <3>3. CASE Fragment(p) \notin Changed(s)
      <4>1. before[s][Fragment(p)] = after[s][Fragment(p)] /\ disk'[Fragment(p)] = disk[Fragment(p)]
        BY <2>3, <3>1, <3>3 DEF Changed
      <4> QED BY <2>1, <2>2, <4>1
    <3> QED BY <3>2, <3>3
  <2>5. CASE p # g
    <3>1. p \in todo'[s] <=> p \in todo[s]
      BY <2>3, <2>5
    <3>2. disk'[Fragment(p)] \in {disk[Fragment(p)], after[s][Fragment(p)]}
      BY <2>3, GroupFiles
    <3> QED BY <2>1, <2>2, <3>1, <3>2
  <2> QED BY <2>4, <2>5
<1>5. ~Start(s) /\ ~LockBusy(s)
  BY DEF Start, LockBusy, End, Goto
<1>6. ~Discover(s) /\ ~Record(s) /\ ~Alarm(s)
  BY DEF Discover, Record, Alarm, End, Goto
<1>7. ~ApplyFails(s) /\ ~Finish(s)
  BY DEF ApplyFails, Finish, Close, Goto
<1>8. ~Unlock(s) /\ ~Kill(s)
  BY DEF Unlock, Kill, Gone, Goto
<1> QED BY <1>1, <1>2, <1>3, <1>4, <1>5, <1>6, <1>7, <1>8 DEF Step

\* The environment changes nothing that a plan relies on, but for the user's edits.
LEMMA EnvironmentStep ==
    ASSUME IInv, \/ \E p \in Providers : GatewayChanges(p)
                 \/ \E f \in Files : UserEdits(f)
    PROVE  IInv'
<1>1. UNCHANGED <<lock, pc, found, listed, before, after, todo>>
  BY DEF GatewayChanges, UserEdits, work
<1>2. version' \in [Providers -> Nat]
  <2>1. version' = version \/ \E p \in Providers : version' = [version EXCEPT ![p] = @ + 1]
    BY DEF GatewayChanges, UserEdits, gateway
  <2> QED BY <2>1 DEF IInv, Types, Providers
<1>3. \A f \in Files : disk'[f] \in {disk[f], UserFile, Absent}
  <2>1. disk' = disk \/ \E f \in Files, new \in {UserFile, Absent} : disk' = [disk EXCEPT ![f] = new]
    BY DEF GatewayChanges, UserEdits
  <2> QED BY <2>1 DEF IInv
<1>4. Types' /\ Exclusive' /\ DOMAIN disk' = Files
  BY <1>1, <1>2 DEF IInv, Types, Exclusive, GatewayChanges, UserEdits
<1>5. ASSUME NEW s \in Syncs PROVE Careful(s)' /\ Respectful(s)'
  BY <1>1 DEF IInv, Careful, Respectful
<1>6. ASSUME NEW s \in Syncs PROVE Rendered(s)'
  BY <1>1, <1>3, GroupFiles DEF IInv, Rendered, Shows
<1> QED BY <1>4, <1>5, <1>6 DEF IInv

LEMMA ProcessStep ==
    ASSUME IInv, NEW s \in Syncs, Start(s) \/ Step(s) \/ Alarm(s) \/ Kill(s)
    PROVE  IInv'
<1>1. Types' /\ Exclusive' /\ Careful(s)' /\ Respectful(s)' /\ Rendered(s)'
  BY TypesStep, ExclusiveStep, CarefulStep, RespectfulStep, RenderedStep
<1>2. ASSUME NEW t \in Syncs, t # s
      PROVE  Careful(t)' /\ Respectful(t)' /\ Rendered(t)'
  <2>1. /\ pc'[t] = pc[t] /\ found'[t] = found[t] /\ before'[t] = before[t]
        /\ after'[t] = after[t] /\ todo'[t] = todo[t]
    BY <1>2, OthersKeep DEF Own
  <2>2. Careful(t)' /\ Respectful(t)'
    BY <2>1 DEF IInv, Careful, Respectful
  <2>3. pc[t] \in {"validate", "write"} => disk' = disk
    BY <1>2, WriterIsAlone DEF Inside
  <2>4. Rendered(t)'
    BY <2>1, <2>3 DEF IInv, Rendered, Shows
  <2> QED BY <2>2, <2>4
<1>3. DOMAIN disk' = Files
  <2>1. CASE disk' = disk
    BY <2>1 DEF IInv
  <2>2. CASE disk' # disk
    <3>1. ApplyGroup(s) \/ HalfApplied(s)
      BY <2>2, OnlyWritersWrite
    <3> QED BY <2>2, <3>1 DEF ApplyGroup, HalfApplied
  <2> QED BY <2>1, <2>2
<1> QED BY <1>1, <1>2, <1>3 DEF IInv

LEMMA Invariance == Spec => []IInv
<1>1. Init => IInv
  <2>1. ASSUME Init PROVE Types
    BY <2>1 DEF Init, Types, Labels, Inside, NoFiles
  <2>2. ASSUME Init PROVE Exclusive
    BY <2>2 DEF Init, Exclusive, Inside
  <2>3. ASSUME Init, NEW s \in Syncs PROVE Careful(s) /\ Respectful(s) /\ Rendered(s)
    BY <2>3 DEF Init, Careful, Respectful, Rendered
  <2> QED BY <2>1, <2>2, <2>3 DEF IInv, Init, NoFiles
<1>2. IInv /\ [Next]_vars => IInv'
  <2>1. ASSUME IInv, UNCHANGED vars PROVE IInv'
    BY <2>1 DEF vars, IInv, Types, Exclusive, Careful, Respectful, Rendered, Shows
  <2> QED BY <2>1, EnvironmentStep, ProcessStep DEF Next
<1> QED BY <1>1, <1>2, PTL DEF Spec

-----------------------------------------------------------------------------
(* The theorems *)

\* acquire_client_sync_lock excludes: two processes are never both between their
\* discovery and their last write, whichever of them are killed or time out.
THEOREM OneSyncAtATime ==
    Spec => [](\A s, t \in Syncs : pc[s] \in Inside /\ pc[t] \in Inside => s = t)
<1>1. IInv => \A s, t \in Syncs : pc[s] \in Inside /\ pc[t] \in Inside => s = t
  BY DEF IInv, Exclusive
<1> QED BY <1>1, Invariance, PTL

\* No sync replaces or removes a file that the user wrote in the place of a client's,
\* when and however often he does it.
THEOREM UserFilesAreKept == Spec => UserFilesKept
<1>1. ASSUME IInv, [Next]_vars, ~ByUser, NEW f \in Files, disk[f] = UserFile
      PROVE  disk'[f] = UserFile
  <2>1. ASSUME NEW s \in Syncs, Start(s) \/ Step(s) \/ Alarm(s) \/ Kill(s), disk'[f] # disk[f]
        PROVE  FALSE
    <3>1. pc[s] = "write" /\ f \in Changed(s) /\ disk[f] = before[s][f]
      BY <1>1, <2>1, OnlyWritersWrite, WriterWrites
    <3>2. before[s][f] # after[s][f] /\ before[s][f] = UserFile
      BY <1>1, <3>1 DEF Changed
    <3> QED BY <1>1, <3>1, <3>2 DEF IInv, Respectful
  <2>2. CASE UNCHANGED disk
    BY <1>1, <2>2
  <2> QED BY <1>1, <2>1, <2>2 DEF Next, ByUser, GatewayChanges, vars
<1>2. IInv /\ [Next]_vars => [~ByUser => \A f \in Files : disk[f] = UserFile => disk'[f] = UserFile]_vars
  BY <1>1
<1> QED BY <1>2, Invariance, PTL DEF Spec, UserFilesKept

\* The shared fragment is written over fragments of the same listing, for any number
\* of providers and any order of the groups before it.
THEOREM SharedIsOneRendering == Spec => SharedMatchesFragments
<1>1. ASSUME IInv, [Next]_vars, ~ByUser, disk'[Shared] # disk[Shared], disk'[Shared] # Absent,
             NEW p \in Providers
      PROVE  disk'[Fragment(p)] \in {disk'[Shared][p], UserFile, Absent}
  <2>1. PICK s \in Syncs : Start(s) \/ Step(s) \/ Alarm(s) \/ Kill(s)
    BY <1>1 DEF Next, ByUser, GatewayChanges, vars
  <2>2. pc[s] = "write" /\ (ApplyGroup(s) \/ HalfApplied(s))
    BY <1>1, <2>1, OnlyWritersWrite
  <2>3. /\ Shared \in Changed(s) /\ disk'[Shared] = after[s][Shared]
        /\ \E g \in todo[s] : First(s, g) /\ Shared \in Group(g)
    BY <1>1, <2>1, <2>2, WriterWrites, GroupFiles
  <2>4. First(s, 0) /\ todo[s] \in SUBSET (0..N)
    BY <1>1, <2>3, GroupFiles, ProvidersOK DEF IInv, Types, Providers
  <2>5. p \notin todo[s]
    BY <2>4, SharedIsLast, GroupFiles
  <2>6. /\ after[s][Fragment(p)] = after[s][Shared][p]
        /\ disk[Fragment(p)] \in {after[s][Fragment(p)], UserFile, Absent}
    BY <1>1, <2>2, <2>3, <2>5 DEF IInv, Rendered, Shows, Changed
  <2>7. disk'[Fragment(p)] \in {disk[Fragment(p)], after[s][Fragment(p)], Absent}
    BY <1>1, <2>2, WriterWrites, GroupFiles
  <2> QED BY <2>3, <2>6, <2>7
<1>2. IInv /\ [Next]_vars =>
        [~ByUser /\ disk'[Shared] # disk[Shared] /\ disk'[Shared] # Absent =>
            \A p \in Providers : disk'[Fragment(p)] \in {disk'[Shared][p], UserFile, Absent}]_vars
  BY <1>1
<1> QED BY <1>2, Invariance, PTL DEF Spec, SharedMatchesFragments

-----------------------------------------------------------------------------
(* What a run shows, and that it only goes forward *)

\* A run that brings the clients up to date and has its plan.
Planned(s) == Kind[s] # "uninstall" /\ pc[s] \in {"validate", "write"}

MoreTypes ==
    /\ cached \in [Providers -> Nat]
    /\ listed \in [Syncs -> [Providers -> Nat] \cup {NoListing}]
    /\ DOMAIN exit = Syncs

\* The lock is held on the way only.
Holder == \A s \in Syncs : lock = s => pc[s] \in Inside \cup {"unlock"}

\* The removal of Ollama's profile makes no plan and writes nothing.
Removal(s) ==
    /\ pc[s] \in {"discover", "list", "validate"} => Kind[s] # "uninstall"
    /\ pc[s] = "write" /\ Kind[s] = "uninstall" => after[s] = NoFiles

\* A profile shows what was captured of it until the plan is made.
Seen(s) ==
    pc[s] \in {"discover", "list"} =>
        \A p \in Providers : p <= Len(found[s]) => Shows(Codex(p), before[s][Codex(p)])

\* The plan is what List made it, from the same discovery.
Made(s) ==
    Planned(s) =>
        /\ Len(found[s]) = N
        /\ \A f \in Files : after[s][f] = Candidate(s, before[s], listed[s], f)

\* A file that no group to come will replace shows the plan.
Progress(s) ==
    Planned(s) =>
        \A f \in Files :
            /\ pc[s] = "validate" => Shows(f, before[s][f])
            /\ pc[s] = "write" => \/ Shows(f, before[s][f]) /\ \E g \in todo[s] : f \in Group(g)
                                  \/ Shows(f, after[s][f])

\* A file that shows an inventory.
AtMost(f, v) == disk[f] \in Nat => disk[f] <= v

\* Nothing shows an inventory that was not there yet, and a fragment none that the
\* gateway's snapshot has not reached.
Past ==
    \A p \in Providers :
        cached[p] <= version[p] /\ AtMost(Fragment(p), cached[p]) /\ AtMost(Codex(p), version[p])

\* What the holder of the lock found and was listed is as new as the files it replaces.
FoundNewer(s) ==
    Kind[s] # "uninstall" /\ pc[s] \in {"discover", "list", "validate", "write"} =>
        \A p \in Providers : p <= Len(found[s]) =>
            /\ found[s][p] <= version[p]
            /\ found[s][p] # 0 => AtMost(Codex(p), found[s][p])

ListedNewer(s) ==
    Planned(s) /\ listed[s] # NoListing =>
        \A p \in Providers : listed[s][p] <= cached[p] /\ AtMost(Fragment(p), listed[s][p])

KInv ==
    /\ MoreTypes /\ Holder /\ Past
    /\ \A s \in Syncs : Removal(s) /\ Seen(s) /\ Made(s) /\ Progress(s) /\ FoundNewer(s) /\ ListedNewer(s)

\* What a run puts in the place of a file comes from its two discoveries.
LEMMA WrittenIsPlanned ==
    ASSUME IInv, KInv, NEW s \in Syncs, pc[s] = "write", NEW p \in Providers,
           ApplyGroup(s) \/ HalfApplied(s)
    PROVE  /\ disk'[Codex(p)] # disk[Codex(p)] /\ disk'[Codex(p)] \in Nat =>
                  Planned(s) /\ found[s][p] # 0 /\ disk'[Codex(p)] = found[s][p]
           /\ disk'[Fragment(p)] # disk[Fragment(p)] /\ disk'[Fragment(p)] \in Nat =>
                  Planned(s) /\ listed[s] # NoListing /\ disk'[Fragment(p)] = listed[s][p]
<1>1. ASSUME NEW f \in Files, disk'[f] # disk[f], disk'[f] \in Nat
      PROVE  /\ disk'[f] = after[s][f] /\ before[s][f] # after[s][f]
             /\ Planned(s) /\ after[s][f] = Candidate(s, before[s], listed[s], f)
  <2>1. f \in Changed(s) /\ disk'[f] \in {after[s][f], Absent}
    BY <1>1, WriterWrites
  <2>2. disk'[f] = after[s][f] /\ before[s][f] # after[s][f] /\ after[s][f] # Absent
    BY <1>1, <2>1, ContentsOK DEF Changed
  <2>3. Planned(s)
    BY <1>1, <2>2 DEF KInv, Removal, NoFiles, Planned
  <2> QED BY <1>1, <2>2, <2>3 DEF KInv, Made
<1>2. ASSUME disk'[Codex(p)] # disk[Codex(p)], disk'[Codex(p)] \in Nat
      PROVE  Planned(s) /\ found[s][p] # 0 /\ disk'[Codex(p)] = found[s][p]
  <2>1. /\ disk'[Codex(p)] = after[s][Codex(p)] /\ before[s][Codex(p)] # after[s][Codex(p)]
        /\ Planned(s) /\ after[s][Codex(p)] = Candidate(s, before[s], listed[s], Codex(p))
    BY <1>1, <1>2, GroupFiles
  <2>2. p \notin Stale(s) /\ after[s][Codex(p)] = found[s][p]
    BY <2>1, CodexCandidate
  <2> QED BY <2>1, <2>2 DEF Stale
<1>3. ASSUME disk'[Fragment(p)] # disk[Fragment(p)], disk'[Fragment(p)] \in Nat
      PROVE  Planned(s) /\ listed[s] # NoListing /\ disk'[Fragment(p)] = listed[s][p]
  <2>1. /\ disk'[Fragment(p)] = after[s][Fragment(p)] /\ before[s][Fragment(p)] # after[s][Fragment(p)]
        /\ Planned(s) /\ after[s][Fragment(p)] = Candidate(s, before[s], listed[s], Fragment(p))
    BY <1>1, <1>3, GroupFiles
  <2> QED BY <2>1, FragmentCandidate
<1> QED BY <1>2, <1>3

\* Every content that a run writes is newer than the one it replaces.
LEMMA WrittenIsNewer ==
    ASSUME IInv, KInv, NEW s \in Syncs, pc[s] = "write", NEW p \in Providers,
           ApplyGroup(s) \/ HalfApplied(s)
    PROVE  /\ disk'[Codex(p)] \in Nat =>
                  /\ disk[Codex(p)] \in Nat => disk[Codex(p)] <= disk'[Codex(p)]
                  /\ disk'[Codex(p)] <= version[p]
           /\ disk'[Fragment(p)] \in Nat =>
                  /\ disk[Fragment(p)] \in Nat => disk[Fragment(p)] <= disk'[Fragment(p)]
                  /\ disk'[Fragment(p)] <= cached[p]
<1>1. ASSUME disk'[Codex(p)] \in Nat, disk'[Codex(p)] # disk[Codex(p)]
      PROVE  /\ disk[Codex(p)] \in Nat => disk[Codex(p)] <= disk'[Codex(p)]
             /\ disk'[Codex(p)] <= version[p]
  <2>1. Planned(s) /\ found[s][p] # 0 /\ disk'[Codex(p)] = found[s][p]
    BY <1>1, WrittenIsPlanned
  <2>2. p <= Len(found[s]) /\ Kind[s] # "uninstall"
    BY <2>1 DEF KInv, Made, Planned, Providers
  <2> QED BY <1>1, <2>1, <2>2 DEF KInv, FoundNewer, AtMost
<1>2. ASSUME disk'[Fragment(p)] \in Nat, disk'[Fragment(p)] # disk[Fragment(p)]
      PROVE  /\ disk[Fragment(p)] \in Nat => disk[Fragment(p)] <= disk'[Fragment(p)]
             /\ disk'[Fragment(p)] <= cached[p]
  <2>1. Planned(s) /\ listed[s] # NoListing /\ disk'[Fragment(p)] = listed[s][p]
    BY <1>2, WrittenIsPlanned
  <2> QED BY <1>2, <2>1 DEF KInv, ListedNewer, AtMost
<1>3. disk[Codex(p)] \in Nat => disk[Codex(p)] <= version[p]
  BY DEF KInv, Past, AtMost
<1>4. disk[Fragment(p)] \in Nat => disk[Fragment(p)] <= cached[p]
  BY DEF KInv, Past, AtMost
<1>5. disk'[Codex(p)] \in Nat /\ disk'[Codex(p)] = disk[Codex(p)] => disk[Codex(p)] <= disk'[Codex(p)]
  OBVIOUS
<1>6. disk'[Fragment(p)] \in Nat /\ disk'[Fragment(p)] = disk[Fragment(p)] => disk[Fragment(p)] <= disk'[Fragment(p)]
  OBVIOUS
<1>7. disk'[Codex(p)] \in Nat =>
          /\ disk[Codex(p)] \in Nat => disk[Codex(p)] <= disk'[Codex(p)]
          /\ disk'[Codex(p)] <= version[p]
  BY <1>1, <1>3, <1>5
<1>8. disk'[Fragment(p)] \in Nat =>
          /\ disk[Fragment(p)] \in Nat => disk[Fragment(p)] <= disk'[Fragment(p)]
          /\ disk'[Fragment(p)] <= cached[p]
  BY <1>2, <1>4, <1>6
<1> QED BY <1>7, <1>8

\* A process that is not at a step keeps its listing and its exit code as well.
LEMMA OthersKeepListings ==
    ASSUME IInv, KInv, NEW s \in Syncs, NEW t \in Syncs, t # s,
           Start(s) \/ Step(s) \/ Alarm(s) \/ Kill(s)
    PROVE  listed'[t] = listed[t] /\ exit'[t] = exit[t]
<1> USE DEF KInv, MoreTypes
<1>1. CASE Start(s) \/ Lock(s) \/ LockBusy(s)
  BY <1>1 DEF Start, Lock, LockBusy, End, Goto, work
<1>2. CASE Discover(s)
  BY <1>2 DEF Discover, End, Goto
<1>3. CASE List(s)
  BY <1>3 DEF List, End, Goto
<1>4. CASE Validate(s) \/ ApplyGroup(s)
  BY <1>4 DEF Validate, ApplyGroup, Close, Goto
<1>5. CASE ApplyFails(s) \/ Finish(s)
  BY <1>5 DEF ApplyFails, Finish, Close, Goto, work
<1>6. CASE Record(s) \/ Alarm(s)
  BY <1>6 DEF Record, Alarm, End, Goto, work
<1>7. CASE Unlock(s) \/ Kill(s)
  BY <1>7 DEF Unlock, Kill, Gone, Goto
<1> QED BY <1>1, <1>2, <1>3, <1>4, <1>5, <1>6, <1>7 DEF Step

\* What the gateway answers is as new as its snapshots, and no newer than the providers.
LEMMA ListingIsNewer ==
    ASSUME IInv, KInv
    PROVE  /\ Listing \in [Providers -> Nat]
           /\ \A p \in Providers : cached[p] <= Listing[p] /\ Listing[p] <= version[p]
BY DEF IInv, Types, KInv, MoreTypes, Past, Listing

\* A run changes the gateway by its listing only.
LEMMA SnapshotsGrow ==
    ASSUME IInv, KInv, NEW s \in Syncs, Start(s) \/ Step(s) \/ Alarm(s) \/ Kill(s)
    PROVE  /\ version' = version
           /\ cached' \in [Providers -> Nat]
           /\ \A p \in Providers : cached[p] <= cached'[p] /\ cached'[p] <= version'[p]
<1>1. version' = version /\ (cached' = cached \/ cached' = Listing)
  <2>1. CASE Start(s) \/ Lock(s) \/ LockBusy(s) \/ Discover(s) \/ Validate(s)
    BY <2>1 DEF Start, Lock, LockBusy, Discover, Validate, gateway
  <2>2. CASE List(s)
    BY <2>2 DEF List
  <2>3. CASE ApplyGroup(s) \/ ApplyFails(s) \/ Finish(s) \/ Record(s)
    BY <2>3 DEF ApplyGroup, ApplyFails, Finish, Record, gateway
  <2>4. CASE Unlock(s) \/ Alarm(s) \/ Kill(s)
    BY <2>4 DEF Unlock, Alarm, Kill, gateway
  <2> QED BY <2>1, <2>2, <2>3, <2>4 DEF Step
<1>2. \A p \in Providers : cached[p] \in Nat /\ cached[p] <= version[p] /\ version[p] \in Nat
  BY DEF IInv, Types, KInv, MoreTypes, Past
<1>3. cached \in [Providers -> Nat]
  BY DEF KInv, MoreTypes
<1> QED BY <1>1, <1>2, <1>3, ListingIsNewer

\* A step that changes a listing is List.
LEMMA MoreTypesStep ==
    ASSUME IInv, KInv, NEW s \in Syncs, Start(s) \/ Step(s) \/ Alarm(s) \/ Kill(s)
    PROVE  MoreTypes'
<1> USE DEF KInv, MoreTypes
<1>1. cached' \in [Providers -> Nat]
  BY SnapshotsGrow
<1>2. DOMAIN exit' = DOMAIN exit
  <2>1. CASE Start(s) \/ LockBusy(s) \/ Discover(s) \/ List(s)
    BY <2>1 DEF Start, LockBusy, Discover, List, End
  <2>2. CASE Lock(s) \/ Validate(s) \/ ApplyGroup(s) \/ ApplyFails(s) \/ Finish(s)
    BY <2>2 DEF Lock, Validate, ApplyGroup, ApplyFails, Finish, Close
  <2>3. CASE Record(s) \/ Alarm(s) \/ Unlock(s) \/ Kill(s)
    BY <2>3 DEF Record, Alarm, Unlock, Kill, End, Gone
  <2> QED BY <2>1, <2>2, <2>3 DEF Step
<1>3. \/ listed' = listed
      \/ \E l \in [Providers -> Nat] \cup {NoListing} : listed' = [listed EXCEPT ![s] = l]
  <2>1. CASE Start(s) \/ Lock(s) \/ LockBusy(s) \/ Discover(s) \/ Validate(s)
    BY <2>1 DEF Start, Lock, LockBusy, Discover, Validate, work
  <2>2. CASE List(s)
    <3>1. listed' = listed \/ \E l \in {Listing, NoListing} : listed' = [listed EXCEPT ![s] = l]
      BY <2>2 DEF List
    <3> QED BY <3>1, ListingIsNewer
  <2>3. CASE ApplyGroup(s) \/ ApplyFails(s) \/ Finish(s) \/ Record(s) \/ Alarm(s)
    BY <2>3 DEF ApplyGroup, ApplyFails, Finish, Record, Alarm, work
  <2>4. CASE Unlock(s) \/ Kill(s)
    BY <2>4 DEF Unlock, Kill, Gone
  <2> QED BY <2>1, <2>2, <2>3, <2>4 DEF Step
<1> QED BY <1>1, <1>2, <1>3

LEMMA HolderStep ==
    ASSUME IInv, KInv, NEW s \in Syncs, Start(s) \/ Step(s) \/ Alarm(s) \/ Kill(s)
    PROVE  Holder'
<1> USE DEF IInv, Types, KInv, Holder, Inside
<1>1. ASSUME NEW t \in Syncs, t # s, lock' = t
      PROVE  pc'[t] \in Inside \cup {"unlock"}
  <2>1. lock = t
    <3>1. lock' = lock \/ lock' = s \/ lock' = Nobody
      <4>1. CASE Start(s) \/ Lock(s) \/ LockBusy(s) \/ Discover(s) \/ List(s) \/ Validate(s)
        BY <4>1 DEF Start, Lock, LockBusy, Discover, List, Validate
      <4>2. CASE ApplyGroup(s) \/ ApplyFails(s) \/ Finish(s) \/ Record(s) \/ Alarm(s)
        BY <4>2 DEF ApplyGroup, ApplyFails, Finish, Record, Alarm
      <4>3. CASE Unlock(s) \/ Kill(s)
        BY <4>3 DEF Unlock, Kill, Gone
      <4> QED BY <4>1, <4>2, <4>3 DEF Step
    <3> QED BY <1>1, <3>1, NamesOK
  <2> QED BY <1>1, <2>1, OthersKeep DEF Own
<1>2. ASSUME lock' = s
      PROVE  pc'[s] \in Inside \cup {"unlock"}
  <2>1. CASE Start(s) \/ LockBusy(s)
    BY <1>2, <2>1 DEF Start, LockBusy, End, Goto
  <2>2. CASE Lock(s)
    BY <1>2, <2>2 DEF Lock, Goto
  <2>3. CASE Discover(s) \/ List(s)
    BY <1>2, <2>3 DEF Discover, List, End, Goto
  <2>4. CASE Validate(s) \/ ApplyGroup(s)
    BY <1>2, <2>4 DEF Validate, ApplyGroup, Close, Goto
  <2>5. CASE ApplyFails(s) \/ Finish(s) \/ Record(s) \/ Alarm(s)
    BY <1>2, <2>5 DEF ApplyFails, Finish, Record, Alarm, Close, End, Goto
  <2>6. CASE Unlock(s) \/ Kill(s)
    BY <1>2, <2>6, NamesOK DEF Unlock, Kill, Gone, Goto
  <2> QED BY <2>1, <2>2, <2>3, <2>4, <2>5, <2>6 DEF Step
<1> QED BY <1>1, <1>2

LEMMA RemovalStep ==
    ASSUME IInv, KInv, NEW s \in Syncs, Start(s) \/ Step(s) \/ Alarm(s) \/ Kill(s)
    PROVE  Removal(s)'
<1> USE DEF IInv, Types, KInv, Removal
<1>1. CASE Lock(s)
  BY <1>1 DEF Lock, Goto, Careful
<1>2. CASE Discover(s) \/ List(s)
  BY <1>2 DEF Discover, List, End, Goto
<1>3. CASE Validate(s) \/ ApplyGroup(s)
  BY <1>3 DEF Validate, ApplyGroup, Close, Goto
<1>4. CASE Start(s) \/ LockBusy(s)
  BY <1>4 DEF Start, LockBusy, End, Goto
<1>5. CASE ApplyFails(s) \/ Finish(s) \/ Record(s) \/ Alarm(s)
  BY <1>5 DEF ApplyFails, Finish, Record, Alarm, Close, End, Goto
<1>6. CASE Unlock(s) \/ Kill(s)
  BY <1>6 DEF Unlock, Kill, Gone, Goto
<1> QED BY <1>1, <1>2, <1>3, <1>4, <1>5, <1>6 DEF Step

LEMMA PastStep ==
    ASSUME IInv, KInv, NEW s \in Syncs, Start(s) \/ Step(s) \/ Alarm(s) \/ Kill(s)
    PROVE  Past'
<1>1. ASSUME NEW p \in Providers
      PROVE  /\ disk'[Fragment(p)] \in Nat => disk'[Fragment(p)] <= cached[p]
             /\ disk'[Codex(p)] \in Nat => disk'[Codex(p)] <= version[p]
  <2>1. CASE disk' = disk
    BY <2>1 DEF KInv, Past, AtMost
  <2>2. CASE disk' # disk
    BY <2>2, OnlyWritersWrite, WrittenIsNewer
  <2> QED BY <2>1, <2>2
<1>2. \A p \in Providers : cached[p] \in Nat /\ cached'[p] \in Nat /\ version[p] \in Nat
  BY SnapshotsGrow DEF IInv, Types, KInv, MoreTypes
<1>3. \A p \in Providers : version'[p] = version[p] /\ cached[p] <= cached'[p] /\ cached'[p] <= version'[p]
  BY SnapshotsGrow
<1> QED BY <1>1, <1>2, <1>3 DEF Past, AtMost

\* A run with a plan goes on by Validate or by a group that is applied.
LEMMA PlanGoesOn ==
    ASSUME IInv, KInv, NEW s \in Syncs, Start(s) \/ Step(s) \/ Alarm(s) \/ Kill(s), Planned(s)'
    PROVE  /\ Kind[s] # "uninstall"
           /\ \/ List(s) /\ pc[s] = "list" /\ pc'[s] = "validate"
              \/ /\ Validate(s) /\ pc[s] = "validate" /\ pc'[s] = "write"
              \/ /\ ApplyGroup(s) /\ pc[s] = "write" /\ pc'[s] = "write"
<1> USE DEF IInv, Types, Planned
<1>1. CASE List(s)
  BY <1>1 DEF List, End, Goto
<1>2. CASE Validate(s)
  BY <1>2 DEF Validate, Close, Goto
<1>3. CASE ApplyGroup(s)
  BY <1>3 DEF ApplyGroup, Close, Goto
<1>4. ~Start(s) /\ ~LockBusy(s)
  BY DEF Start, LockBusy, End, Goto
<1>5. ~Lock(s)
  BY DEF Lock, Goto
<1>6. ~Discover(s) /\ ~Record(s) /\ ~Alarm(s)
  BY DEF Discover, Record, Alarm, End, Goto
<1>7. ~ApplyFails(s) /\ ~Finish(s)
  BY DEF ApplyFails, Finish, Close, Goto
<1>8. ~Unlock(s) /\ ~Kill(s)
  BY DEF Unlock, Kill, Gone, Goto
<1> QED BY <1>1, <1>2, <1>3, <1>4, <1>5, <1>6, <1>7, <1>8 DEF Step

\* What List captures, is listed and plans.
LEMMA ListMakes ==
    ASSUME IInv, KInv, NEW s \in Syncs, List(s), pc'[s] = "validate"
    PROVE  /\ disk' = disk /\ found' = found /\ version' = version /\ Len(found[s]) = N
           /\ listed'[s] # NoListing => listed'[s] = Listing /\ cached' = Listing
           /\ \A f \in Files : /\ after'[s][f] = Candidate(s, before'[s], listed'[s], f)
                               /\ Shows(f, before'[s][f])
<1>1. PICK answered \in BOOLEAN :
        LET usable == /\ answered
                      /\ \E p \in Providers : Listing[p] # 0
                      /\ \A f \in Files : f[1] = "opencode" => disk[f] # UserFile
            listing == IF usable THEN Listing ELSE NoListing
            captured == [f \in Files |-> IF f[1] = "codex" /\ Stale(s) # {} THEN before[s][f] ELSE disk[f]]
        IN
        /\ cached' = IF answered THEN Listing ELSE cached
        /\ listed' = [listed EXCEPT ![s] = listing]
        /\ before' = [before EXCEPT ![s] = captured]
        /\ after' = [after EXCEPT ![s] = [f \in Files |-> Candidate(s, captured, listing, f)]]
  BY DEF List, End, Goto, IInv, Types
<1> DEFINE usable == /\ answered
                     /\ \E p \in Providers : Listing[p] # 0
                     /\ \A f \in Files : f[1] = "opencode" => disk[f] # UserFile
           listing == IF usable THEN Listing ELSE NoListing
           captured == [f \in Files |-> IF f[1] = "codex" /\ Stale(s) # {} THEN before[s][f] ELSE disk[f]]
<1>2. /\ before'[s] = captured /\ after'[s] = [f \in Files |-> Candidate(s, captured, listing, f)]
      /\ listed'[s] = listing
  BY <1>1 DEF IInv, Types, KInv, MoreTypes
<1>3. disk' = disk /\ pc[s] = "list" /\ found' = found /\ version' = version
  BY DEF List
<1>4. Len(found[s]) = N
  BY <1>3 DEF IInv, Careful
<1>5. listing # NoListing => listing = Listing /\ cached' = Listing
  BY <1>1
<1>6. ASSUME NEW f \in Files PROVE Shows(f, captured[f])
  <2>1. ASSUME NEW p \in Providers, f = Codex(p)
        PROVE  Shows(f, before[s][f])
    BY <1>3, <1>4, <2>1 DEF KInv, Seen, Providers
  <2>2. captured[f] = IF f[1] = "codex" /\ Stale(s) # {} THEN before[s][f] ELSE disk[f]
    OBVIOUS
  <2>3. f[1] = "codex" => \E p \in Providers : f = Codex(p)
    BY DEF Files, Codex, Fragment, Shared
  <2> HIDE DEF captured
  <2> QED BY <2>1, <2>2, <2>3 DEF Shows
<1>7. \A f \in Files : after'[s][f] = Candidate(s, captured, listing, f)
  BY <1>2
<1> HIDE DEF captured, listing, usable
<1> QED BY <1>2, <1>3, <1>4, <1>5, <1>6, <1>7

LEMMA MadeStep ==
    ASSUME IInv, KInv, NEW s \in Syncs, Start(s) \/ Step(s) \/ Alarm(s) \/ Kill(s)
    PROVE  Made(s)'
<1> SUFFICES ASSUME Planned(s)'
             PROVE  /\ Len(found'[s]) = N
                    /\ \A f \in Files : after'[s][f] = Candidate(s, before[s], listed[s], f)'
  BY DEF Made
<1>1. CASE List(s) /\ pc'[s] = "validate"
  <2>1. Stale(s)' = Stale(s)
    BY <1>1, ListMakes DEF Stale
  <2>2. \A f \in Files : Candidate(s, before[s], listed[s], f)' = Candidate(s, before'[s], listed'[s], f)
    BY <1>1, <2>1, ListMakes DEF Candidate
  <2> QED BY <1>1, <2>2, ListMakes
<1>2. CASE Validate(s) \/ ApplyGroup(s)
  <2>1. UNCHANGED <<found, before, after, listed>>
    BY <1>2 DEF Validate, ApplyGroup
  <2>2. Planned(s)
    BY <1>2, PlanGoesOn DEF Planned, Validate, ApplyGroup
  <2>3. Stale(s)' = Stale(s)
    BY <2>1 DEF Stale
  <2>4. \A f \in Files : Candidate(s, before[s], listed[s], f)' = Candidate(s, before[s], listed[s], f)
    BY <2>1, <2>3 DEF Candidate
  <2> QED BY <2>1, <2>2, <2>4 DEF KInv, Made
<1> QED BY <1>1, <1>2, PlanGoesOn

LEMMA ProgressStep ==
    ASSUME IInv, KInv, NEW s \in Syncs, Start(s) \/ Step(s) \/ Alarm(s) \/ Kill(s)
    PROVE  Progress(s)'
<1> USE DEF IInv, Types
<1> SUFFICES ASSUME Planned(s)', NEW f \in Files
             PROVE  /\ pc'[s] = "validate" => Shows(f, before[s][f])'
                    /\ pc'[s] = "write" =>
                          \/ Shows(f, before[s][f])' /\ \E g \in todo'[s] : f \in Group(g)
                          \/ Shows(f, after[s][f])'
  BY DEF Progress
<1>1. CASE List(s) /\ pc'[s] = "validate"
  <2>1. Shows(f, before'[s][f]) /\ disk' = disk
    BY <1>1, ListMakes
  <2> QED BY <1>1, <2>1 DEF Shows
<1>2. CASE Validate(s) /\ pc[s] = "validate" /\ pc'[s] = "write"
  <2>1. /\ UNCHANGED <<before, after, disk>>
        /\ todo'[s] = {g \in 0..N : Group(g) \cap Changed(s) # {}}
    BY <1>2 DEF Validate, Close, Goto
  <2>2. Shows(f, before[s][f])
    BY <1>2, <2>1, PlanGoesOn DEF KInv, Progress, Planned
  <2>3. \E g \in 0..N : f \in Group(g)
    <3>1. 0 \in 0..N /\ \A p \in Providers : p \in 0..N
      BY ProvidersOK DEF Providers
    <3>2. f = Shared \/ \E p \in Providers : f \in {Codex(p), Fragment(p)}
      BY DEF Files
    <3> QED BY <3>1, <3>2, GroupFiles
  <2>4. before[s][f] # after[s][f] => \E g \in todo'[s] : f \in Group(g)
    BY <2>1, <2>3 DEF Changed
  <2> QED BY <1>2, <2>1, <2>2, <2>4 DEF Shows
<1>3. CASE ApplyGroup(s) /\ pc[s] = "write" /\ pc'[s] = "write"
  <2>1. UNCHANGED <<before, after>> /\ Planned(s)
    BY <1>3, PlanGoesOn DEF ApplyGroup, Planned
  <2>2. \/ Shows(f, before[s][f]) /\ \E g \in todo[s] : f \in Group(g)
        \/ Shows(f, after[s][f])
    BY <1>3, <2>1 DEF KInv, Progress
  <2>3. PICK g \in todo[s] :
          /\ disk' = [h \in Files |-> IF h \in Group(g) \cap Changed(s) THEN after[s][h] ELSE disk[h]]
          /\ todo' = [todo EXCEPT ![s] = @ \ {g}]
    BY <1>3 DEF ApplyGroup, Close, Goto
  <2>4. CASE f \in Group(g)
    <3>1. CASE f \in Changed(s)
      BY <1>3, <2>1, <2>3, <2>4, <3>1 DEF Shows
    <3>2. CASE f \notin Changed(s)
      <4>1. before[s][f] = after[s][f] /\ disk'[f] = disk[f]
        BY <2>3, <3>2 DEF Changed
      <4> QED BY <1>3, <2>1, <2>2, <4>1 DEF Shows
    <3> QED BY <3>1, <3>2
  <2>5. CASE f \notin Group(g)
    <3>1. disk'[f] = disk[f] /\ \A h \in todo[s] : f \in Group(h) => h \in todo'[s]
      BY <2>3, <2>5
    <3> QED BY <1>3, <2>1, <2>2, <3>1 DEF Shows
  <2> QED BY <2>4, <2>5
<1> QED BY <1>1, <1>2, <1>3, PlanGoesOn

LEMMA ListedStep ==
    ASSUME IInv, KInv, NEW s \in Syncs, Start(s) \/ Step(s) \/ Alarm(s) \/ Kill(s)
    PROVE  ListedNewer(s)'
<1> SUFFICES ASSUME Planned(s)', listed'[s] # NoListing, NEW p \in Providers
             PROVE  listed'[s][p] <= cached'[p] /\ AtMost(Fragment(p), listed[s][p])'
  BY DEF ListedNewer
<1>1. CASE List(s) /\ pc'[s] = "validate"
  <2>1. listed'[s] = Listing /\ cached' = Listing /\ disk' = disk
    BY <1>1, ListMakes
  <2>2. cached[p] \in Nat /\ Listing[p] \in Nat /\ cached[p] <= Listing[p]
    BY ListingIsNewer DEF KInv, MoreTypes
  <2>3. disk[Fragment(p)] \in Nat => disk[Fragment(p)] <= cached[p]
    BY DEF KInv, Past, AtMost
  <2> QED BY <2>1, <2>2, <2>3 DEF AtMost
<1>2. CASE (Validate(s) \/ ApplyGroup(s)) /\ pc[s] \in {"validate", "write"}
  <2>1. UNCHANGED <<listed, cached>>
    BY <1>2 DEF Validate, ApplyGroup, gateway
  <2>2. Planned(s)
    BY <1>2, PlanGoesOn DEF Planned
  <2>3. listed[s][p] <= cached[p] /\ AtMost(Fragment(p), listed[s][p])
    BY <1>2, <2>1, <2>2 DEF KInv, ListedNewer
  <2>4. CASE disk'[Fragment(p)] = disk[Fragment(p)]
    BY <2>1, <2>3, <2>4 DEF AtMost
  <2>5. CASE disk'[Fragment(p)] # disk[Fragment(p)] /\ disk'[Fragment(p)] \in Nat
    <3>1. pc[s] = "write" /\ (ApplyGroup(s) \/ HalfApplied(s))
      BY <2>5, OnlyWritersWrite
    <3>2. disk'[Fragment(p)] = listed[s][p]
      BY <2>5, <3>1, WrittenIsPlanned
    <3> QED BY <2>1, <2>3, <2>5, <3>2 DEF AtMost
  <2> QED BY <2>1, <2>3, <2>4, <2>5 DEF AtMost
<1> QED BY <1>1, <1>2, PlanGoesOn

\* What Discover adds.
LEMMA DiscoverFinds ==
    ASSUME IInv, KInv, NEW s \in Syncs, Discover(s), pc'[s] # "unlock"
    PROVE  \E n \in Providers, v \in Nat :
              /\ n = Len(found[s]) + 1 /\ v \in {0, version[n]}
              /\ Len(found'[s]) = n /\ found'[s][n] = v
              /\ \A p \in Providers : p # n /\ p <= Len(found'[s]) =>
                    p <= Len(found[s]) /\ found'[s][p] = found[s][p] /\ before'[s][Codex(p)] = before[s][Codex(p)]
              /\ before'[s][Codex(n)] = disk[Codex(n)]
<1> USE DEF IInv, Types
<1> DEFINE n == Len(found[s]) + 1
           v == IF n \in up THEN version[n] ELSE 0
<1>1. n \in Providers /\ n \in 1..N /\ Len(found[s]) \in Nat
  BY ProvidersOK DEF Discover, Careful, Providers
<1>2. v \in Nat /\ v \in {0, version[n]}
  BY <1>1
<1>3. /\ found' = [found EXCEPT ![s] = Append(@, v)]
      /\ before' = [before EXCEPT ![s][Codex(n)] = disk[Codex(n)]]
  BY DEF Discover, End, Goto
<1>4. found'[s] = Append(found[s], v) /\ Len(found'[s]) = n /\ found'[s][n] = v
  BY <1>3, <1>2
<1>5. \A p \in 1..Len(found[s]) : found'[s][p] = found[s][p]
  BY <1>4, <1>2
<1>6. \A p \in Providers : p # n => before'[s][Codex(p)] = before[s][Codex(p)]
  BY <1>3, <1>1, GroupFiles
<1>7. before'[s][Codex(n)] = disk[Codex(n)]
  BY <1>3, <1>1, GroupFiles
<1>8. \A p \in Providers : p <= n => p = n \/ (p \in 1..Len(found[s]) /\ p <= Len(found[s]))
  BY ProvidersOK DEF Providers
<1>9. n = Len(found[s]) + 1
  OBVIOUS
<1> HIDE DEF n, v
<1> QED BY <1>1, <1>2, <1>4, <1>5, <1>6, <1>7, <1>8, <1>9

LEMMA SeenStep ==
    ASSUME IInv, KInv, NEW s \in Syncs, Start(s) \/ Step(s) \/ Alarm(s) \/ Kill(s)
    PROVE  Seen(s)'
<1> SUFFICES ASSUME pc'[s] \in {"discover", "list"}, NEW p \in Providers, p <= Len(found'[s])
             PROVE  Shows(Codex(p), before[s][Codex(p)])'
  BY DEF Seen
<1> USE DEF IInv, Types
<1>1. CASE Lock(s)
  <2>1. found'[s] = <<>> /\ Len(<<>>) = 0 /\ ~(p <= 0)
    BY <1>1, ProvidersOK DEF Lock, Careful, Providers
  <2> QED BY <2>1
<1>2. CASE Discover(s)
  <2>1. disk' = disk
    BY <1>2 DEF Discover
  <2>2. PICK n \in Providers :
            /\ \A q \in Providers : q # n /\ q <= Len(found'[s]) =>
                  q <= Len(found[s]) /\ before'[s][Codex(q)] = before[s][Codex(q)]
            /\ before'[s][Codex(n)] = disk[Codex(n)]
    BY <1>2, DiscoverFinds
  <2>3. CASE p = n
    BY <2>1, <2>2, <2>3 DEF Shows
  <2>4. CASE p # n
    <3>1. p <= Len(found[s]) /\ before'[s][Codex(p)] = before[s][Codex(p)]
      BY <2>2, <2>4
    <3>2. Shows(Codex(p), before[s][Codex(p)])
      BY <1>2, <3>1 DEF KInv, Seen, Discover
    <3> QED BY <2>1, <3>1, <3>2 DEF Shows
  <2> QED BY <2>3, <2>4
<1>3. ~Start(s) /\ ~LockBusy(s)
  BY DEF Start, LockBusy, End, Goto
<1>4. ~List(s) /\ ~Record(s) /\ ~Alarm(s)
  BY DEF List, Record, Alarm, End, Goto
<1>5. ~Validate(s) /\ ~ApplyGroup(s)
  BY DEF Validate, ApplyGroup, Close, Goto
<1>6. ~ApplyFails(s) /\ ~Finish(s)
  BY DEF ApplyFails, Finish, Close, Goto
<1>7. ~Unlock(s) /\ ~Kill(s)
  BY DEF Unlock, Kill, Gone, Goto
<1> QED BY <1>1, <1>2, <1>3, <1>4, <1>5, <1>6, <1>7 DEF Step

LEMMA FoundStep ==
    ASSUME IInv, KInv, NEW s \in Syncs, Start(s) \/ Step(s) \/ Alarm(s) \/ Kill(s)
    PROVE  FoundNewer(s)'
<1> SUFFICES ASSUME Kind[s] # "uninstall", pc'[s] \in {"discover", "list", "validate", "write"},
                    NEW p \in Providers, p <= Len(found'[s])
             PROVE  /\ found'[s][p] <= version'[p]
                    /\ found'[s][p] # 0 => AtMost(Codex(p), found[s][p])'
  BY DEF FoundNewer
<1> USE DEF IInv, Types
<1>1. CASE Lock(s)
  <2>1. found'[s] = <<>> /\ Len(<<>>) = 0 /\ ~(p <= 0)
    BY <1>1, ProvidersOK DEF Lock, Careful, Providers
  <2> QED BY <2>1
<1>2. CASE Discover(s)
  <2>1. disk' = disk /\ version' = version /\ pc'[s] # "unlock"
    BY <1>2 DEF Discover, gateway
  <2>2. PICK n \in Providers :
            /\ found'[s][n] \in {0, version[n]}
            /\ \A q \in Providers : q # n /\ q <= Len(found'[s]) =>
                  q <= Len(found[s]) /\ found'[s][q] = found[s][q]
    BY <1>2, <2>1, DiscoverFinds
  <2>3. version[p] \in Nat /\ (disk[Codex(p)] \in Nat => disk[Codex(p)] <= version[p])
    BY DEF KInv, Past, AtMost
  <2>4. CASE p = n
    <3>1. found'[s][p] \in {0, version[p]}
      BY <2>2, <2>4
    <3>2. found'[s][p] <= version'[p]
      BY <2>1, <2>3, <3>1
    <3> QED BY <2>1, <2>3, <3>1, <3>2 DEF AtMost
  <2>5. CASE p # n
    <3>1. p <= Len(found[s]) /\ found'[s][p] = found[s][p]
      BY <2>2, <2>5
    <3>2. found[s][p] <= version[p] /\ (found[s][p] # 0 => AtMost(Codex(p), found[s][p]))
      BY <1>2, <3>1 DEF KInv, FoundNewer, Discover
    <3> QED BY <2>1, <3>1, <3>2 DEF AtMost
  <2> QED BY <2>4, <2>5
<1>3. CASE List(s) \/ Validate(s) \/ ApplyGroup(s)
  <2>1. found' = found /\ version' = version /\ pc[s] \in {"discover", "list", "validate", "write"}
    BY <1>3 DEF List, Validate, ApplyGroup, gateway
  <2>2. found[s][p] <= version[p] /\ (found[s][p] # 0 => AtMost(Codex(p), found[s][p]))
    BY <2>1 DEF KInv, FoundNewer
  <2>3. CASE disk'[Codex(p)] = disk[Codex(p)]
    BY <2>1, <2>2, <2>3 DEF AtMost
  <2>4. CASE disk'[Codex(p)] # disk[Codex(p)] /\ disk'[Codex(p)] \in Nat
    <3>1. pc[s] = "write" /\ (ApplyGroup(s) \/ HalfApplied(s))
      BY <2>4, OnlyWritersWrite
    <3>2. disk'[Codex(p)] = found[s][p]
      BY <2>4, <3>1, WrittenIsPlanned
    <3> QED BY <2>1, <2>2, <2>4, <3>2 DEF AtMost
  <2> QED BY <2>1, <2>2, <2>3, <2>4 DEF AtMost
<1>4. ~Start(s) /\ ~LockBusy(s)
  BY DEF Start, LockBusy, End, Goto
<1>5. ~Record(s) /\ ~Alarm(s)
  BY DEF Record, Alarm, End, Goto
<1>6. ~ApplyFails(s) /\ ~Finish(s)
  BY DEF ApplyFails, Finish, Close, Goto
<1>7. ~Unlock(s) /\ ~Kill(s)
  BY DEF Unlock, Kill, Gone, Goto
<1> QED BY <1>1, <1>2, <1>3, <1>4, <1>5, <1>6, <1>7 DEF Step

\* What the environment does moves the versions on and takes contents away.
LEMMA EnvironmentGoesOn ==
    ASSUME IInv, KInv, \/ \E p \in Providers : GatewayChanges(p)
                       \/ \E f \in Files : UserEdits(f)
    PROVE  KInv'
<1>1. UNCHANGED <<lock, pc, found, listed, before, after, todo, cached, exit>>
  BY DEF GatewayChanges, UserEdits, work, gateway
<1>2. \A p \in Providers : version[p] \in Nat /\ version'[p] \in Nat /\ version[p] <= version'[p]
  <2>1. version' = version \/ \E p \in Providers : version' = [version EXCEPT ![p] = @ + 1]
    BY DEF GatewayChanges, UserEdits, gateway
  <2>2. \A p \in Providers : version[p] \in Nat /\ version[p] <= version[p] /\ version[p] + 1 \in Nat /\ version[p] <= version[p] + 1
    BY DEF IInv, Types
  <2>3. DOMAIN version = Providers
    BY DEF IInv, Types
  <2>4. \A q \in Providers : version'[q] \in {version[q], version[q] + 1}
    BY <2>1, <2>3
  <2> QED BY <2>2, <2>4
<1>3. \A f \in Files : disk'[f] \in {disk[f], UserFile, Absent}
  <2>1. disk' = disk \/ \E f \in Files, new \in {UserFile, Absent} : disk' = [disk EXCEPT ![f] = new]
    BY DEF GatewayChanges, UserEdits
  <2> QED BY <2>1 DEF IInv
<1>4. \A f \in Files : disk'[f] \in Nat => disk'[f] = disk[f]
  BY <1>3, ContentsOK
<1>5. MoreTypes' /\ Holder'
  BY <1>1 DEF KInv, MoreTypes, Holder
<1>6. Past'
  <2>1. \A p \in Providers : cached[p] \in Nat /\ cached[p] <= version[p]
    BY DEF KInv, MoreTypes, Past
  <2>2. \A p \in Providers : AtMost(Fragment(p), cached[p]) /\ AtMost(Codex(p), version[p])
    BY DEF KInv, Past
  <2> QED BY <1>1, <1>2, <1>4, <2>1, <2>2, GroupFiles DEF Past, AtMost
<1>7. ASSUME NEW f, NEW c, f \in Files, Shows(f, c) PROVE disk'[f] \in {c, UserFile, Absent}
  BY <1>3, <1>7 DEF Shows
<1>8. ASSUME NEW s \in Syncs PROVE Removal(s)' /\ Seen(s)' /\ Made(s)'
  <2>1. Removal(s)'
    BY <1>1 DEF KInv, Removal
  <2>2. Seen(s)'
    BY <1>1, <1>7, GroupFiles DEF KInv, Seen, Shows
  <2>3. Made(s)'
    <3>1. \A f \in Files : Candidate(s, before[s], listed[s], f)' = Candidate(s, before[s], listed[s], f)
      BY <1>1 DEF Candidate, Stale
    <3> QED BY <1>1, <3>1 DEF KInv, Made, Planned
  <2> QED BY <2>1, <2>2, <2>3
<1>9. ASSUME NEW s \in Syncs PROVE Progress(s)'
  BY <1>1, <1>7 DEF KInv, Progress, Planned, Shows
<1>10. ASSUME NEW s \in Syncs PROVE FoundNewer(s)'
  <2>1. ASSUME NEW p \in Providers, p <= Len(found[s]), found[s][p] <= version[p]
        PROVE  found[s][p] <= version'[p]
    <3>1. found[s] \in Seq(Nat) /\ p \in 1..Len(found[s])
      BY <2>1 DEF IInv, Types, Providers
    <3>2. found[s][p] \in Nat
      BY <3>1
    <3> QED BY <1>2, <2>1, <3>2
  <2>2. \A p \in Providers : \A v : AtMost(Codex(p), v) => AtMost(Codex(p), v)'
    BY <1>4, GroupFiles DEF AtMost
  <2> QED BY <1>1, <2>1, <2>2 DEF KInv, FoundNewer, AtMost
<1>11. ASSUME NEW s \in Syncs PROVE ListedNewer(s)'
  BY <1>1, <1>4, GroupFiles DEF KInv, ListedNewer, Planned, AtMost
<1> QED BY <1>5, <1>6, <1>8, <1>9, <1>10, <1>11 DEF KInv

LEMMA ProcessGoesOn ==
    ASSUME IInv, KInv, NEW s \in Syncs, Start(s) \/ Step(s) \/ Alarm(s) \/ Kill(s)
    PROVE  KInv'
<1>1. MoreTypes' /\ Holder' /\ Past'
  BY MoreTypesStep, HolderStep, PastStep
<1>2. /\ Removal(s)' /\ Seen(s)' /\ Made(s)'
      /\ Progress(s)' /\ FoundNewer(s)' /\ ListedNewer(s)'
  BY RemovalStep, SeenStep, MadeStep, ProgressStep, FoundStep, ListedStep
<1>3. ASSUME NEW t \in Syncs, t # s
      PROVE  /\ Removal(t)' /\ Seen(t)' /\ Made(t)'
             /\ Progress(t)' /\ FoundNewer(t)' /\ ListedNewer(t)'
  <2>1. /\ pc'[t] = pc[t] /\ found'[t] = found[t] /\ before'[t] = before[t]
        /\ after'[t] = after[t] /\ todo'[t] = todo[t] /\ listed'[t] = listed[t]
    BY <1>3, OthersKeep, OthersKeepListings DEF Own
  <2>2. pc[t] \in Inside => disk' = disk
    BY <1>3, WriterIsAlone
  <2>3. version' = version /\ \A p \in Providers : cached[p] <= cached'[p]
    BY SnapshotsGrow
  <2>4. Removal(t)'
    BY <2>1 DEF KInv, Removal
  <2>5. Seen(t)'
    BY <2>1, <2>2 DEF KInv, Seen, Shows, Inside
  <2>6. Made(t)'
    <3>1. \A f \in Files : Candidate(t, before[t], listed[t], f)' = Candidate(t, before[t], listed[t], f)
      BY <2>1 DEF Candidate, Stale
    <3> QED BY <2>1, <3>1 DEF KInv, Made, Planned
  <2>7. Progress(t)'
    BY <2>1, <2>2 DEF KInv, Progress, Planned, Shows, Inside
  <2>8. FoundNewer(t)'
    BY <2>1, <2>2, <2>3 DEF KInv, FoundNewer, AtMost, Inside
  <2>9. ListedNewer(t)'
    <3> SUFFICES ASSUME Planned(t), listed[t] # NoListing, NEW p \in Providers
                 PROVE  listed[t][p] <= cached'[p] /\ AtMost(Fragment(p), listed[t][p])'
      BY <2>1 DEF ListedNewer, Planned, AtMost
    <3>1. disk' = disk /\ listed[t][p] <= cached[p] /\ AtMost(Fragment(p), listed[t][p])
      BY <2>2 DEF KInv, ListedNewer, Planned, Inside
    <3>2. listed[t][p] \in Nat /\ cached[p] \in Nat /\ cached'[p] \in Nat
      BY SnapshotsGrow DEF KInv, MoreTypes
    <3> QED BY <2>1, <2>3, <3>1, <3>2 DEF AtMost
  <2> QED BY <2>4, <2>5, <2>6, <2>7, <2>8, <2>9
<1> QED BY <1>1, <1>2, <1>3 DEF KInv

LEMMA GoingOn == Spec => []KInv
<1>1. Init => KInv
  <2> SUFFICES ASSUME Init PROVE KInv
    OBVIOUS
  <2>1. MoreTypes /\ Holder
    BY NamesOK DEF Init, MoreTypes, Holder
  <2>2. Past
    BY ContentsOK, GroupFiles DEF Init, Past, AtMost, NoFiles
  <2>3. ASSUME NEW s \in Syncs
        PROVE  Removal(s) /\ Seen(s) /\ Made(s) /\ Progress(s) /\ FoundNewer(s) /\ ListedNewer(s)
    BY <2>3 DEF Init, Removal, Seen, Made, Progress, FoundNewer, ListedNewer, Planned
  <2> QED BY <2>1, <2>2, <2>3 DEF KInv
<1>2. IInv /\ KInv /\ [Next]_vars => KInv'
  <2>1. ASSUME KInv, UNCHANGED vars PROVE KInv'
    <3> USE <2>1 DEF vars, KInv
    <3>1. MoreTypes' /\ Holder' /\ Past'
      BY DEF MoreTypes, Holder, Past, AtMost
    <3>2. ASSUME NEW s \in Syncs
          PROVE  Removal(s)' /\ Seen(s)' /\ Progress(s)' /\ FoundNewer(s)' /\ ListedNewer(s)'
      BY DEF Removal, Seen, Progress, FoundNewer, ListedNewer, Planned, Shows, AtMost
    <3>3. ASSUME NEW s \in Syncs PROVE Made(s)'
      <4>1. \A f \in Files : Candidate(s, before[s], listed[s], f)' = Candidate(s, before[s], listed[s], f)
        BY DEF Candidate, Stale
      <4> QED BY <4>1 DEF Made, Planned
    <3> QED BY <3>1, <3>2, <3>3
  <2> QED BY <2>1, EnvironmentGoesOn, ProcessGoesOn DEF Next
<1> QED BY <1>1, <1>2, Invariance, PTL DEF Spec

\* What a run writes comes from a discovery made after every earlier run had ended, so
\* that no file goes back to an older inventory, however the operator's runs and the
\* scheduled ones follow each other, fail half-way or work from the gateway's snapshots.
THEOREM InventoriesGoForward == Spec => NewerInventoryIsKept
<1>1. ASSUME IInv, KInv, [Next]_vars, NEW p \in Providers, NEW f \in {Codex(p), Fragment(p)},
             disk[f] \in Nat, disk'[f] \in Nat
      PROVE  disk[f] <= disk'[f]
  <2>1. CASE disk' = disk
    BY <1>1, <2>1
  <2>2. CASE ByUser
    <3>1. disk'[f] \in {disk[f], UserFile, Absent}
      <4>1. \E h \in Files, new \in {UserFile, Absent} : disk' = [disk EXCEPT ![h] = new]
        BY <2>2 DEF ByUser, UserEdits
      <4> QED BY <1>1, <4>1, GroupFiles DEF IInv
    <3>2. disk'[f] = disk[f]
      BY <1>1, <3>1, ContentsOK
    <3> QED BY <1>1, <3>2
  <2>3. ASSUME NEW s \in Syncs, Start(s) \/ Step(s) \/ Alarm(s) \/ Kill(s), disk' # disk
        PROVE  disk[f] <= disk'[f]
    <3>1. pc[s] = "write" /\ (ApplyGroup(s) \/ HalfApplied(s))
      BY <1>1, <2>3, OnlyWritersWrite
    <3> QED BY <1>1, <3>1, WrittenIsNewer
  <2> QED BY <1>1, <2>1, <2>2, <2>3 DEF Next, ByUser, GatewayChanges, vars
<1>2. Versions \subseteq Nat
  BY BoundsOK DEF Versions
<1>3. IInv /\ KInv /\ [Next]_vars =>
        [\A p \in Providers : \A f \in {Codex(p), Fragment(p)} :
            disk[f] \in Versions /\ disk'[f] \in Versions => disk[f] <= disk'[f]]_vars
  BY <1>1, <1>2
<1> QED BY <1>3, Invariance, GoingOn, PTL DEF Spec, NewerInventoryIsKept

\* Only the readback of a plan without stale providers ends with 0, and by then no
\* group is left: every file shows the plan, unless it is the user's or he removed it.
THEOREM SuccessMeansConverged == Spec => SuccessIsConverged
<1> DEFINE Shown(s) ==
             /\ listed[s] # NoListing
             /\ \A p \in Providers :
                   /\ disk[Codex(p)] \in {found[s][p], UserFile, Absent}
                   /\ disk[Fragment(p)] \in {listed[s][p], UserFile, Absent}
             /\ disk[Shared] \in {listed[s], UserFile, Absent}
<1>1. ASSUME IInv, KInv, [Next]_vars, NEW s \in Syncs, Kind[s] # "uninstall",
             exit[s] = Running, exit'[s] = 0, lock = s
      PROVE  Finish(s) /\ pc[s] = "write" /\ todo[s] = {} /\ Stale(s) = {} /\ listed[s] # NoListing
  <2> USE DEF KInv, MoreTypes, Running
  <2>1. exit'[s] # exit[s]
    BY <1>1
  <2>2. \E t \in Syncs : Start(t) \/ Step(t) \/ Alarm(t) \/ Kill(t)
    BY <1>1, <2>1 DEF Next, GatewayChanges, UserEdits, vars
  <2>3. Start(s) \/ Step(s) \/ Alarm(s) \/ Kill(s)
    BY <1>1, <2>1, <2>2, OthersKeepListings
  <2>4. ~Start(s) /\ ~Discover(s) /\ ~List(s) /\ ~Alarm(s)
    BY <1>1 DEF Start, Discover, List, Alarm, End
  <2>5. ~LockBusy(s)
    BY <1>1 DEF LockBusy, Holder, Inside
  <2>6. ~Lock(s)
    BY <1>1 DEF Lock
  <2>7. ~Validate(s) /\ ~ApplyGroup(s) /\ ~ApplyFails(s)
    BY <1>1 DEF Validate, ApplyGroup, ApplyFails, Close
  <2>8. ~Record(s) /\ ~Unlock(s) /\ ~Kill(s)
    BY <1>1 DEF Record, Unlock, Kill, Gone, End
  <2>9. Finish(s)
    BY <2>3, <2>4, <2>5, <2>6, <2>7, <2>8 DEF Step
  <2> QED BY <1>1, <2>9 DEF Finish, Close
<1>2. ASSUME IInv, KInv, NEW s \in Syncs, Kind[s] # "uninstall",
             pc[s] = "write", todo[s] = {}, Stale(s) = {}, listed[s] # NoListing
      PROVE  Shown(s)
  <2>1. Planned(s)
    BY <1>2 DEF Planned
  <2>2. ASSUME NEW f \in Files
        PROVE  disk[f] \in {Candidate(s, before[s], listed[s], f), UserFile, Absent}
    <3>1. Shows(f, after[s][f])
      BY <1>2, <2>1 DEF KInv, Progress
    <3>2. after[s][f] = Candidate(s, before[s], listed[s], f)
      BY <1>2, <2>1 DEF KInv, Made
    <3> QED BY <3>1, <3>2 DEF Shows
  <2>3. ASSUME NEW p \in Providers
        PROVE  /\ disk[Codex(p)] \in {found[s][p], UserFile, Absent}
               /\ disk[Fragment(p)] \in {listed[s][p], UserFile, Absent}
    <3>1. Candidate(s, before[s], listed[s], Codex(p)) = found[s][p]
      BY <1>2, CodexCandidate
    <3>2. Candidate(s, before[s], listed[s], Fragment(p)) = listed[s][p]
      BY <1>2, FragmentCandidate
    <3>3. Codex(p) \in Files /\ Fragment(p) \in Files
      BY GroupFiles
    <3> QED BY <2>2, <3>1, <3>2, <3>3
  <2>4. disk[Shared] \in {listed[s], UserFile, Absent}
    BY <1>2, <2>2, SharedCandidate, GroupFiles
  <2> QED BY <1>2, <2>3, <2>4
<1>3. IInv /\ KInv /\ [Next]_vars =>
        [\A s \in Syncs : Kind[s] # "uninstall" /\ exit[s] = Running /\ exit'[s] = 0 /\ lock = s => Shown(s)]_vars
  <2> HIDE DEF Shown
  <2> QED BY <1>1, <1>2
<1> QED BY <1>3, Invariance, GoingOn, PTL DEF Spec, SuccessIsConverged

=============================================================================
