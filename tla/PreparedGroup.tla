--------------------------- MODULE PreparedGroup ---------------------------
(***************************************************************************)
(* One mutation group of the client sync (client_sync_mutations.py): every *)
(* path of the group goes from its captured state to its candidate, or all *)
(* go back.  A path is replaced by moving what is there to a guard name,   *)
(* looking at what was moved, linking the candidate in and removing the    *)
(* guard; going back takes the same steps in the other direction.          *)
(*                                                                         *)
(* One system call on the file system is one step.  Beside the client      *)
(* sync, which has its lock, the user edits the same files without it, a   *)
(* system call may fail, and the alarm of the scheduled refresh            *)
(* (catalog_refresh.py) may end the process's work between any two steps.  *)
(***************************************************************************)
EXTENDS Integers, FiniteSets

CONSTANTS
    Paths,      \* the paths of the group, numbered in the order of its mutations
    Parent,     \* the path of the group that is a path's directory, or 0
    MaxGroupEdits,   \* how often the user edits (bounds the model only)
    MaxFaults   \* how many system calls fail (bounds the model only)

ASSUME PathsOK == IsFiniteSet(Paths) /\ Paths = 1..Cardinality(Paths)
ASSUME ParentOK == \A p \in Paths : Parent[p] \in 0..(p - 1)
ASSUME GroupBoundsOK == MaxGroupEdits \in Nat /\ MaxFaults \in Nat

VARIABLES
    before,     \* the captured state of each path: PreparedMutation.before
    after,      \* its candidate: PreparedMutation.after
    fs,         \* what is at each path
    guard,      \* what is at the guard names of each path, while applying and undoing
    stray,      \* the directories that hold an entry of the user's
    phase, step, at,    \* where apply_prepared_group is, and on which path
    touched,    \* the paths to undo
    failure,    \* the exception that ended the application
    result,     \* how apply_prepared_group ended
    edited,     \* the paths the user edited, and what he left there
    groupEdits, faults

groupVars == <<before, after, fs, guard, stray, phase, step, at, touched, failure, result, edited, groupEdits, faults>>

plan == <<before, after>>
user == <<stray, edited, groupEdits>>

Candidates == {"absent", "directory", "new"}
States == {"absent", "directory", "old", "new", "user"}
Phases == {"apply", "undo"}
NoState == "none"

Changed == {p \in Paths : before[p] # after[p]}

Failures == [kind : {"none", "state_changed", "guard_apply", "guard_cleanup", "os_error"},
             transitioned : BOOLEAN,
             fatal : BOOLEAN]
NoFailure == [kind |-> "none", transitioned |-> FALSE, fatal |-> FALSE]

\* A group a producer prepares: it creates missing directories, outermost first,
\* and creates, replaces, removes or merely expects files in them.
Plans ==
    {b \in [Paths -> {"absent", "directory", "old"}] :
        \A p \in Paths : Parent[p] # 0 /\ b[Parent[p]] = "absent" => b[p] = "absent"}

GroupInit ==
    /\ before \in Plans
    /\ after \in [Paths -> {"old"} \cup Candidates]
    /\ \A p \in Paths :
          /\ (\E q \in Paths : Parent[q] = p) <=> after[p] = "directory"
          /\ before[p] = "directory" => after[p] = "directory"
          /\ after[p] = "directory" => before[p] \in {"absent", "directory"}
          /\ after[p] = "old" => before[p] = "old"
    /\ fs = before
    /\ guard = [f \in Phases |-> [p \in Paths |-> NoState]]
    /\ stray = {}
    /\ phase = "validate" /\ step = "check" /\ at = 0
    /\ touched = {}
    /\ failure = NoFailure
    /\ result = "none"
    /\ edited = [p \in Paths |-> "none"]
    /\ groupEdits = 0 /\ faults = 0

\* A path whose directory is at its place.
Reachable(p) == Parent[p] # 0 => fs[Parent[p]] = "directory"

Fault == faults < MaxFaults /\ faults' = faults + 1

End(res) == phase' = "end" /\ result' = res /\ UNCHANGED <<step, at, touched, failure>>

-----------------------------------------------------------------------------
(* What both directions share: one path goes from `Expected' to `Target'   *)

Expected == IF phase = "apply" THEN before[at] ELSE after[at]
Target == IF phase = "apply" THEN after[at] ELSE before[at]

\* The first path of a set to work on: forwards, and backwards when undoing.
Least(S) == CHOOSE p \in S : \A q \in S : p <= q
Greatest(S) == CHOOSE p \in S : \A q \in S : p >= q

\* An exception ends the application; the same one ends the undoing for good.
Raise(kind, transitioned, fatal) ==
    IF phase = "apply"
    THEN /\ phase' = "triage"
         /\ failure' = [kind |-> kind, transitioned |-> transitioned, fatal |-> fatal]
         /\ UNCHANGED <<step, at, touched, result>>
    ELSE End("rollback_failed")

\* The path is done: apply_prepared_group goes on to the next one, or it returns,
\* or it has only the guard of the failed path left to settle.
NextOfGroup ==
    LET rest == IF phase = "apply" THEN {p \in Changed : p > at} ELSE touched \ {at} IN
    IF phase = "apply" /\ rest = {}
    THEN End("applied")
    ELSE IF rest = {}
    THEN /\ phase' = "settle" /\ step' = "create" /\ touched' = {}
         /\ UNCHANGED <<at, failure, result>>
    ELSE /\ at' = IF phase = "apply" THEN Least(rest) ELSE Greatest(rest)
         /\ step' = "check"
         /\ touched' = IF phase = "apply" THEN touched \cup {at'} ELSE rest
         /\ UNCHANGED <<phase, failure, result>>

Goto(s) == step' = s /\ UNCHANGED <<phase, at, touched, failure, result>>

Working == phase \in Phases

\* The leaf is compared with what is expected there.
Check ==
    /\ Working /\ step = "check"
    /\ IF ~Reachable(at) \/ fs[at] # Expected
       THEN Raise("state_changed", FALSE, FALSE)
       ELSE Goto(IF Expected = "absent" THEN "create" ELSE "move")
    /\ UNCHANGED <<plan, fs, guard, user, faults>>

\* A version that unlinks the name, and keeps nothing under the guard name.
UnlinkingMove ==
    /\ Working /\ step = "move"
    /\ fs[at] # "absent"
    /\ fs' = [fs EXCEPT ![at] = "absent"]
    /\ Goto("look")
    /\ UNCHANGED <<plan, guard, user, faults>>

\* rename(name, guard), whatever the name has by now.
Move ==
    /\ Working /\ step = "move"
    /\ fs[at] # "absent"
    /\ guard' = [guard EXCEPT ![phase][at] = fs[at]]
    /\ fs' = [fs EXCEPT ![at] = "absent"]
    /\ Goto("look")
    /\ UNCHANGED <<plan, user, faults>>

MoveFails ==
    /\ Working /\ step = "move"
    /\ \/ fs[at] = "absent" /\ UNCHANGED faults
       \/ Fault
    /\ Raise("os_error", FALSE, FALSE)
    /\ UNCHANGED <<plan, fs, guard, user>>

Look ==
    /\ Working /\ step = "look"
    /\ IF guard[phase][at] # Expected
       THEN Raise("guard_apply", FALSE, FALSE)
       ELSE Goto("create")
    /\ UNCHANGED <<plan, fs, guard, user, faults>>

\* A version that renames the candidate into place, over whatever is there.
OverwritingCreate ==
    /\ Working /\ step = "create"
    /\ fs' = [fs EXCEPT ![at] = Target]
    /\ IF Expected = "absent" THEN NextOfGroup ELSE Goto("clean")
    /\ UNCHANGED <<plan, guard, user, faults>>

\* The candidate is linked, or made, under a name that must be free.
Create ==
    /\ Working /\ step = "create"
    /\ Target = "absent" \/ fs[at] = "absent"
    /\ fs' = IF Target = "absent" THEN fs ELSE [fs EXCEPT ![at] = Target]
    /\ IF Expected = "absent" THEN NextOfGroup ELSE Goto("clean")
    /\ UNCHANGED <<plan, guard, user, faults>>

\* The name is taken by now, or a call fails before or (a temporary file that
\* cannot be removed) after the candidate is in place.
CreateFails ==
    /\ Working /\ step = "create" /\ Target # "absent"
    /\ \/ /\ fs[at] # "absent"
          /\ Raise(IF Expected = "absent" THEN "state_changed" ELSE "guard_apply", FALSE, FALSE)
          /\ UNCHANGED <<fs, faults>>
       \/ /\ Fault
          /\ Raise(IF Expected = "absent" THEN "os_error" ELSE "guard_apply", FALSE, FALSE)
          /\ UNCHANGED fs
       \/ /\ Fault
          /\ fs[at] = "absent" /\ Target # "directory"
          /\ fs' = [fs EXCEPT ![at] = Target]
          /\ Raise(IF Expected = "absent" THEN "os_error" ELSE "guard_apply", Expected # "absent", FALSE)
    /\ UNCHANGED <<plan, guard, user>>

\* A directory that holds something cannot be removed.
Occupied(p) == p \in stray \/ \E q \in Paths : Parent[q] = p /\ fs[q] # "absent"

Clean ==
    /\ Working /\ step = "clean"
    /\ guard[phase][at] = "directory" => ~Occupied(at)
    /\ guard' = [guard EXCEPT ![phase][at] = NoState]
    /\ NextOfGroup
    /\ UNCHANGED <<plan, fs, user, faults>>

CleanFails ==
    /\ Working /\ step = "clean"
    /\ \/ guard[phase][at] = "directory" /\ Occupied(at) /\ UNCHANGED faults
       \/ Fault
    /\ Raise("guard_cleanup", FALSE, FALSE)
    /\ UNCHANGED <<plan, fs, guard, user>>

-----------------------------------------------------------------------------
(* apply_prepared_group *)

\* validate_prepared_group, and the first path.
Validate ==
    /\ phase = "validate"
    /\ IF \E p \in Paths : fs[p] # before[p]
       THEN End("state_changed")
       ELSE IF Changed = {}
       THEN End("applied")
       ELSE /\ phase' = "apply" /\ step' = "check"
            /\ at' = Least(Changed) /\ touched' = {at'}
            /\ UNCHANGED <<failure, result>>
    /\ UNCHANGED <<plan, fs, guard, user, faults>>

\* Whether the failed path shows nothing that would have to be undone.
Untouched ==
    IF failure.kind = "guard_apply"
    THEN ~failure.transitioned \/ fs[at] # after[at]
    ELSE failure.kind = "state_changed" \/ fs[at] = before[at]

StartUndo(rest) ==
    /\ phase' = "undo" /\ step' = "check" /\ at' = Greatest(rest)

\* The failed path is captured once more, and the undoing begins with the last one.
Triage ==
    LET rest == IF Untouched THEN touched \ {at} ELSE touched IN
    /\ phase = "triage"
    /\ IF rest = {}
       THEN phase' = "settle" /\ step' = "create" /\ UNCHANGED at
       ELSE StartUndo(rest)
    /\ touched' = rest
    /\ UNCHANGED <<plan, fs, guard, user, failure, result, faults>>

\* The path whose guard the failed application left behind.
Guarded == {p \in Paths : guard["apply"][p] # NoState}

\* The original exception is raised once everything is back.
Restored == End(IF failure.fatal THEN "timed_out" ELSE "apply_failed")

\* _settle_transition_guard: what was moved away goes back, unless the name is taken.
Settle ==
    /\ phase = "settle"
    /\ \/ /\ Guarded = {} /\ Restored
          /\ UNCHANGED <<fs, guard, faults>>
       \/ \E p \in Guarded :
            /\ step = "create"
            /\ IF fs[p] = "absent"
               THEN fs' = [fs EXCEPT ![p] = guard["apply"][p]]
               ELSE UNCHANGED fs
            /\ Goto("clean")
            /\ UNCHANGED <<guard, faults>>
       \/ \E p \in Guarded :
            /\ step = "clean"
            /\ guard' = [guard EXCEPT !["apply"][p] = NoState]
            /\ Restored
            /\ UNCHANGED <<fs, faults>>
       \/ /\ Guarded # {} /\ Fault /\ End("rollback_failed")
          /\ UNCHANGED <<fs, guard>>
    /\ UNCHANGED <<plan, user>>

-----------------------------------------------------------------------------
(* What else happens *)

\* SIGALRM raises CatalogRefreshTimeout, no Exception: only what surrounds the
\* creation beside a guard catches it, before or after the candidate is there.
Alarm ==
    /\ phase # "end" /\ ~failure.fatal
    /\ IF phase = "apply" /\ step = "create" /\ Expected # "absent" /\ Target # "absent"
       THEN \/ Raise("guard_apply", FALSE, TRUE) /\ UNCHANGED fs
            \/ /\ fs[at] = "absent"
               /\ fs' = [fs EXCEPT ![at] = Target]
               /\ Raise("guard_apply", TRUE, TRUE)
       ELSE End("timed_out") /\ UNCHANGED fs
    /\ UNCHANGED <<plan, guard, user, faults>>

GroupEdit == groupEdits < MaxGroupEdits /\ groupEdits' = groupEdits + 1 /\ phase # "end"

\* The user writes a file of the group, removes it, or adds one to a directory.
UserWrites(p) ==
    /\ GroupEdit
    /\ Reachable(p) /\ fs[p] # "directory" /\ after[p] # "directory"
    /\ fs' = [fs EXCEPT ![p] = "user"]
    /\ edited' = [edited EXCEPT ![p] = "wrote"]
    /\ UNCHANGED <<plan, guard, stray, phase, step, at, touched, failure, result, faults>>

UserDeletes(p) ==
    /\ GroupEdit
    /\ Reachable(p) /\ fs[p] \notin {"directory", "absent"}
    /\ fs' = [fs EXCEPT ![p] = "absent"]
    /\ edited' = [edited EXCEPT ![p] = "deleted"]
    /\ UNCHANGED <<plan, guard, stray, phase, step, at, touched, failure, result, faults>>

UserAddsStray(p) ==
    /\ GroupEdit
    /\ fs[p] = "directory" /\ p \notin stray
    /\ stray' = stray \cup {p}
    /\ UNCHANGED <<plan, fs, guard, phase, step, at, touched, failure, result, edited, faults>>

Sync ==
    \/ Validate \/ Check \/ Move \/ MoveFails \/ Look \/ Create \/ CreateFails
    \/ Clean \/ CleanFails \/ Triage \/ Settle

GroupNext ==
    \/ Sync \/ Alarm
    \/ \E p \in Paths : UserWrites(p) \/ UserDeletes(p) \/ UserAddsStray(p)

GroupSpec == GroupInit /\ [][GroupNext]_groupVars /\ WF_groupVars(Sync)

-----------------------------------------------------------------------------
(* Properties *)

Undisturbed(p) == edited[p] = "none"

Guards == {x \in Phases \X Paths : guard[x[1]][x[2]] # NoState}

\* A group that reports success shows every candidate, and a group that reports a
\* handled failure shows every captured state, where the user did not interfere.
AllOrNothing ==
    \A p \in Paths : Undisturbed(p) =>
        /\ result = "applied" => fs[p] = after[p]
        /\ result \in {"apply_failed", "state_changed"} => fs[p] = before[p]

\* No guard file stays behind unless the report asks for a repair.
NoGuardStays == result \in {"applied", "apply_failed", "state_changed"} => Guards = {}

\* What the user wrote last is never destroyed: it is at its path or under a guard
\* name, although he edits without the lock between any two system calls.
UserFileSurvives ==
    \A p \in Paths : edited[p] = "wrote" =>
        fs[p] = "user" \/ \E f \in Phases : guard[f][p] = "user"

\* Wherever the process stops, each path shows its captured state or its candidate,
\* or the captured state is under a guard name: the next run can repair it.
Recoverable ==
    \A p \in Paths : Undisturbed(p) =>
        \/ fs[p] \in {before[p], after[p]}
        \/ \E f \in Phases : guard[f][p] \in {before[p], after[p]}

\* One failing system call, or the alarm, is always undone when nobody interferes.
OneFaultIsUndone ==
    result = "rollback_failed" => groupEdits >= 1 \/ faults >= (IF failure.fatal THEN 1 ELSE 2)

\* A group is applied or undone as a whole, leaves no guard, and destroys nothing.
GroupIsSafe == AllOrNothing /\ NoGuardStays /\ UserFileSurvives /\ Recoverable /\ OneFaultIsUndone

=============================================================================
