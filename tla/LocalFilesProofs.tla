-------------------------- MODULE LocalFilesProofs --------------------------
(***************************************************************************)
(* Proofs about the clients' files: that a mutation group is applied or    *)
(* undone as a whole and destroys nothing (PreparedGroup), and that no run *)
(* of a sync touches what the user put where it writes (LocalFiles).       *)
(*                                                                         *)
(* PreparedGroup: for every group of paths, however often the user edits   *)
(* and however many system calls fail.  The inductive invariant says where *)
(* each phase of apply_prepared_group leaves each path: the paths before   *)
(* the one at work show one side of the transition, those after it the     *)
(* other, and the one at work what its step says; what a path the user     *)
(* edited shows is left open, but for his file.                            *)
(***************************************************************************)
EXTENDS LocalFiles, PreparedGroup, DataLemmas

-----------------------------------------------------------------------------
(* The first and the last path of a set *)

\* The paths are numbered from 1.
LEMMA PathsAreNumbers == \E n \in Nat : Paths = 1..n
<1>1. Cardinality(Paths) \in Nat
  BY PathsOK, FS_CardinalityType
<1>2. Paths = 1..Cardinality(Paths)
  BY PathsOK
<1> QED BY <1>1, <1>2

\* The first path of a set is one of it, and no other comes before it.
LEMMA LeastIs ==
    ASSUME NEW S \in SUBSET Paths, S # {}
    PROVE  Least(S) \in S /\ \A q \in S : Least(S) <= q
<1>1. S \in SUBSET Nat
  BY PathsAreNumbers
<1>2. \E p \in S : \A q \in S : p <= q
  BY <1>1, HasLeast
<1> QED BY <1>2 DEF Least

\* The last path of a set is one of it, and no other comes after it.
LEMMA GreatestIs ==
    ASSUME NEW S \in SUBSET Paths, S # {}
    PROVE  Greatest(S) \in S /\ \A q \in S : Greatest(S) >= q
<1>1. PICK n \in Nat : S \in SUBSET (0..n)
  <2>1. PICK n \in Nat : Paths = 1..n
    BY PathsAreNumbers
  <2>2. \A q \in S : q \in 0..n
    BY <2>1
  <2> QED BY <2>2
<1>2. \E p \in S : \A q \in S : p >= q
  BY <1>1, HasGreatest
<1> QED BY <1>2 DEF Greatest

\* A path's directory is a path of the group, and comes before it.
LEMMA ParentBefore ==
    \A p \in Paths : Parent[p] # 0 => Parent[p] \in Paths /\ Parent[p] < p
BY ParentOK, PathsAreNumbers

\* Paths are compared as integers; 0 stands for no directory of the group.
LEMMA PathsInt == Paths \subseteq Int /\ 0 \notin Paths
BY PathsAreNumbers

-----------------------------------------------------------------------------
(* The inductive invariant *)

\* The types of what apply_prepared_group works on, and of where it is.
DataOK ==
    /\ before \in [Paths -> {"absent", "directory", "old"}]
    /\ after \in [Paths -> {"old"} \cup Candidates]
    /\ fs \in [Paths -> States]
    /\ guard \in [Phases -> [Paths -> States \cup {NoState}]]
    /\ stray \in SUBSET Paths
    /\ edited \in [Paths -> {"none", "wrote", "deleted"}]
    /\ groupEdits \in Nat /\ faults \in Nat

ControlOK ==
    /\ phase \in {"validate", "apply", "triage", "undo", "settle", "end"}
    /\ step \in {"check", "move", "look", "create", "clean"}
    /\ at \in Nat /\ touched \in SUBSET Paths
    /\ phase \in {"apply", "triage", "undo"} => at \in Paths
    /\ failure \in Failures
    /\ result \in {"none", "applied", "state_changed", "apply_failed", "rollback_failed", "timed_out"}

GroupTypeOK == DataOK /\ ControlOK

\* Directories stand where files are.
PlanOK ==
    /\ \A p \in Paths : Parent[p] # 0 => after[Parent[p]] = "directory"
    /\ \A p \in Paths : Parent[p] # 0 /\ before[Parent[p]] = "absent" => before[p] = "absent"
    /\ \A p \in Changed : \/ before[p] = "absent" /\ after[p] \in {"directory", "new"}
                          \/ before[p] = "old" /\ after[p] \in {"absent", "new"}
    /\ \A p \in Paths : before[p] = "directory" => after[p] = "directory"

DirectoriesOK ==
    \A p \in Paths : after[p] = "directory" => edited[p] = "none" /\ fs[p] \in {"absent", "directory"}

\* What the user wrote is somewhere, and his file under a guard name has no
\* other at its path but one of his.
UserOK ==
    /\ UserFileSurvives
    /\ \A p \in Paths : guard["apply"][p] = "user" => fs[p] \in {"absent", "user"}

\* Where the steps of one direction stand
AtStep(from, to) ==
    CASE step \in {"check", "move"} -> fs[at] = from
      [] step \in {"look", "create"} -> fs[at] = "absent"
      [] step = "clean" -> fs[at] = to

\* What the step leaves under the guard name of the path at work.
GuardStep(f, from) ==
    /\ step \in {"check", "move"} => guard[f][at] = NoState
    /\ step \in {"move", "look", "clean"} => from # "absent"
    /\ step = "create" => guard[f][at] = IF from = "absent" THEN NoState ELSE from
    /\ step = "clean" => guard[f][at] = from
    /\ step = "look" => guard[f][at] # NoState /\ (edited[at] = "none" => guard[f][at] = from)

\* A direction has nothing under its guard names.
NoGuards(f) == \A p \in Paths : guard[f][p] = NoState
\* The paths that are touched once the application has come to p.
Upto(p) == {q \in Changed : q <= p}

\* Nothing is touched before the application begins.
ValidateOK ==
    /\ NoGuards("apply") /\ NoGuards("undo")
    /\ \A p \in Paths : Undisturbed(p) => fs[p] = before[p]

\* The application has changed the paths before the one at work, and no other.
Applied ==
    \A p \in Paths : Undisturbed(p) =>
        /\ p \notin Changed \/ p > at => fs[p] = before[p]
        /\ p \in Changed /\ p < at => fs[p] = after[p]

\* The application, at work on a path.
ApplyOK ==
    /\ at \in Changed /\ touched = Upto(at)
    /\ NoGuards("undo") /\ \A p \in Paths \ {at} : guard["apply"][p] = NoState
    /\ GuardStep("apply", before[at])
    /\ Applied
    /\ Undisturbed(at) => AtStep(before[at], after[at])

\* What the exception says of the path it was raised on.
Blames(failed) ==
    /\ failed.kind \in {"state_changed", "os_error", "guard_apply", "guard_cleanup"}
    /\ failed.kind \in {"state_changed", "os_error"} =>
          /\ guard["apply"][at] = NoState
          /\ Undisturbed(at) => fs[at] \in {before[at], after[at]}
    /\ failed.kind = "state_changed" => (Undisturbed(at) => fs[at] = before[at])
    /\ failed.kind \in {"guard_apply", "guard_cleanup"} => before[at] = "old"
    /\ failed.kind = "guard_apply" /\ ~failed.transitioned =>
          /\ guard["apply"][at] # NoState
          /\ Undisturbed(at) => fs[at] = "absent" /\ guard["apply"][at] = before[at]
    /\ failed.kind = "guard_cleanup" \/ (failed.kind = "guard_apply" /\ failed.transitioned) =>
          /\ guard["apply"][at] = before[at]
          /\ Undisturbed(at) => fs[at] = after[at]

\* The application, ended by an exception.
TriageOK ==
    /\ at \in Changed /\ touched = Upto(at)
    /\ NoGuards("undo") /\ \A p \in Paths \ {at} : guard["apply"][p] = NoState
    /\ Applied
    /\ Blames(failure)

\* A failed application leaves one guard at most, with what the path had.
OneGuarded ==
    /\ \A p \in Paths : guard["apply"][p] # NoState => before[p] = "old" /\ p \in Changed
    /\ \A p \in Paths : guard["apply"][p] # NoState /\ Undisturbed(p) => guard["apply"][p] = before[p]
    /\ \A p, q \in Paths : guard["apply"][p] # NoState /\ guard["apply"][q] # NoState => p = q

\* The undoing, at work on a path: those before it are still to be undone.
UndoOK ==
    /\ at \in Changed /\ touched = Upto(at)
    /\ \A p \in Paths \ {at} : guard["undo"][p] = NoState
    /\ GuardStep("undo", after[at])
    /\ OneGuarded
    /\ \A p \in touched : guard["apply"][p] # "user"
    /\ \A p \in Paths : Undisturbed(p) =>
        /\ p \in touched \ {at} => fs[p] = after[p]
        /\ p \notin touched => \/ fs[p] = before[p]
                               \/ fs[p] = "absent" /\ guard["apply"][p] # NoState
    /\ Undisturbed(at) => AtStep(after[at], before[at])

\* Everything is back but what the failed application's guard holds.
SettleOK ==
    /\ NoGuards("undo") /\ step \in {"create", "clean"}
    /\ OneGuarded
    /\ step = "clean" => \A p \in Paths : Undisturbed(p) => fs[p] = before[p]
    /\ step = "create" => \A p \in Paths : Undisturbed(p) =>
                               \/ fs[p] = before[p]
                               \/ fs[p] = "absent" /\ guard["apply"][p] # NoState
    /\ step = "clean" => \A p \in Paths : guard["apply"][p] # NoState /\ edited[p] = "wrote" => fs[p] = "user"

\* What has to hold of a group that has ended.
EndOK == AllOrNothing /\ NoGuardStays /\ Recoverable /\ OneFaultIsUndone

\* Each phase leaves the paths as described.
PhaseOK ==
    /\ (result = "none") <=> (phase # "end")
    /\ phase = "validate" => ValidateOK
    /\ phase = "apply" => ApplyOK
    /\ phase = "triage" => TriageOK
    /\ phase = "undo" => UndoOK
    /\ phase = "settle" => SettleOK
    /\ phase = "end" => EndOK

\* Where the user does nothing, only a fault or the alarm makes a group fail.
QuietOK ==
    groupEdits = 0 =>
        /\ \A p \in Paths : Undisturbed(p)
        /\ stray = {}
        /\ phase \in {"triage", "undo", "settle"} => failure.fatal \/ faults >= 1

\* The inductive invariant.
IInv == GroupTypeOK /\ PlanOK /\ DirectoriesOK /\ UserOK /\ PhaseOK /\ QuietOK

-----------------------------------------------------------------------------
(* The initial states, and the types *)

\* The invariant holds of every group a producer prepares.
LEMMA Initially == GroupInit => IInv
<1> SUFFICES ASSUME GroupInit PROVE IInv
  OBVIOUS
<1> USE DEF GroupInit
<1>1. GroupTypeOK
  BY DEF GroupTypeOK, DataOK, ControlOK, Plans, States, NoState, Candidates, Phases, Failures, NoFailure
<1>2. PlanOK
  <2> HIDE DEF GroupInit
  <2>1. \A p \in Paths : Parent[p] # 0 => Parent[p] \in Paths /\ Parent[p] < p
    BY ParentOK, PathsAreNumbers
  <2>2. before \in Plans /\ after \in [Paths -> {"old"} \cup Candidates]
    BY DEF GroupInit
  <2>3. \A p \in Paths :
          /\ (\E q \in Paths : Parent[q] = p) <=> after[p] = "directory"
          /\ before[p] = "directory" => after[p] = "directory"
          /\ after[p] = "directory" => before[p] \in {"absent", "directory"}
          /\ after[p] = "old" => before[p] = "old"
    BY DEF GroupInit
  <2>4. \A p \in Paths : before[p] \in {"absent", "directory", "old"} /\ after[p] \in {"absent", "directory", "new", "old"}
    BY <2>2 DEF Plans, Candidates
  <2>5. \A p \in Paths : Parent[p] # 0 => after[Parent[p]] = "directory"
    BY <2>1, <2>3
  <2>6. \A p \in Paths : Parent[p] # 0 /\ before[Parent[p]] = "absent" => before[p] = "absent"
    BY <2>2 DEF Plans
  <2>7. \A p \in Changed : \/ before[p] = "absent" /\ after[p] \in {"directory", "new"}
                           \/ before[p] = "old" /\ after[p] \in {"absent", "new"}
    BY <2>3, <2>4 DEF Changed
  <2>8. \A p \in Paths : before[p] = "directory" => after[p] = "directory"
    BY <2>3
  <2> QED BY <2>5, <2>6, <2>7, <2>8 DEF PlanOK
<1>3. DirectoriesOK
  BY DEF DirectoriesOK
<1>4. UserOK
  BY DEF UserOK, UserFileSurvives, Plans, NoState, Phases
<1>5. PhaseOK
  BY DEF PhaseOK, ValidateOK, NoGuards, Phases
<1>6. QuietOK
  BY DEF QuietOK, Undisturbed
<1> QED BY <1>1, <1>2, <1>3, <1>4, <1>5, <1>6 DEF IInv

\* An exception leaves the types as they are.
LEMMA RaiseTyped ==
    ASSUME ControlOK, Working,
           NEW kind \in {"none", "state_changed", "guard_apply", "guard_cleanup", "os_error"},
           NEW transitioned \in BOOLEAN, NEW fatal \in BOOLEAN,
           Raise(kind, transitioned, fatal)
    PROVE  ControlOK'
<1>1. CASE phase = "apply"
  BY <1>1 DEF ControlOK, Raise, Failures, Phases
<1>2. CASE phase = "undo"
  BY <1>2 DEF ControlOK, Raise, End, Failures, Phases
<1> QED BY <1>1, <1>2 DEF Working, Phases

\* Going on to the next path leaves the types as they are.
LEMMA NextTyped ==
    ASSUME ControlOK, Working, NextOfGroup
    PROVE  ControlOK'
<1> DEFINE rest == IF phase = "apply" THEN {p \in Changed : p > at} ELSE touched \ {at}
<1>1. rest \in SUBSET Paths
  BY DEF ControlOK, Changed
<1>2. CASE rest = {}
  BY <1>2 DEF ControlOK, NextOfGroup, End, Working, Phases
<1>3. CASE rest # {}
  <2>1. Least(rest) \in Paths /\ Greatest(rest) \in Paths
    <3> HIDE DEF rest
    <3> QED BY <1>1, <1>3, LeastIs, GreatestIs
  <2>2. /\ at' = (IF phase = "apply" THEN Least(rest) ELSE Greatest(rest))
        /\ step' = "check"
        /\ touched' = IF phase = "apply" THEN touched \cup {at'} ELSE rest
        /\ UNCHANGED <<phase, failure, result>>
    BY <1>3 DEF NextOfGroup
  <2>3. at' \in Paths /\ touched' \in SUBSET Paths
    BY <1>1, <2>1, <2>2 DEF ControlOK
  <2>4. Paths \subseteq Nat
    BY PathsAreNumbers
  <2> HIDE DEF rest
  <2> QED BY <2>2, <2>3, <2>4 DEF ControlOK
<1> QED BY <1>2, <1>3

\* Going on to the next step leaves the types as they are.
LEMMA GotoTyped ==
    ASSUME ControlOK, NEW s \in {"check", "move", "look", "create", "clean"}, Goto(s)
    PROVE  ControlOK'
BY DEF ControlOK, Goto

\* Ending the group leaves the types as they are.
LEMMA EndTyped ==
    ASSUME ControlOK, NEW res \in {"applied", "state_changed", "apply_failed", "rollback_failed", "timed_out"}, End(res)
    PROVE  ControlOK'
BY DEF ControlOK, End

\* Every step leaves the types as they are.
LEMMA TypeStep ==
    ASSUME GroupTypeOK, [GroupNext]_groupVars
    PROVE  GroupTypeOK'
<1> USE DEF GroupTypeOK
<1>0. DataOK /\ ControlOK
  OBVIOUS
<1>1. CASE UNCHANGED groupVars
  BY <1>1 DEF groupVars, DataOK, ControlOK
<1>2. ASSUME Working PROVE /\ Expected \in States /\ Target \in States
                           /\ at \in Paths /\ phase \in Phases
  BY <1>2 DEF Working, Phases, ControlOK, DataOK, Expected, Target, States, Candidates
<1>3. CASE Validate
  <2>1. DataOK'
    BY <1>3 DEF Validate, DataOK, plan, user
  <2>2. Changed # {} => Least(Changed) \in Paths
    BY LeastIs DEF Changed
  <2>3. Paths \subseteq Nat
    BY PathsAreNumbers
  <2>4. ControlOK'
    BY <1>3, <2>2, <2>3, EndTyped DEF Validate, ControlOK, Changed
  <2> QED BY <2>1, <2>4
<1>4. CASE Check
  <2>1. DataOK'
    BY <1>4 DEF Check, DataOK, plan, user
  <2>2. ControlOK'
    BY <1>4, RaiseTyped, GotoTyped DEF Check
  <2> QED BY <2>1, <2>2
<1>5. CASE Move
  <2>1. fs[at] \in States
    BY <1>5, <1>2 DEF Move, DataOK
  <2>2. DataOK'
    BY <1>5, <1>2, <2>1 DEF Move, DataOK, plan, user, States
  <2>3. ControlOK'
    BY <1>5, GotoTyped DEF Move
  <2> QED BY <2>2, <2>3
<1>6. CASE MoveFails
  <2>1. DataOK'
    BY <1>6 DEF MoveFails, DataOK, plan, user, Fault
  <2>2. ControlOK'
    BY <1>6, RaiseTyped DEF MoveFails
  <2> QED BY <2>1, <2>2
<1>7. CASE Look
  <2>1. DataOK'
    BY <1>7 DEF Look, DataOK, plan, user
  <2>2. ControlOK'
    BY <1>7, RaiseTyped, GotoTyped DEF Look
  <2> QED BY <2>1, <2>2
<1>8. CASE Create
  <2>1. DataOK'
    BY <1>8, <1>2 DEF Create, DataOK, plan, user
  <2>2. ControlOK'
    BY <1>8, NextTyped, GotoTyped DEF Create
  <2> QED BY <2>1, <2>2
<1>9. CASE CreateFails
  <2>0. /\ UNCHANGED fs \/ (Working /\ fs' = [fs EXCEPT ![at] = Target])
        /\ faults' \in {faults, faults + 1}
        /\ UNCHANGED <<plan, guard, user>>
    BY <1>9 DEF CreateFails, Fault
  <2>1. DataOK'
    BY <2>0, <1>2 DEF DataOK, plan, user
  <2>2. ControlOK'
    BY <1>9, RaiseTyped DEF CreateFails
  <2> QED BY <2>1, <2>2
<1>10. CASE Clean
  <2>1. DataOK'
    BY <1>10, <1>2 DEF Clean, DataOK, plan, user
  <2>2. ControlOK'
    BY <1>10, NextTyped DEF Clean
  <2> QED BY <2>1, <2>2
<1>11. CASE CleanFails
  <2>1. DataOK'
    BY <1>11 DEF CleanFails, DataOK, plan, user, Fault
  <2>2. ControlOK'
    BY <1>11, RaiseTyped DEF CleanFails
  <2> QED BY <2>1, <2>2
<1>12. CASE Triage
  <2>1. DataOK'
    BY <1>12 DEF Triage, DataOK, plan, user
  <2> DEFINE rest == IF Untouched THEN touched \ {at} ELSE touched
  <2>2. rest \in SUBSET Paths
    BY DEF ControlOK
  <2>3. rest # {} => Greatest(rest) \in Paths
    <3> HIDE DEF rest
    <3> QED BY <2>2, GreatestIs
  <2>4. Paths \subseteq Nat
    BY PathsAreNumbers
  <2>5. /\ UNCHANGED <<failure, result>> /\ touched' = rest
        /\ \/ phase' = "settle" /\ step' = "create" /\ UNCHANGED at
           \/ rest # {} /\ phase' = "undo" /\ step' = "check" /\ at' = Greatest(rest)
    BY <1>12 DEF Triage, StartUndo
  <2>6. ControlOK'
    <3> HIDE DEF rest
    <3> QED BY <2>2, <2>3, <2>4, <2>5 DEF ControlOK
  <2> QED BY <2>1, <2>6
<1>13. CASE Settle
  <2>1. ASSUME NEW p \in Paths, guard["apply"][p] # NoState PROVE guard["apply"][p] \in States
    BY <2>1 DEF DataOK, Phases
  <2>2. DataOK'
    BY <1>13, <2>1 DEF Settle, DataOK, plan, user, Fault, Guarded, Phases
  <2>3. ControlOK'
    BY <1>13, GotoTyped, EndTyped DEF Settle, Restored
  <2> QED BY <2>2, <2>3
<1>14. CASE Alarm
  <2>1. DataOK'
    BY <1>14, <1>2 DEF Alarm, DataOK, plan, user, Working, Phases
  <2>2. ControlOK'
    BY <1>14, RaiseTyped, EndTyped DEF Alarm, Working, Phases
  <2> QED BY <2>1, <2>2
<1>15. CASE \E p \in Paths : UserWrites(p) \/ UserDeletes(p) \/ UserAddsStray(p)
  <2>1. DataOK'
    BY <1>15 DEF UserWrites, UserDeletes, UserAddsStray, GroupEdit, DataOK, plan, States
  <2>2. ControlOK'
    BY <1>15 DEF UserWrites, UserDeletes, UserAddsStray, ControlOK
  <2> QED BY <2>1, <2>2
<1> QED BY <1>1, <1>3, <1>4, <1>5, <1>6, <1>7, <1>8, <1>9, <1>10, <1>11, <1>12, <1>13, <1>14, <1>15 DEF GroupNext, Sync

-----------------------------------------------------------------------------
(* What no step disturbs: the plan, its directories, and the user's files *)

\* No step changes the plan.
LEMMA PlanStep ==
    ASSUME PlanOK, [GroupNext]_groupVars
    PROVE  PlanOK' /\ UNCHANGED plan
<1>1. UNCHANGED plan
  BY DEF GroupNext, Sync, groupVars, plan, Validate, Check, Move, MoveFails, Look, Create, CreateFails,
         Clean, CleanFails, Triage, Settle, Alarm, UserWrites, UserDeletes, UserAddsStray
<1> QED BY <1>1 DEF plan, PlanOK, Changed

\* What a working step knows of the path it is on.
LEMMA AtWork ==
    ASSUME IInv, Working
    PROVE  /\ at \in Paths /\ at \in Changed /\ at \in touched
           /\ Expected = (IF phase = "apply" THEN before[at] ELSE after[at])
           /\ Target = (IF phase = "apply" THEN after[at] ELSE before[at])
           /\ GuardStep(phase, Expected)
           /\ Undisturbed(at) => AtStep(Expected, Target)
           /\ Expected \in {"absent", "directory", "old", "new"} /\ Target \in {"absent", "directory", "old", "new"}
           /\ Expected # Target
           /\ Expected = "directory" => phase = "undo" /\ Target = "absent"
           /\ Target = "directory" => phase = "apply" /\ Expected = "absent"
           /\ after[at] = "directory" => "directory" \in {Expected, Target} /\ "absent" \in {Expected, Target}
           /\ phase = "apply" => NoGuards("undo") /\ \A p \in Paths \ {at} : guard["apply"][p] = NoState
           /\ phase = "undo" => guard["apply"][at] # "user"
<1>1. phase \in {"apply", "undo"} /\ at \in Paths
  BY DEF Working, Phases, IInv, GroupTypeOK, ControlOK
<1>2. /\ Expected = (IF phase = "apply" THEN before[at] ELSE after[at])
      /\ Target = (IF phase = "apply" THEN after[at] ELSE before[at])
  BY DEF Expected, Target
<1>3. /\ phase = "apply" => ApplyOK
      /\ phase = "undo" => UndoOK
  BY DEF IInv, PhaseOK
<1>4. at \in Changed /\ at \in touched
  BY <1>1, <1>3 DEF ApplyOK, UndoOK, Upto, IInv, GroupTypeOK, ControlOK
<1>5. \/ before[at] = "absent" /\ after[at] \in {"directory", "new"}
      \/ before[at] = "old" /\ after[at] \in {"absent", "new"}
  BY <1>4 DEF IInv, PlanOK
<1>6. CASE phase = "apply"
  BY <1>6, <1>1, <1>2, <1>3, <1>4, <1>5 DEF ApplyOK
<1>7. CASE phase = "undo"
  BY <1>7, <1>1, <1>2, <1>3, <1>4, <1>5 DEF UndoOK
<1> QED BY <1>1, <1>6, <1>7

\* The guard names are none's, or hold what a name held.
LEMMA DirectoriesStep ==
    ASSUME IInv, [GroupNext]_groupVars
    PROVE  DirectoriesOK'
<1> USE DEF IInv
<1>0. UNCHANGED <<before, after>>
  BY PlanStep DEF plan
<1>1. CASE UNCHANGED <<fs, edited>>
  BY <1>0, <1>1 DEF DirectoriesOK
<1>2. CASE UNCHANGED edited /\ \E p \in Paths : fs' = [fs EXCEPT ![p] = "absent"]
  BY <1>0, <1>2 DEF DirectoriesOK, GroupTypeOK, DataOK
<1>3. CASE UNCHANGED edited /\ Working /\ fs' = [fs EXCEPT ![at] = Target]
  <2>1. after[at] = "directory" => Target \in {"absent", "directory"}
    BY <1>3, AtWork
  <2> QED BY <1>0, <1>3, <2>1 DEF DirectoriesOK, GroupTypeOK, DataOK
<1>4. CASE UNCHANGED edited /\ phase = "settle" /\ \E p \in Guarded : fs' = [fs EXCEPT ![p] = guard["apply"][p]]
  <2>1. PICK p \in Paths : guard["apply"][p] # NoState /\ fs' = [fs EXCEPT ![p] = guard["apply"][p]]
    BY <1>4 DEF Guarded
  <2>2. SettleOK
    BY <1>4 DEF PhaseOK
  <2>3. after[p] # "directory"
    BY <2>1, <2>2 DEF SettleOK, OneGuarded, PlanOK
  <2> QED BY <1>0, <1>4, <2>1, <2>3 DEF DirectoriesOK, GroupTypeOK, DataOK
<1>5. CASE \E p \in Paths : after[p] # "directory" /\ \E x, y : fs' = [fs EXCEPT ![p] = x] /\ edited' = [edited EXCEPT ![p] = y]
  BY <1>0, <1>5 DEF DirectoriesOK, GroupTypeOK, DataOK
<1>6. CASE GroupNext
  <2>1. CASE Validate \/ Check \/ MoveFails \/ Look \/ Clean \/ CleanFails \/ Triage
    BY <1>1, <2>1 DEF Validate, Check, MoveFails, Look, Clean, CleanFails, Triage, user
  <2>2. CASE Move
    BY <1>2, <2>2, AtWork DEF Move, user
  <2>3. CASE Create \/ CreateFails \/ Alarm
    BY <1>1, <1>3, <2>3 DEF Create, CreateFails, Alarm, user, Working, Phases
  <2>4. CASE Settle
    BY <1>1, <1>4, <2>4 DEF Settle, user
  <2>5. ASSUME NEW p \in Paths, UserWrites(p) \/ UserDeletes(p) \/ UserAddsStray(p) PROVE DirectoriesOK'
    <3>1. CASE UserWrites(p)
      BY <1>5, <3>1 DEF UserWrites
    <3>2. CASE UserDeletes(p)
      BY <1>5, <3>2 DEF UserDeletes, DirectoriesOK
    <3>3. CASE UserAddsStray(p)
      BY <1>1, <3>3 DEF UserAddsStray
    <3> QED BY <2>5, <3>1, <3>2, <3>3
  <2> QED BY <1>6, <2>1, <2>2, <2>3, <2>4, <2>5 DEF GroupNext, Sync
<1> QED BY <1>1, <1>6 DEF groupVars

\* The user's last file is moved, never removed: a name is cleaned only where the
\* guard holds what was expected there.
LEMMA UserStep ==
    ASSUME IInv, [GroupNext]_groupVars
    PROVE  UserOK'
<1> USE DEF IInv
<1>0. DataOK
  BY DEF GroupTypeOK
<1>1. CASE UNCHANGED <<fs, guard, edited>>
  BY <1>1 DEF UserOK, UserFileSurvives
<1>2. CASE Move
  <2>1. /\ at \in Paths /\ phase \in Phases /\ guard[phase][at] = NoState
        /\ guard' = [guard EXCEPT ![phase][at] = fs[at]]
        /\ fs' = [fs EXCEPT ![at] = "absent"] /\ UNCHANGED edited
    BY <1>2, AtWork DEF Move, user, Working, GuardStep
  <2>2. UserFileSurvives'
    <3>1. SUFFICES ASSUME NEW p \in Paths, edited[p] = "wrote"
                   PROVE  fs'[p] = "user" \/ \E f \in Phases : guard'[f][p] = "user"
      BY <2>1 DEF UserFileSurvives
    <3>2. fs[p] = "user" \/ \E f \in Phases : guard[f][p] = "user"
      BY <3>1 DEF UserOK, UserFileSurvives
    <3>3. CASE fs[p] = "user"
      <4>1. CASE p = at
        <5>1. guard'[phase][p] = "user"
          BY <1>0, <2>1, <3>3, <4>1 DEF DataOK
        <5> QED BY <5>1, <2>1
      <4>2. CASE p # at
        BY <1>0, <2>1, <3>3, <4>2 DEF DataOK
      <4> QED BY <4>1, <4>2
    <3>4. ASSUME NEW f \in Phases, guard[f][p] = "user" PROVE guard'[f][p] = "user"
      BY <1>0, <2>1, <3>4 DEF DataOK, NoState
    <3> QED BY <3>2, <3>3, <3>4
  <2>3. \A p \in Paths : guard'["apply"][p] = "user" => fs'[p] \in {"absent", "user"}
    <3>1. ASSUME NEW p \in Paths, p # at, guard'["apply"][p] = "user" PROVE guard["apply"][p] = "user"
      BY <1>0, <2>1, <3>1 DEF DataOK, Phases
    <3> QED BY <1>0, <2>1, <3>1 DEF DataOK, UserOK
  <2> QED BY <2>2, <2>3 DEF UserOK
<1>3. CASE UNCHANGED <<guard, edited>> /\ Working /\ step = "create" /\ fs[at] = "absent" /\ fs' = [fs EXCEPT ![at] = Target]
  <2>1. guard["apply"][at] # "user"
    BY <1>3, AtWork DEF Working, Phases, GuardStep, NoState
  <2>2. at \in Paths
    BY <1>3, AtWork
  <2>3. UserFileSurvives'
    BY <1>0, <1>3, <2>2 DEF UserOK, UserFileSurvives, DataOK
  <2>4. \A p \in Paths : guard'["apply"][p] = "user" => fs'[p] \in {"absent", "user"}
    BY <1>0, <1>3, <2>1, <2>2 DEF UserOK, DataOK
  <2> QED BY <2>3, <2>4 DEF UserOK
<1>4. CASE UNCHANGED <<fs, edited>> /\ Working /\ step = "clean" /\ guard' = [guard EXCEPT ![phase][at] = NoState]
  <2>1. guard[phase][at] # "user" /\ at \in Paths /\ phase \in Phases
    BY <1>4, AtWork DEF Working, GuardStep
  <2>2. \A f \in Phases, p \in Paths : guard[f][p] = "user" <=> guard'[f][p] = "user"
    BY <1>0, <1>4, <2>1 DEF DataOK, NoState
  <2> QED BY <1>4, <2>2 DEF UserOK, UserFileSurvives, Phases
<1>5. CASE Settle
  <2>1. SettleOK
    BY <1>5 DEF Settle, PhaseOK
  <2>2. CASE UNCHANGED <<guard, edited>> /\ \E p \in Guarded : fs[p] = "absent" /\ fs' = [fs EXCEPT ![p] = guard["apply"][p]]
    <3>1. PICK p \in Paths : fs[p] = "absent" /\ fs' = [fs EXCEPT ![p] = guard["apply"][p]]
      BY <2>2 DEF Guarded
    <3> QED BY <1>0, <2>2, <3>1 DEF UserOK, UserFileSurvives, DataOK
  <2>3. CASE /\ UNCHANGED <<fs, edited>> /\ step = "clean"
             /\ \E p \in Guarded : guard' = [guard EXCEPT !["apply"][p] = NoState]
    <3>1. PICK p \in Paths : guard["apply"][p] # NoState /\ guard' = [guard EXCEPT !["apply"][p] = NoState]
      BY <2>3 DEF Guarded
    <3>2. edited[p] = "wrote" => fs[p] = "user"
      BY <2>1, <2>3, <3>1 DEF SettleOK
    <3>3. \A q \in Paths \ {p} : \A f \in Phases : guard'[f][q] = guard[f][q]
      BY <1>0, <3>1 DEF DataOK, Phases
    <3>4. guard'["apply"][p] # "user"
      BY <1>0, <3>1 DEF DataOK, Phases, NoState
    <3> QED BY <2>3, <3>2, <3>3, <3>4 DEF UserOK, UserFileSurvives, Phases
  <2> QED BY <1>1, <1>5, <2>2, <2>3 DEF Settle, user
<1>6. ASSUME NEW p \in Paths, UserWrites(p) \/ UserDeletes(p) \/ UserAddsStray(p) PROVE UserOK'
  <2>1. CASE UserWrites(p)
    BY <1>0, <2>1 DEF UserWrites, UserOK, UserFileSurvives, DataOK
  <2>2. CASE UserDeletes(p)
    BY <1>0, <2>2 DEF UserDeletes, UserOK, UserFileSurvives, DataOK
  <2>3. CASE UserAddsStray(p)
    BY <1>1, <2>3 DEF UserAddsStray
  <2> QED BY <1>6, <2>1, <2>2, <2>3
<1>7. CASE GroupNext
  <2>1. CASE Validate \/ Check \/ MoveFails \/ Look \/ CleanFails \/ Triage
    BY <1>1, <2>1 DEF Validate, Check, MoveFails, Look, CleanFails, Triage, user
  <2>2. CASE Create
    BY <1>1, <1>3, <2>2 DEF Create, user
  <2>3. CASE CreateFails
    BY <1>1, <1>3, <2>3 DEF CreateFails, user
  <2>4. CASE Alarm
    BY <1>1, <1>3, <2>4 DEF Alarm, user, Working, Phases
  <2>5. CASE Clean
    BY <1>4, <2>5 DEF Clean, user
  <2> QED BY <1>2, <1>5, <1>6, <1>7, <2>1, <2>2, <2>3, <2>4, <2>5 DEF GroupNext, Sync
<1> QED BY <1>1, <1>7 DEF groupVars

-----------------------------------------------------------------------------
(* One fault is undone *)

\* Where nobody interferes, no step finds anything but what it expects.
LEMMA QuietWork ==
    ASSUME IInv, Working, groupEdits = 0
    PROVE  /\ step = "check" => Reachable(at) /\ fs[at] = Expected
           /\ step = "move" => fs[at] # "absent"
           /\ step = "look" => guard[phase][at] = Expected
           /\ step = "create" => fs[at] = "absent"
           /\ step = "clean" => ~(guard[phase][at] = "directory" /\ Occupied(at))
<1> USE DEF IInv
<1>1. stray = {} /\ \A p \in Paths : Undisturbed(p)
  BY DEF QuietOK
<1>2. phase \in {"apply", "undo"} /\ at \in Paths /\ AtStep(Expected, Target)
  BY <1>1, AtWork DEF Working, Phases
<1>3. GuardStep(phase, Expected)
  BY AtWork
<1>4. (phase = "apply" => ApplyOK) /\ (phase = "undo" => UndoOK)
  BY DEF PhaseOK
<1>5. Reachable(at)
  <2> SUFFICES ASSUME Parent[at] # 0 PROVE fs[Parent[at]] = "directory"
    BY DEF Reachable
  <2> DEFINE q == Parent[at]
  <2>1. q \in Paths /\ q < at /\ after[q] = "directory" /\ q # at
    BY <1>2, ParentBefore, PathsInt DEF PlanOK
  <2> HIDE DEF q
  <2>2. before[q] # "old"
    BY <2>1 DEF PlanOK, Changed
  <2>3. q \notin Changed => before[q] = "directory"
    BY <2>1 DEF Changed
  <2>4. ~ (q > at)
    BY <2>1, <1>2, PathsInt
  <2>5. CASE phase = "apply"
    <3>1. fs[q] = "directory"
      BY <1>1, <1>4, <2>1, <2>3, <2>5 DEF ApplyOK, Applied
    <3> QED BY <3>1 DEF q
  <2>6. CASE phase = "undo"
    <3>0. touched = Upto(at)
      BY <1>4, <2>6 DEF UndoOK
    <3>1. q \in Changed => q \in touched \ {at}
      BY <1>2, <2>1, <3>0, PathsInt DEF Upto
    <3>2. q \notin Changed => q \notin touched
      BY <1>4, <2>6 DEF UndoOK, Upto
    <3>3. fs[q] = "directory"
      BY <1>1, <1>4, <2>1, <2>2, <2>3, <2>6, <3>1, <3>2 DEF UndoOK, OneGuarded
    <3> QED BY <3>1, <3>3 DEF q
  <2> QED BY <1>2, <2>5, <2>6
<1>6. ASSUME step = "clean", guard[phase][at] = "directory", Occupied(at) PROVE FALSE
  <2>1. Expected = "directory" /\ phase = "undo" /\ before[at] = "absent"
    BY <1>3, <1>6, AtWork DEF GuardStep
  <2>2. PICK c \in Paths : Parent[c] = at /\ fs[c] # "absent"
    BY <1>1, <1>6 DEF Occupied
  <2>3. before[c] = "absent" /\ at < c
    BY <1>2, <2>1, <2>2, ParentBefore, PathsInt DEF PlanOK
  <2>4. c \notin touched
    BY <1>2, <1>4, <2>1, <2>3, PathsInt DEF UndoOK, Upto
  <2>5. fs[c] = before[c] \/ fs[c] = "absent"
    BY <1>1, <1>4, <2>1, <2>4 DEF UndoOK
  <2> QED BY <2>2, <2>3, <2>5
<1>7. /\ step = "check" => fs[at] = Expected
      /\ step = "move" => fs[at] # "absent"
      /\ step = "look" => guard[phase][at] = Expected
      /\ step = "create" => fs[at] = "absent"
  BY <1>1, <1>2, <1>3 DEF AtStep, GuardStep, Undisturbed
<1> QED BY <1>5, <1>6, <1>7

\* A failure that nobody else caused is a call that failed, or the alarm.
LEMMA QuietStep ==
    ASSUME IInv, [GroupNext]_groupVars
    PROVE  QuietOK'
<1> USE DEF IInv
<1>0. groupEdits \in Nat /\ faults \in Nat
  BY DEF GroupTypeOK, DataOK
<1> DEFINE Blamed == phase \in {"triage", "undo", "settle"} => failure.fatal \/ faults >= 1
<1>1. CASE UNCHANGED groupVars
  BY <1>1 DEF groupVars, QuietOK, Undisturbed
<1>2. ASSUME NEW p \in Paths, UserWrites(p) \/ UserDeletes(p) \/ UserAddsStray(p) PROVE QuietOK'
  <2>1. groupEdits' # 0
    BY <1>0, <1>2 DEF UserWrites, UserDeletes, UserAddsStray, GroupEdit
  <2> QED BY <2>1 DEF QuietOK
<1>3. ASSUME Sync \/ Alarm, groupEdits = 0 PROVE Blamed'
  <2>0. Blamed
    BY <1>3 DEF QuietOK
  <2>1. CASE Working
    <3>1. CASE phase = "undo"
      <4>1. phase' = "end" \/ (UNCHANGED failure /\ faults' \in {faults, faults + 1})
        BY <1>3, <3>1 DEF Sync, Validate, Check, Move, MoveFails, Look, Create, CreateFails, Clean, CleanFails,
           Triage, Settle, Alarm, Raise, Goto, End, NextOfGroup, Fault
      <4> QED BY <1>0, <2>0, <3>1, <4>1
    <3>2. CASE phase = "apply"
      <4>1. ASSUME Alarm PROVE Blamed'
        BY <3>2, <4>1 DEF Alarm, Raise, End
      <4>2. ASSUME Fault PROVE Blamed'
        BY <1>0, <4>2 DEF Fault
      <4>3. ASSUME Check PROVE phase' = "apply"
        BY <1>3, <2>1, <3>2, <4>3, QuietWork DEF Check, Goto
      <4>4. ASSUME Look PROVE phase' = "apply"
        BY <1>3, <2>1, <3>2, <4>4, QuietWork DEF Look, Goto
      <4>5. ASSUME MoveFails \/ CreateFails \/ CleanFails PROVE Fault
        BY <1>3, <2>1, <4>5, QuietWork DEF MoveFails, CreateFails, CleanFails
      <4>6. ASSUME Move \/ Create \/ Clean PROVE phase' \in {"apply", "end"}
        BY <3>2, <4>6 DEF Move, Create, Clean, Goto, NextOfGroup, End
      <4> QED BY <1>3, <3>2, <4>1, <4>2, <4>3, <4>4, <4>5, <4>6 DEF Sync, Validate, Triage, Settle
    <3> QED BY <2>1, <3>1, <3>2 DEF Working, Phases
  <2>2. CASE ~Working
    <3>1. CASE phase \in {"triage", "settle"}
      <4>1. phase' = "end" \/ (UNCHANGED failure /\ faults' \in {faults, faults + 1})
        BY <1>3, <2>2, <3>1 DEF Sync, Validate, Check, Move, MoveFails, Look, Create, CreateFails, Clean, CleanFails,
           Triage, Settle, Alarm, Goto, End, Fault, Restored, Working, Phases
      <4> QED BY <1>0, <2>0, <3>1, <4>1
    <3>2. CASE phase = "validate"
      BY <1>3, <2>2, <3>2 DEF Sync, Validate, Check, Move, MoveFails, Look, Create, CreateFails, Clean, CleanFails,
           Triage, Settle, Alarm, End, Working, Phases
    <3> QED BY <1>3, <2>2, <3>1, <3>2 DEF Sync, Validate, Check, Move, MoveFails, Look, Create, CreateFails, Clean, CleanFails,
           Triage, Settle, Alarm, Working, Phases, GroupTypeOK, ControlOK
  <2> QED BY <2>1, <2>2
<1>4. ASSUME Sync \/ Alarm PROVE UNCHANGED user
  BY <1>4 DEF Sync, Validate, Check, Move, MoveFails, Look, Create, CreateFails, Clean, CleanFails,
     Triage, Settle, Alarm
<1>5. ASSUME Sync \/ Alarm PROVE QuietOK'
  BY <1>3, <1>4, <1>5 DEF QuietOK, Undisturbed, user
<1> QED BY <1>1, <1>2, <1>5 DEF GroupNext

-----------------------------------------------------------------------------
(* What the invariant says of the paths, and that each step keeps it *)

\* Whatever the phase, the invariant leaves each path recoverable.
LEMMA RecoverableNow ==
    ASSUME IInv
    PROVE  Recoverable
<1> USE DEF IInv
<1>1. CASE phase = "validate"
  BY <1>1 DEF PhaseOK, ValidateOK, Recoverable
<1>2. CASE phase \in {"apply", "triage"}
  <2> SUFFICES ASSUME NEW p \in Paths, Undisturbed(p)
               PROVE  fs[p] \in {before[p], after[p]} \/ guard["apply"][p] = before[p]
    BY DEF Recoverable, Phases
  <2>1. Applied /\ at \in Paths
    BY <1>2 DEF PhaseOK, ApplyOK, TriageOK, GroupTypeOK, ControlOK
  <2>2. CASE p # at
    <3>1. p \notin Changed \/ p > at \/ p < at
      BY <2>1, <2>2, PathsInt
    <3> QED BY <2>1, <3>1 DEF Applied
  <2>3. CASE p = at /\ phase = "apply"
    <3>1. GuardStep("apply", before[at]) /\ AtStep(before[at], after[at])
      BY <2>3 DEF PhaseOK, ApplyOK
    <3>2. step \in {"check", "move", "look", "create", "clean"}
      BY DEF GroupTypeOK, ControlOK
    <3> QED BY <2>3, <3>1, <3>2 DEF GuardStep, AtStep, Undisturbed
  <2>4. CASE p = at /\ phase = "triage"
    BY <2>4 DEF PhaseOK, TriageOK, Blames
  <2> QED BY <1>2, <2>2, <2>3, <2>4
<1>3. CASE phase = "undo"
  <2> SUFFICES ASSUME NEW p \in Paths, Undisturbed(p)
               PROVE  fs[p] \in {before[p], after[p]} \/ \E f \in Phases : guard[f][p] \in {before[p], after[p]}
    BY DEF Recoverable
  <2>1. UndoOK /\ at \in Paths
    BY <1>3 DEF PhaseOK, GroupTypeOK, ControlOK
  <2>2. CASE p # at
    <3>1. \/ p \in touched \ {at} /\ fs[p] = after[p]
          \/ p \notin touched /\ fs[p] = before[p]
          \/ p \notin touched /\ guard["apply"][p] = before[p]
      BY <2>1, <2>2 DEF UndoOK, OneGuarded
    <3> QED BY <3>1 DEF Phases
  <2>3. CASE p = at
    <3>1. GuardStep("undo", after[at]) /\ AtStep(after[at], before[at])
      BY <2>1, <2>3 DEF UndoOK
    <3>2. step \in {"check", "move", "look", "create", "clean"}
      BY DEF GroupTypeOK, ControlOK
    <3>3. fs[p] \in {before[p], after[p]} \/ guard["undo"][p] = after[p]
      BY <2>3, <3>1, <3>2 DEF GuardStep, AtStep, Undisturbed
    <3> QED BY <3>3 DEF Phases
  <2> QED BY <2>2, <2>3
<1>4. CASE phase = "settle"
  BY <1>4 DEF PhaseOK, SettleOK, OneGuarded, Recoverable, Phases
<1>5. CASE phase = "end"
  BY <1>5 DEF PhaseOK, EndOK
<1> QED BY <1>1, <1>2, <1>3, <1>4, <1>5 DEF GroupTypeOK, ControlOK

\* The invariant implies that the group is safe.
LEMMA Safe ==
    ASSUME IInv
    PROVE  GroupIsSafe
<1>1. Recoverable
  BY RecoverableNow
<1>2. UserFileSurvives
  BY DEF IInv, UserOK
<1>3. CASE phase = "end"
  BY <1>1, <1>2, <1>3 DEF GroupIsSafe, IInv, PhaseOK, EndOK
<1>4. CASE phase # "end"
  <2>1. result = "none"
    BY <1>4 DEF IInv, PhaseOK
  <2> QED BY <1>1, <1>2, <2>1 DEF GroupIsSafe, AllOrNothing, NoGuardStays, OneFaultIsUndone
<1> QED BY <1>3, <1>4

\* The user's edits disturb nothing but the path they are at.
LEMMA UserPhase ==
    ASSUME IInv, NEW e \in Paths, UserWrites(e) \/ UserDeletes(e) \/ UserAddsStray(e)
    PROVE  PhaseOK'
<1> USE DEF IInv
<1>1. /\ UNCHANGED <<before, after, guard, phase, step, at, touched, failure, result, faults>>
      /\ phase # "end"
  BY DEF UserWrites, UserDeletes, UserAddsStray, GroupEdit, plan
<1>2. \A p \in Paths : Undisturbed(p)' => Undisturbed(p) /\ fs'[p] = fs[p]
  BY DEF UserWrites, UserDeletes, UserAddsStray, Undisturbed, GroupTypeOK, DataOK
<1>3. \A p \in Paths : edited'[p] = "wrote" => fs'[p] = "user" \/ (edited[p] = "wrote" /\ fs'[p] = fs[p])
  BY DEF UserWrites, UserDeletes, UserAddsStray, GroupTypeOK, DataOK
<1>4. /\ Changed' = Changed /\ (\A p : Upto(p)' = Upto(p))
      /\ NoGuards("apply")' = NoGuards("apply") /\ NoGuards("undo")' = NoGuards("undo")
  BY <1>1 DEF Changed, Upto, NoGuards
<1>5. Applied => Applied'
  BY <1>1, <1>2, <1>4 DEF Applied
<1>6. OneGuarded => OneGuarded'
  BY <1>1, <1>2, <1>4 DEF OneGuarded
<1>7. CASE phase = "validate"
  BY <1>1, <1>2, <1>4, <1>7 DEF PhaseOK, ValidateOK
<1>8. CASE phase = "apply"
  <2>1. at \in Paths
    BY <1>8 DEF GroupTypeOK, ControlOK
  <2>2. ApplyOK
    BY <1>8 DEF PhaseOK
  <2>3. /\ GuardStep("apply", before[at]) => GuardStep("apply", before[at])'
        /\ Undisturbed(at)' /\ AtStep(before[at], after[at]) => AtStep(before[at], after[at])'
    BY <1>1, <1>2, <2>1 DEF GuardStep, AtStep, Undisturbed
  <2>4. ApplyOK'
    BY <1>1, <1>2, <1>4, <1>5, <2>1, <2>2, <2>3 DEF ApplyOK
  <2> QED BY <1>1, <1>8, <2>4 DEF PhaseOK
<1>9. CASE phase = "triage"
  <2>1. at \in Paths
    BY <1>9 DEF GroupTypeOK, ControlOK
  <2>2. TriageOK
    BY <1>9 DEF PhaseOK
  <2>3. Blames(failure)'
    BY <1>1, <1>2, <2>1, <2>2 DEF TriageOK, Blames
  <2>4. TriageOK'
    BY <1>1, <1>4, <1>5, <2>2, <2>3 DEF TriageOK
  <2> QED BY <1>1, <1>9, <2>4 DEF PhaseOK
<1>10. CASE phase = "undo"
  <2>1. at \in Paths /\ touched \subseteq Paths
    BY <1>10 DEF GroupTypeOK, ControlOK
  <2>2. UndoOK
    BY <1>10 DEF PhaseOK
  <2>3. /\ GuardStep("undo", after[at]) => GuardStep("undo", after[at])'
        /\ Undisturbed(at)' /\ AtStep(after[at], before[at]) => AtStep(after[at], before[at])'
    BY <1>1, <1>2, <2>1 DEF GuardStep, AtStep, Undisturbed
  <2>4. UndoOK'
    BY <1>1, <1>2, <1>4, <1>6, <2>1, <2>2, <2>3 DEF UndoOK
  <2> QED BY <1>1, <1>10, <2>4 DEF PhaseOK
<1>11. CASE phase = "settle"
  <2>1. SettleOK
    BY <1>11 DEF PhaseOK
  <2>2. SettleOK'
    BY <1>1, <1>2, <1>3, <1>4, <1>6, <2>1 DEF SettleOK
  <2> QED BY <1>1, <1>11, <2>2 DEF PhaseOK
<1> QED BY <1>1, <1>7, <1>8, <1>9, <1>10, <1>11 DEF GroupTypeOK, ControlOK

\* A group that is given up where it stands.
LEMMA GivesUp ==
    ASSUME IInv, NEW res \in {"timed_out", "rollback_failed"}, End(res),
           UNCHANGED <<before, after, guard, edited, groupEdits>>,
           UNCHANGED fs \/ (Working /\ fs' = [fs EXCEPT ![at] = Target]),
           res = "rollback_failed" /\ groupEdits = 0 => faults' >= IF failure.fatal THEN 1 ELSE 2
    PROVE  PhaseOK'
<1>1. Recoverable
  BY RecoverableNow
<1>2. Recoverable'
  <2>1. CASE UNCHANGED fs
    BY <1>1, <2>1 DEF Recoverable, Undisturbed
  <2>2. CASE Working /\ fs' = [fs EXCEPT ![at] = Target]
    <3>1. Target \in {before[at], after[at]} /\ at \in Paths
      BY <2>2, AtWork
    <3> QED BY <1>1, <2>2, <3>1 DEF Recoverable, Undisturbed, IInv, GroupTypeOK, DataOK
  <2> QED BY <2>1, <2>2
<1>3. phase' = "end" /\ result' = res /\ failure' = failure
  BY DEF End
<1>4. groupEdits' \in Nat
  BY DEF IInv, GroupTypeOK, DataOK
<1>5. AllOrNothing' /\ NoGuardStays' /\ OneFaultIsUndone'
  BY <1>3, <1>4 DEF AllOrNothing, NoGuardStays, OneFaultIsUndone
<1> QED BY <1>2, <1>3, <1>5 DEF PhaseOK, EndOK

\* An exception of the application.
LEMMA ApplyRaises ==
    ASSUME IInv, phase = "apply", ControlOK',
           NEW kind, NEW transitioned, NEW fatal, Raise(kind, transitioned, fatal),
           UNCHANGED <<before, after, guard, edited>>,
           UNCHANGED fs \/ fs' = [fs EXCEPT ![at] = Target],
           Blames(failure)'
    PROVE  PhaseOK'
<1>1. phase' = "triage" /\ UNCHANGED <<step, at, touched, result>>
  BY DEF Raise
<1>2. ApplyOK /\ result = "none" /\ at \in Paths
  BY DEF IInv, PhaseOK, GroupTypeOK, ControlOK
<1>3. Changed' = Changed /\ (\A p : Upto(p)' = Upto(p))
  BY DEF Changed, Upto
<1>4. \A p \in Paths \ {at} : fs'[p] = fs[p]
  BY <1>2 DEF IInv, GroupTypeOK, DataOK
<1>5. Applied'
  <2>1. \A p \in Paths : p < at \/ p > at => p # at
    BY <1>2, PathsInt
  <2>2. at \in Changed
    BY <1>2 DEF ApplyOK
  <2> QED BY <1>1, <1>2, <1>3, <1>4, <2>1, <2>2 DEF ApplyOK, Applied, Undisturbed
<1>6. TriageOK'
  BY <1>1, <1>2, <1>3, <1>5 DEF ApplyOK, TriageOK, NoGuards
<1> QED BY <1>1, <1>2, <1>6 DEF PhaseOK

\* The application is through with a path.
LEMMA ApplyGoesOn ==
    ASSUME IInv, phase = "apply", NextOfGroup,
           UNCHANGED <<before, after, edited>>,
           NoGuards("apply")', NoGuards("undo")',
           \A p \in Paths \ {at} : fs'[p] = fs[p],
           Undisturbed(at) => fs'[at] = after[at]
    PROVE  PhaseOK'
<1> DEFINE rest == {p \in Changed : p > at}
<1>1. ApplyOK /\ result = "none" /\ at \in Paths /\ at \in Changed
  BY DEF IInv, PhaseOK, GroupTypeOK, ControlOK, ApplyOK
<1>2. Changed' = Changed /\ (\A p : Upto(p)' = Upto(p)) /\ (\A p : Undisturbed(p)' = Undisturbed(p))
  BY DEF Changed, Upto, Undisturbed
<1>3. \A p \in Paths : p \in Changed \/ before[p] = after[p]
  BY DEF Changed
<1>4. CASE rest = {}
  <2>1. phase' = "end" /\ result' = "applied"
    BY <1>4 DEF NextOfGroup, End
  <2>2. ASSUME NEW p \in Paths, Undisturbed(p) PROVE fs'[p] = after[p]
    <3>1. CASE p = at
      BY <2>2, <3>1
    <3>2. CASE p # at /\ p \in Changed
      <4>1. p < at
        BY <1>1, <1>4, <3>2, PathsInt
      <4> QED BY <1>1, <2>2, <3>2, <4>1 DEF ApplyOK, Applied
    <3>3. CASE p # at /\ p \notin Changed
      BY <1>1, <1>3, <2>2, <3>3 DEF ApplyOK, Applied
    <3> QED BY <3>1, <3>2, <3>3
  <2>3. AllOrNothing' /\ Recoverable'
    BY <1>2, <2>1, <2>2 DEF AllOrNothing, Recoverable
  <2>4. NoGuardStays' /\ OneFaultIsUndone'
    BY <2>1 DEF NoGuardStays, OneFaultIsUndone, Guards, NoGuards, Phases
  <2> QED BY <2>1, <2>3, <2>4 DEF PhaseOK, EndOK
<1>5. CASE rest # {}
  <2>1. rest \in SUBSET Paths
    BY DEF Changed
  <2>2. Least(rest) \in rest /\ \A q \in rest : Least(rest) <= q
    <3> HIDE DEF rest
    <3> QED BY <1>5, <2>1, LeastIs
  <2>3. /\ at' = Least(rest) /\ step' = "check" /\ touched' = touched \cup {at'}
        /\ phase' = "apply" /\ result' = "none"
    BY <1>1, <1>5 DEF NextOfGroup
  <2>4. at' \in Paths /\ at' \in Changed /\ at' > at /\ \A q \in Changed : q > at => at' <= q
    BY <2>1, <2>2, <2>3
  <2> HIDE DEF rest
  <2>5. touched' = Upto(at')
    <3>1. touched = Upto(at)
      BY <1>1 DEF ApplyOK
    <3>2. \A q \in Changed : q <= at' <=> q <= at \/ q = at'
      <4>1. Changed \subseteq Int /\ at \in Int /\ at' \in Int
        BY <1>1, <2>4, PathsInt DEF Changed
      <4> QED BY <2>4, <4>1
    <3> QED BY <2>3, <2>4, <3>1, <3>2 DEF Upto
  <2>6. \A p \in Paths : Undisturbed(p) =>
            /\ p \notin Changed \/ p > at => fs'[p] = before[p]
            /\ p \in Changed /\ p <= at => fs'[p] = after[p]
    <3>1. \A p \in Paths : p <= at => p < at \/ p = at
      BY <1>1, PathsInt
    <3>2. \A p \in Paths : p > at => p # at
      BY <1>1, PathsInt
    <3> QED BY <1>1, <3>1, <3>2 DEF ApplyOK, Applied
  <2>7. Applied'
    <3> SUFFICES ASSUME NEW p \in Paths, Undisturbed(p)
                 PROVE  /\ p \notin Changed \/ p > at' => fs'[p] = before[p]
                        /\ p \in Changed /\ p < at' => fs'[p] = after[p]
      BY <1>2 DEF Applied
    <3>1. p > at' => p > at
      BY <1>1, <2>4, PathsInt
    <3>2. p \in Changed /\ p < at' => p <= at
      BY <1>1, <2>4, PathsInt
    <3> QED BY <2>6, <3>1, <3>2
  <2>8. Undisturbed(at') => fs'[at'] = before[at']
    BY <2>4, <2>6
  <2>9. ApplyOK'
    BY <1>2, <2>3, <2>4, <2>5, <2>7, <2>8 DEF ApplyOK, NoGuards, GuardStep, AtStep
  <2> QED BY <2>3, <2>9 DEF PhaseOK
<1> QED BY <1>4, <1>5

\* The undoing is through with a path.
LEMMA UndoGoesOn ==
    ASSUME IInv, phase = "undo", NextOfGroup,
           UNCHANGED <<before, after, edited>>,
           guard'["apply"] = guard["apply"], NoGuards("undo")',
           \A p \in Paths \ {at} : fs'[p] = fs[p],
           Undisturbed(at) => fs'[at] = before[at]
    PROVE  PhaseOK'
<1> DEFINE rest == touched \ {at}
<1>1. UndoOK /\ result = "none" /\ at \in Paths /\ at \in Changed /\ touched = Upto(at) /\ touched \subseteq Paths
  BY DEF IInv, PhaseOK, GroupTypeOK, ControlOK, UndoOK
<1>2. Changed' = Changed /\ (\A p : Upto(p)' = Upto(p)) /\ (\A p : Undisturbed(p)' = Undisturbed(p))
  BY DEF Changed, Upto, Undisturbed
<1>3. OneGuarded'
  BY <1>1, <1>2 DEF UndoOK, OneGuarded
<1>4. at \in touched
  BY <1>1, PathsInt DEF Upto
<1>5. \A p \in Paths : Undisturbed(p) =>
        /\ p \in rest => fs'[p] = after[p]
        /\ p \notin rest => \/ fs'[p] = before[p]
                            \/ fs'[p] = "absent" /\ guard'["apply"][p] # NoState
  BY <1>1, <1>4 DEF UndoOK
<1>6. CASE rest = {}
  <2>1. phase' = "settle" /\ step' = "create" /\ result' = "none"
    BY <1>1, <1>6 DEF NextOfGroup
  <2>2. SettleOK'
    BY <1>2, <1>3, <1>5, <1>6, <2>1 DEF SettleOK, NoGuards
  <2> QED BY <2>1, <2>2 DEF PhaseOK
<1>7. CASE rest # {}
  <2>1. rest \in SUBSET Paths
    BY <1>1
  <2>2. Greatest(rest) \in rest /\ \A q \in rest : Greatest(rest) >= q
    <3> HIDE DEF rest
    <3> QED BY <1>7, <2>1, GreatestIs
  <2>3. /\ at' = Greatest(rest) /\ step' = "check" /\ touched' = rest
        /\ phase' = "undo" /\ result' = "none"
    BY <1>1, <1>7 DEF NextOfGroup
  <2>4. at' \in Paths /\ at' \in Changed /\ at' \in rest /\ \A q \in rest : q <= at'
    <3>1. rest \subseteq Changed /\ rest \subseteq Int
      BY <1>1, <2>1, PathsInt DEF Upto
    <3> HIDE DEF rest
    <3> QED BY <2>1, <2>2, <2>3, <3>1
  <2>5. touched' = Upto(at')
    <3>1. Changed \subseteq Int /\ at \in Int /\ at' \in Int
      BY <1>1, <2>4, PathsInt DEF Changed
    <3>2. \A q \in rest : q <= at'
      BY <2>4
    <3>3. at' < at
      BY <1>1, <2>4, <3>1 DEF Upto
    <3>4. \A q \in Changed : q <= at' => q <= at /\ q # at
      BY <3>1, <3>3
    <3>5. Upto(at') \subseteq rest
      BY <1>1, <3>4 DEF Upto
    <3>6. rest \subseteq Upto(at')
      BY <1>1, <3>2 DEF Upto
    <3> QED BY <2>3, <3>5, <3>6
  <2> HIDE DEF rest
  <2>6. Undisturbed(at') => fs'[at'] = after[at']
    BY <1>5, <2>4
  <2>7. \A p \in touched' : guard'["apply"][p] # "user"
    BY <1>1, <2>3 DEF UndoOK, rest
  <2>8. UndoOK'
    BY <1>2, <1>3, <1>5, <2>3, <2>4, <2>5, <2>6, <2>7 DEF UndoOK, NoGuards, GuardStep, AtStep
  <2> QED BY <2>3, <2>8 DEF PhaseOK
<1> QED BY <1>6, <1>7

\* One path goes on to its next step.
LEMMA GoesOn ==
    ASSUME IInv, Working, NEW s, Goto(s),
           UNCHANGED <<before, after, edited>>,
           \A p \in Paths \ {at} : fs'[p] = fs[p] /\ \A f \in Phases : guard'[f][p] = guard[f][p],
           \A f \in Phases \ {phase} : guard'[f][at] = guard[f][at],
           GuardStep(phase, Expected)',
           Undisturbed(at) => AtStep(Expected, Target)'
    PROVE  PhaseOK'
<1>1. UNCHANGED <<phase, at, touched, failure, result>>
  BY DEF Goto
<1>2. at \in Paths /\ result = "none" /\ Paths \subseteq Int
  BY AtWork, PathsInt DEF IInv, PhaseOK, Working, Phases
<1>3. Changed' = Changed /\ (\A p : Upto(p)' = Upto(p)) /\ (\A p : Undisturbed(p)' = Undisturbed(p))
  BY DEF Changed, Upto, Undisturbed
<1>4. CASE phase = "apply"
  <2>1. ApplyOK
    BY <1>4 DEF IInv, PhaseOK
  <2>2. NoGuards("undo")' /\ \A p \in Paths \ {at} : guard'["apply"][p] = NoState
    <3>1. \A p \in Paths : guard'["undo"][p] = guard["undo"][p]
      BY <1>4, <1>2 DEF Phases
    <3> QED BY <2>1, <3>1 DEF ApplyOK, NoGuards, Phases
  <2>3. Applied'
    <3>1. \A p \in Paths : p < at \/ p > at => p # at
      BY <1>2
    <3>2. at \in Changed
      BY <2>1 DEF ApplyOK
    <3> QED BY <1>1, <1>3, <2>1, <3>1, <3>2 DEF ApplyOK, Applied
  <2>4. GuardStep("apply", before[at])' /\ (Undisturbed(at) => AtStep(before[at], after[at])')
    BY <1>1, <1>4 DEF Expected, Target
  <2>5. ApplyOK'
    BY <1>1, <1>3, <2>1, <2>2, <2>3, <2>4 DEF ApplyOK
  <2> QED BY <1>1, <1>2, <1>4, <2>5 DEF PhaseOK
<1>5. CASE phase = "undo"
  <2>1. UndoOK /\ touched \subseteq Paths /\ at \in touched
    BY <1>5, AtWork DEF IInv, PhaseOK, GroupTypeOK, ControlOK
  <2>2. \A p \in Paths : guard'["apply"][p] = guard["apply"][p]
    BY <1>5, <1>2 DEF Phases
  <2>3. OneGuarded'
    BY <1>3, <2>1, <2>2 DEF UndoOK, OneGuarded
  <2>4. \A p \in Paths \ {at} : guard'["undo"][p] = NoState
    BY <2>1 DEF UndoOK, Phases
  <2>5. GuardStep("undo", after[at])' /\ (Undisturbed(at) => AtStep(after[at], before[at])')
    BY <1>1, <1>5 DEF Expected, Target
  <2>6. \A p \in Paths : Undisturbed(p)' =>
        /\ p \in touched' \ {at'} => fs'[p] = after'[p]
        /\ p \notin touched' => \/ fs'[p] = before'[p]
                                \/ fs'[p] = "absent" /\ guard'["apply"][p] # NoState
    BY <1>1, <1>3, <2>1, <2>2 DEF UndoOK
  <2>7. UndoOK'
    BY <1>1, <1>3, <2>1, <2>2, <2>3, <2>4, <2>5, <2>6 DEF UndoOK
  <2> QED BY <1>1, <1>2, <1>5, <2>7 DEF PhaseOK
<1> QED BY <1>4, <1>5 DEF Working, Phases

\* An exception while undoing leaves the rest as it is.
LEMMA UndoRaises ==
    ASSUME IInv, phase = "undo",
           NEW kind, NEW transitioned, NEW fatal, Raise(kind, transitioned, fatal),
           UNCHANGED <<before, after, guard, edited, groupEdits>>,
           UNCHANGED fs \/ fs' = [fs EXCEPT ![at] = Target],
           groupEdits = 0 => Fault
    PROVE  PhaseOK'
<1>1. End("rollback_failed") /\ Working
  BY DEF Raise, Working, Phases
<1>2. groupEdits = 0 => (failure.fatal \/ faults >= 1)
  BY DEF IInv, QuietOK
<1>3. faults \in Nat
  BY DEF IInv, GroupTypeOK, DataOK
<1>4. groupEdits = 0 => faults' >= IF failure.fatal THEN 1 ELSE 2
  BY <1>2, <1>3 DEF Fault
<1> QED BY <1>1, <1>4, GivesUp

\* Every step leaves the paths as its phase, or the next one, has them: the
\* check.
LEMMA CheckPhase == ASSUME IInv, ControlOK', Check PROVE PhaseOK'
<1>1. Working /\ step = "check" /\ UNCHANGED <<before, after, fs, guard, stray, edited, groupEdits, faults>>
  BY DEF Check, plan, user
<1>2. GuardStep(phase, Expected) /\ at \in Paths /\ (Undisturbed(at) => AtStep(Expected, Target)) /\ at \in Changed
  BY <1>1, AtWork
<1>3. CASE ~Reachable(at) \/ fs[at] # Expected
  <2>1. Raise("state_changed", FALSE, FALSE)
    BY <1>3 DEF Check
  <2>2. CASE phase = "apply"
    <3>1. Blames(failure)'
      BY <1>1, <1>2, <2>1, <2>2 DEF Raise, Blames, GuardStep, AtStep, Undisturbed, Expected
    <3> QED BY <1>1, <2>1, <2>2, <3>1, ApplyRaises
  <2>3. CASE phase = "undo"
    <3>1. groupEdits # 0
      BY <1>1, <1>3, QuietWork
    <3> QED BY <1>1, <2>1, <2>3, <3>1, UndoRaises
  <2> QED BY <1>1, <2>2, <2>3 DEF Working, Phases
<1>4. CASE Reachable(at) /\ fs[at] = Expected
  <2>1. \/ Goto("create") /\ Expected = "absent"
        \/ Goto("move") /\ Expected # "absent"
    BY <1>4 DEF Check
  <2>2. UNCHANGED <<phase, at>> /\ Expected' = Expected /\ Target' = Target
    BY <1>1, <2>1 DEF Goto, Expected, Target
  <2>3. guard[phase][at] = NoState /\ step' \in {"create", "move"} /\ (step' = "create" <=> Expected = "absent")
    BY <1>1, <1>2, <2>1 DEF Goto, GuardStep
  <2>4. GuardStep(phase, Expected)' /\ AtStep(Expected, Target)'
    BY <1>1, <1>4, <2>2, <2>3 DEF GuardStep, AtStep
  <2> QED BY <1>1, <2>1, <2>4, GoesOn
<1> QED BY <1>3, <1>4

\* The same of the move to the guard name.
LEMMA MovePhase == ASSUME IInv, Move PROVE PhaseOK'
<1>1. /\ Working /\ step = "move" /\ UNCHANGED <<before, after, stray, edited, groupEdits, faults>>
      /\ fs[at] # "absent" /\ Goto("look")
      /\ guard' = [guard EXCEPT ![phase][at] = fs[at]]
      /\ fs' = [fs EXCEPT ![at] = "absent"]
  BY DEF Move, plan, user
<1>2. /\ GuardStep(phase, Expected) /\ at \in Paths /\ (Undisturbed(at) => AtStep(Expected, Target))
      /\ phase \in Phases
  BY <1>1, AtWork DEF Working
<1>3. DataOK
  BY DEF IInv, GroupTypeOK
<1>4. /\ \A p \in Paths \ {at} : fs'[p] = fs[p] /\ \A f \in Phases : guard'[f][p] = guard[f][p]
      /\ \A f \in Phases \ {phase} : guard'[f][at] = guard[f][at]
      /\ fs'[at] = "absent" /\ guard'[phase][at] = fs[at] /\ fs[at] \in States
  BY <1>1, <1>2, <1>3 DEF DataOK
<1>5. /\ UNCHANGED <<phase, at>> /\ step' = "look" /\ Expected' = Expected /\ Target' = Target
      /\ Undisturbed(at)' = Undisturbed(at)
  BY <1>1 DEF Goto, Expected, Target, Undisturbed
<1>6. GuardStep(phase, Expected)'
  BY <1>1, <1>2, <1>4, <1>5 DEF GuardStep, AtStep, States, NoState, Undisturbed
<1>7. AtStep(Expected, Target)'
  BY <1>4, <1>5 DEF AtStep
<1> QED BY <1>1, <1>4, <1>6, <1>7, GoesOn

\* The same of a move that fails.
LEMMA MoveFailsPhase == ASSUME IInv, ControlOK', MoveFails PROVE PhaseOK'
<1>1. /\ Working /\ step = "move" /\ UNCHANGED <<before, after, fs, guard, stray, edited, groupEdits>>
      /\ Raise("os_error", FALSE, FALSE)
  BY DEF MoveFails, plan, user
<1>2. GuardStep(phase, Expected) /\ at \in Paths /\ (Undisturbed(at) => AtStep(Expected, Target)) /\ at \in Changed
  BY <1>1, AtWork
<1>3. CASE phase = "apply"
  <2>1. Blames(failure)'
    BY <1>1, <1>2, <1>3 DEF Raise, Blames, GuardStep, AtStep, Undisturbed, Expected
  <2> QED BY <1>1, <1>3, <2>1, ApplyRaises
<1>4. CASE phase = "undo"
  <2>1. groupEdits = 0 => Fault
    BY <1>1, QuietWork DEF MoveFails
  <2> QED BY <1>1, <1>4, <2>1, UndoRaises
<1> QED BY <1>1, <1>3, <1>4 DEF Working, Phases

\* The same of the look at what was moved.
LEMMA LookPhase == ASSUME IInv, ControlOK', Look PROVE PhaseOK'
<1>1. Working /\ step = "look" /\ UNCHANGED <<before, after, fs, guard, stray, edited, groupEdits, faults>>
  BY DEF Look, plan, user
<1>2. GuardStep(phase, Expected) /\ at \in Paths /\ (Undisturbed(at) => AtStep(Expected, Target)) /\ at \in Changed
  BY <1>1, AtWork
<1>3. CASE guard[phase][at] # Expected
  <2>1. Raise("guard_apply", FALSE, FALSE) /\ edited[at] # "none"
    BY <1>1, <1>2, <1>3 DEF Look, GuardStep
  <2>2. CASE phase = "apply"
    <3>0. Expected = before[at] /\ before[at] = "old"
      BY <1>1, <1>2, <2>2 DEF Expected, GuardStep, IInv, PlanOK
    <3>1. Blames(failure)'
      BY <1>1, <1>2, <2>1, <2>2, <3>0 DEF Raise, Blames, GuardStep, Undisturbed
    <3> QED BY <1>1, <2>1, <2>2, <3>1, ApplyRaises
  <2>3. CASE phase = "undo"
    <3>1. groupEdits # 0
      BY <1>1, <1>3, QuietWork
    <3> QED BY <1>1, <2>1, <2>3, <3>1, UndoRaises
  <2> QED BY <1>1, <2>2, <2>3 DEF Working, Phases
<1>4. CASE guard[phase][at] = Expected
  <2>1. Goto("create")
    BY <1>4 DEF Look
  <2>2. UNCHANGED <<phase, at>> /\ step' = "create" /\ Expected' = Expected /\ Target' = Target
    BY <1>1, <2>1 DEF Goto, Expected, Target
  <2>3. GuardStep(phase, Expected)'
    BY <1>1, <1>2, <1>4, <2>2 DEF GuardStep
  <2>4. Undisturbed(at) => AtStep(Expected, Target)'
    BY <1>1, <1>2, <2>2 DEF AtStep
  <2> QED BY <1>1, <2>1, <2>3, <2>4, GoesOn
<1> QED BY <1>3, <1>4

\* The same of the creation of the candidate.
LEMMA CreatePhase == ASSUME IInv, Create PROVE PhaseOK'
<1>1. /\ Working /\ step = "create" /\ UNCHANGED <<before, after, guard, stray, edited, groupEdits, faults>>
      /\ Target = "absent" \/ fs[at] = "absent"
      /\ fs' = IF Target = "absent" THEN fs ELSE [fs EXCEPT ![at] = Target]
      /\ IF Expected = "absent" THEN NextOfGroup ELSE Goto("clean")
  BY DEF Create, plan, user
<1>2. /\ GuardStep(phase, Expected) /\ at \in Paths /\ (Undisturbed(at) => AtStep(Expected, Target)) /\ at \in Changed
      /\ phase \in Phases
  BY <1>1, AtWork DEF Working
<1>3. DataOK
  BY DEF IInv, GroupTypeOK
<1>4. /\ \A p \in Paths \ {at} : fs'[p] = fs[p]
      /\ Undisturbed(at) => fs'[at] = Target
  BY <1>1, <1>2, <1>3 DEF DataOK, AtStep
<1>5. CASE Expected = "absent"
  <2>1. guard[phase][at] = NoState /\ NextOfGroup
    BY <1>1, <1>2, <1>5 DEF GuardStep
  <2>2. CASE phase = "apply"
    <3>1. NoGuards("apply")' /\ NoGuards("undo")'
      BY <1>1, <2>1, <2>2, AtWork DEF NoGuards
    <3> QED BY <1>1, <1>4, <2>1, <2>2, <3>1, ApplyGoesOn DEF Target
  <2>3. CASE phase = "undo"
    <3>1. UndoOK
      BY <2>3 DEF IInv, PhaseOK
    <3>2. NoGuards("undo")' /\ guard'["apply"] = guard["apply"]
      BY <1>1, <2>1, <2>3, <3>1 DEF NoGuards, UndoOK
    <3> QED BY <1>1, <1>4, <2>1, <2>3, <3>2, UndoGoesOn DEF Target
  <2> QED BY <1>2, <2>2, <2>3 DEF Phases
<1>6. CASE Expected # "absent"
  <2>1. UNCHANGED <<phase, at>> /\ step' = "clean" /\ Goto("clean") /\ Expected' = Expected /\ Target' = Target
    BY <1>1, <1>6 DEF Goto, Expected, Target
  <2>2. GuardStep(phase, Expected)'
    BY <1>1, <1>2, <1>6, <2>1 DEF GuardStep, NoState
  <2>3. Undisturbed(at) => AtStep(Expected, Target)'
    BY <1>4, <2>1 DEF AtStep
  <2> QED BY <1>1, <1>2, <1>4, <2>1, <2>2, <2>3, GoesOn
<1> QED BY <1>5, <1>6

\* The creation beside a guard fails, before or after the candidate is there.
LEMMA CreationBlames ==
    ASSUME IInv, phase = "apply", step = "create", NEW kind, NEW transitioned, NEW fatal, Raise(kind, transitioned, fatal),
           UNCHANGED <<before, after, guard, edited>>,
           UNCHANGED fs \/ fs' = [fs EXCEPT ![at] = Target],
           kind = (IF Expected = "absent" THEN "os_error" ELSE "guard_apply")
             \/ (kind = "state_changed" /\ Expected = "absent" /\ fs[at] # "absent" /\ UNCHANGED fs),
           Expected # "absent" => (transitioned <=> fs' # fs),
           transitioned \in BOOLEAN
    PROVE  Blames(failure)'
<1>1. Working
  BY DEF Working, Phases
<1>2. /\ GuardStep("apply", before[at]) /\ at \in Paths /\ at \in Changed /\ Expected = before[at] /\ Target = after[at]
      /\ Undisturbed(at) => AtStep(before[at], after[at])
  BY <1>1, AtWork DEF Expected, Target
<1>3. failure' = [kind |-> kind, transitioned |-> transitioned, fatal |-> fatal] /\ at' = at
  BY DEF Raise
<1>4. guard["apply"][at] = (IF before[at] = "absent" THEN NoState ELSE before[at]) /\ (Undisturbed(at) => fs[at] = "absent")
  BY <1>2 DEF GuardStep, AtStep
<1>5. before[at] = "absent" \/ before[at] = "old"
  BY <1>2 DEF IInv, PlanOK
<1>6. fs' = fs \/ fs'[at] = after[at]
  BY <1>2 DEF IInv, GroupTypeOK, DataOK
<1>7. Undisturbed(at)' = Undisturbed(at)
  BY <1>3 DEF Undisturbed
<1>8. CASE Expected = "absent"
  BY <1>2, <1>3, <1>4, <1>5, <1>6, <1>7, <1>8 DEF Blames
<1>9. CASE Expected # "absent"
  BY <1>2, <1>3, <1>4, <1>5, <1>6, <1>7, <1>9 DEF Blames, NoState
<1> QED BY <1>8, <1>9

\* The same of a creation that fails.
LEMMA CreateFailsPhase == ASSUME IInv, ControlOK', CreateFails PROVE PhaseOK'
<1>1. /\ Working /\ step = "create" /\ Target # "absent" /\ UNCHANGED <<before, after, guard, stray, edited, groupEdits>>
  BY DEF CreateFails, plan, user
<1>2. at \in Paths /\ DataOK
  BY <1>1, AtWork DEF IInv, GroupTypeOK
<1>3. CASE phase = "apply"
  <2>1. CASE /\ fs[at] # "absent" /\ Raise(IF Expected = "absent" THEN "state_changed" ELSE "guard_apply", FALSE, FALSE)
             /\ UNCHANGED fs
    <3>1. CASE Expected = "absent"
      <4>1. Raise("state_changed", FALSE, FALSE)
        BY <2>1, <3>1
      <4>2. Blames(failure)'
        BY <1>1, <1>3, <2>1, <3>1, <4>1, CreationBlames
      <4> QED BY <1>1, <1>3, <2>1, <4>1, <4>2, ApplyRaises
    <3>2. CASE Expected # "absent"
      <4>1. Raise("guard_apply", FALSE, FALSE)
        BY <2>1, <3>2
      <4>2. Blames(failure)'
        BY <1>1, <1>3, <2>1, <3>2, <4>1, CreationBlames
      <4> QED BY <1>1, <1>3, <2>1, <4>1, <4>2, ApplyRaises
    <3> QED BY <3>1, <3>2
  <2>2. CASE UNCHANGED fs /\ Raise(IF Expected = "absent" THEN "os_error" ELSE "guard_apply", FALSE, FALSE)
    <3>1. CASE Expected = "absent"
      <4>1. Raise("os_error", FALSE, FALSE)
        BY <2>2, <3>1
      <4>2. Blames(failure)'
        BY <1>1, <1>3, <2>2, <3>1, <4>1, CreationBlames
      <4> QED BY <1>1, <1>3, <2>2, <4>1, <4>2, ApplyRaises
    <3>2. CASE Expected # "absent"
      <4>1. Raise("guard_apply", FALSE, FALSE)
        BY <2>2, <3>2
      <4>2. Blames(failure)'
        BY <1>1, <1>3, <2>2, <3>2, <4>1, CreationBlames
      <4> QED BY <1>1, <1>3, <2>2, <4>1, <4>2, ApplyRaises
    <3> QED BY <3>1, <3>2
  <2>3. CASE /\ fs[at] = "absent" /\ fs' = [fs EXCEPT ![at] = Target]
             /\ Raise(IF Expected = "absent" THEN "os_error" ELSE "guard_apply", Expected # "absent", FALSE)
    <3>0. fs' # fs
      BY <1>1, <1>2, <2>3 DEF DataOK
    <3>1. CASE Expected = "absent"
      <4>1. Raise("os_error", FALSE, FALSE)
        BY <2>3, <3>1
      <4>2. Blames(failure)'
        BY <1>1, <1>3, <2>3, <3>1, <4>1, CreationBlames
      <4> QED BY <1>1, <1>3, <2>3, <4>1, <4>2, ApplyRaises
    <3>2. CASE Expected # "absent"
      <4>1. Raise("guard_apply", TRUE, FALSE)
        BY <2>3, <3>2
      <4>2. Blames(failure)'
        BY <1>1, <1>3, <2>3, <3>0, <3>2, <4>1, CreationBlames
      <4> QED BY <1>1, <1>3, <2>3, <4>1, <4>2, ApplyRaises
    <3> QED BY <3>1, <3>2
  <2> QED BY <2>1, <2>2, <2>3 DEF CreateFails
<1>4. CASE phase = "undo"
  <2>1. groupEdits = 0 => Fault
    BY <1>1, QuietWork DEF CreateFails
  <2>2. UNCHANGED fs \/ fs' = [fs EXCEPT ![at] = Target]
    BY DEF CreateFails
  <2>3. End("rollback_failed")
    BY <1>4 DEF CreateFails, Raise
  <2>4. Raise("os_error", FALSE, FALSE)
    BY <1>4, <2>3 DEF Raise
  <2> QED BY <1>1, <1>4, <2>1, <2>2, <2>4, UndoRaises
<1> QED BY <1>1, <1>3, <1>4 DEF Working, Phases

\* The same of the alarm.
LEMMA AlarmPhase == ASSUME IInv, ControlOK', Alarm PROVE PhaseOK'
<1>1. UNCHANGED <<before, after, guard, stray, edited, groupEdits>>
  BY DEF Alarm, plan, user
<1>2. CASE phase = "apply" /\ step = "create" /\ Expected # "absent" /\ Target # "absent"
  <2>0. Working
    BY <1>2 DEF Working, Phases
  <2>1. at \in Paths /\ DataOK
    BY <2>0, AtWork DEF IInv, GroupTypeOK
  <2>2. CASE Raise("guard_apply", FALSE, TRUE) /\ UNCHANGED fs
    <3>1. Blames(failure)'
      BY <1>1, <1>2, <2>2, CreationBlames
    <3> QED BY <1>1, <1>2, <2>2, <3>1, ApplyRaises
  <2>3. CASE fs[at] = "absent" /\ fs' = [fs EXCEPT ![at] = Target] /\ Raise("guard_apply", TRUE, TRUE)
    <3>1. fs' # fs
      BY <1>2, <2>1, <2>3 DEF DataOK
    <3>2. Blames(failure)'
      BY <1>1, <1>2, <2>3, <3>1, CreationBlames
    <3> QED BY <1>1, <1>2, <2>3, <3>2, ApplyRaises
  <2> QED BY <1>2, <2>2, <2>3 DEF Alarm
<1>3. CASE ~(phase = "apply" /\ step = "create" /\ Expected # "absent" /\ Target # "absent")
  <2>1. End("timed_out") /\ UNCHANGED fs
    BY <1>3 DEF Alarm
  <2> QED BY <1>1, <2>1, GivesUp
<1> QED BY <1>2, <1>3

\* The same of the removal of the guard.
LEMMA CleanPhase == ASSUME IInv, Clean PROVE PhaseOK'
<1>1. /\ Working /\ step = "clean" /\ UNCHANGED <<before, after, fs, stray, edited, groupEdits, faults>>
      /\ guard' = [guard EXCEPT ![phase][at] = NoState] /\ NextOfGroup
  BY DEF Clean, plan, user
<1>2. /\ GuardStep(phase, Expected) /\ at \in Paths /\ (Undisturbed(at) => AtStep(Expected, Target)) /\ at \in Changed
      /\ phase \in Phases
  BY <1>1, AtWork DEF Working
<1>3. Undisturbed(at) => fs'[at] = Target
  BY <1>1, <1>2 DEF AtStep
<1>4. DataOK
  BY DEF IInv, GroupTypeOK
<1>5. /\ \A p \in Paths \ {at} : guard'[phase][p] = guard[phase][p]
      /\ guard'[phase][at] = NoState
      /\ \A f \in Phases \ {phase} : guard'[f] = guard[f]
  BY <1>1, <1>2, <1>4 DEF DataOK
<1>6. CASE phase = "apply"
  <2>1. ApplyOK
    BY <1>6 DEF IInv, PhaseOK
  <2>2. NoGuards("apply")' /\ NoGuards("undo")'
    BY <1>5, <1>6, <2>1 DEF NoGuards, ApplyOK, Phases
  <2> QED BY <1>1, <1>3, <1>6, <2>2, ApplyGoesOn DEF Target
<1>7. CASE phase = "undo"
  <2>1. UndoOK
    BY <1>7 DEF IInv, PhaseOK
  <2>2. NoGuards("undo")' /\ guard'["apply"] = guard["apply"]
    BY <1>5, <1>7, <2>1 DEF NoGuards, UndoOK, Phases
  <2> QED BY <1>1, <1>3, <1>7, <2>2, UndoGoesOn DEF Target
<1> QED BY <1>2, <1>6, <1>7 DEF Phases

\* The same of a removal that fails.
LEMMA CleanFailsPhase == ASSUME IInv, ControlOK', CleanFails PROVE PhaseOK'
<1>1. /\ Working /\ step = "clean" /\ UNCHANGED <<before, after, fs, guard, stray, edited, groupEdits>>
      /\ Raise("guard_cleanup", FALSE, FALSE)
  BY DEF CleanFails, plan, user
<1>2. GuardStep(phase, Expected) /\ at \in Paths /\ (Undisturbed(at) => AtStep(Expected, Target)) /\ at \in Changed
  BY <1>1, AtWork
<1>3. CASE phase = "apply"
  <2>1. Expected = before[at] /\ Target = after[at] /\ before[at] = "old"
    BY <1>1, <1>2, <1>3 DEF Expected, Target, GuardStep, IInv, PlanOK
  <2>2. Blames(failure)'
    BY <1>1, <1>2, <1>3, <2>1 DEF Raise, Blames, GuardStep, AtStep, Undisturbed
  <2> QED BY <1>1, <1>3, <2>2, ApplyRaises
<1>4. CASE phase = "undo"
  <2>1. groupEdits = 0 => Fault
    BY <1>1, QuietWork DEF CleanFails
  <2> QED BY <1>1, <1>4, <2>1, UndoRaises
<1> QED BY <1>1, <1>3, <1>4 DEF Working, Phases

\* The same of the validation of the group.
LEMMA ValidatePhase == ASSUME IInv, Validate PROVE PhaseOK'
<1>1. /\ phase = "validate" /\ UNCHANGED <<before, after, fs, guard, stray, edited, groupEdits, faults>>
      /\ ValidateOK /\ result = "none"
  BY DEF Validate, plan, user, IInv, PhaseOK
<1>2. Changed' = Changed /\ (\A p : Upto(p)' = Upto(p)) /\ (\A p : Undisturbed(p)' = Undisturbed(p))
  BY <1>1 DEF Changed, Upto, Undisturbed
<1>3. NoGuards("apply")' /\ NoGuards("undo")' /\ \A p \in Paths : Undisturbed(p) => fs'[p] = before[p]
  BY <1>1 DEF ValidateOK, NoGuards
<1>4. NoGuardStays'
  BY <1>3 DEF NoGuardStays, Guards, NoGuards, Phases
<1>5. Recoverable'
  BY <1>1, <1>2, <1>3 DEF Recoverable
<1>6. CASE \E p \in Paths : fs[p] # before[p]
  <2>1. phase' = "end" /\ result' = "state_changed"
    BY <1>6 DEF Validate, End
  <2>2. AllOrNothing' /\ OneFaultIsUndone'
    BY <1>1, <1>2, <1>3, <2>1 DEF AllOrNothing, OneFaultIsUndone
  <2> QED BY <1>4, <1>5, <2>1, <2>2 DEF PhaseOK, EndOK
<1>7. CASE ~(\E p \in Paths : fs[p] # before[p]) /\ Changed = {}
  <2>1. phase' = "end" /\ result' = "applied"
    BY <1>7 DEF Validate, End
  <2>2. \A p \in Paths : after[p] = before[p]
    BY <1>7 DEF Changed
  <2>3. AllOrNothing' /\ OneFaultIsUndone'
    BY <1>1, <1>2, <1>3, <2>1, <2>2 DEF AllOrNothing, OneFaultIsUndone
  <2> QED BY <1>4, <1>5, <2>1, <2>3 DEF PhaseOK, EndOK
<1>8. CASE ~(\E p \in Paths : fs[p] # before[p]) /\ Changed # {}
  <2>1. /\ phase' = "apply" /\ step' = "check" /\ at' = Least(Changed) /\ touched' = {at'} /\ result' = "none"
    BY <1>1, <1>8 DEF Validate
  <2>2. Changed \in SUBSET Paths
    BY DEF Changed
  <2>3. at' \in Changed /\ \A q \in Changed : at' <= q
    BY <1>8, <2>1, <2>2, LeastIs
  <2>4. Changed \subseteq Int
    BY <2>2, PathsInt
  <2>5. touched' = Upto(at')
    <3>1. \A q \in Changed : q <= at' <=> q = at'
      BY <2>3, <2>4
    <3> QED BY <2>1, <2>3, <3>1 DEF Upto
  <2>6. \A p \in Changed : ~(p < at')
    BY <2>3, <2>4
  <2>7. Applied'
    BY <1>1, <1>2, <1>3, <2>6 DEF Applied
  <2>8. ApplyOK'
    BY <1>1, <1>2, <1>3, <2>1, <2>2, <2>3, <2>5, <2>7 DEF ApplyOK, NoGuards, GuardStep, AtStep
  <2> QED BY <2>1, <2>8 DEF PhaseOK
<1> QED BY <1>6, <1>7, <1>8

\* The same of the decision what has to be undone.
LEMMA TriagePhase == ASSUME IInv, Triage PROVE PhaseOK'
<1> DEFINE rest == IF Untouched THEN touched \ {at} ELSE touched
<1>1. /\ phase = "triage" /\ UNCHANGED <<before, after, fs, guard, stray, edited, groupEdits, faults, failure, result>>
      /\ TriageOK /\ result = "none" /\ at \in Paths /\ touched \subseteq Paths
      /\ touched' = rest
  BY DEF Triage, plan, user, IInv, PhaseOK, GroupTypeOK, ControlOK
<1>2. Changed' = Changed /\ (\A p : Upto(p)' = Upto(p)) /\ (\A p : Undisturbed(p)' = Undisturbed(p))
  BY <1>1 DEF Changed, Upto, Undisturbed
<1>3. /\ at \in Changed /\ touched = Upto(at) /\ Blames(failure) /\ Applied
      /\ NoGuards("undo") /\ \A p \in Paths \ {at} : guard["apply"][p] = NoState
  BY <1>1 DEF TriageOK
<1>4. OneGuarded'
  <2>1. guard["apply"][at] # NoState => before[at] = "old"
    BY <1>3 DEF Blames
  <2>2. guard["apply"][at] # NoState /\ Undisturbed(at) => guard["apply"][at] = before[at]
    BY <1>3 DEF Blames
  <2> QED BY <1>1, <1>2, <1>3, <2>1, <2>2 DEF OneGuarded
<1>5. Untouched /\ Undisturbed(at) => \/ fs[at] = before[at]
                                      \/ fs[at] = "absent" /\ guard["apply"][at] # NoState
  <2>1. before[at] # after[at]
    BY <1>3 DEF Changed
  <2> QED BY <1>3, <2>1 DEF Untouched, Blames
<1>6. ~Untouched => guard["apply"][at] # "user" /\ (Undisturbed(at) => fs[at] = after[at])
  <2>1. before[at] \in {"absent", "directory", "old"}
    BY <1>1 DEF IInv, GroupTypeOK, DataOK
  <2> QED BY <1>3, <2>1 DEF Untouched, Blames, NoState
<1>7. \A p \in rest : guard["apply"][p] # "user"
  BY <1>1, <1>3, <1>6 DEF NoState
<1>8. \A p \in Paths : Undisturbed(p) =>
        /\ p \in rest => fs[p] = after[p]
        /\ p \notin rest => \/ fs[p] = before[p]
                            \/ fs[p] = "absent" /\ guard["apply"][p] # NoState
  <2> SUFFICES ASSUME NEW p \in Paths, Undisturbed(p)
               PROVE  /\ p \in rest => fs[p] = after[p]
                      /\ p \notin rest => \/ fs[p] = before[p]
                                          \/ fs[p] = "absent" /\ guard["apply"][p] # NoState
    OBVIOUS
  <2>1. CASE p = at
    <3>1. at \in touched
      BY <1>1, <1>3, PathsInt DEF Upto
    <3> QED BY <1>5, <1>6, <2>1, <3>1
  <2>2. CASE p # at
    <3>1. p \in rest <=> p \in touched
      BY <2>2
    <3>2. p \in touched => p \in Changed /\ p < at
      BY <1>1, <1>3, <2>2, PathsInt DEF Upto
    <3>3. p \notin touched => p \notin Changed \/ p > at
      BY <1>1, <1>3, <2>2, PathsInt DEF Upto
    <3> QED BY <1>3, <3>1, <3>2, <3>3 DEF Applied
  <2> QED BY <2>1, <2>2
<1>9. CASE rest = {}
  <2>1. phase' = "settle" /\ step' = "create"
    BY <1>9 DEF Triage
  <2>2. \A p \in Paths : Undisturbed(p)' =>
           \/ fs'[p] = before'[p]
           \/ fs'[p] = "absent" /\ guard'["apply"][p] # NoState
    BY <1>1, <1>2, <1>8, <1>9
  <2>3. SettleOK'
    BY <1>1, <1>3, <1>4, <2>1, <2>2 DEF SettleOK, NoGuards
  <2> QED BY <1>1, <2>1, <2>3 DEF PhaseOK
<1>10. CASE rest # {}
  <2>1. phase' = "undo" /\ step' = "check" /\ at' = Greatest(rest)
    BY <1>10 DEF Triage, StartUndo
  <2>2. rest \in SUBSET Paths /\ rest \subseteq Changed
    BY <1>1, <1>3 DEF Upto
  <2>3. at' \in rest /\ \A q \in rest : q <= at'
    <3>1. rest \subseteq Int
      BY <2>2, PathsInt
    <3> HIDE DEF rest
    <3> QED BY <1>10, <2>1, <2>2, <3>1, GreatestIs
  <2>4. rest = Upto(at')
    <3>1. Changed \subseteq Int /\ at \in Int /\ at' \in Int /\ at' <= at
      BY <1>1, <1>3, <2>2, <2>3, PathsInt DEF Changed, Upto
    <3>2. rest \subseteq Upto(at')
      BY <2>2, <2>3 DEF Upto
    <3>3. ASSUME NEW q \in Upto(at') PROVE q \in rest
      <4>1. q \in Changed /\ q <= at' /\ q <= at
        BY <3>1, <3>3 DEF Upto
      <4>2. q = at => at' = at
        BY <3>1, <4>1
      <4> QED BY <1>3, <2>3, <4>1, <4>2 DEF Upto
    <3> QED BY <3>2, <3>3
  <2> HIDE DEF rest
  <2>5. \A p \in Paths : Undisturbed(p)' =>
        /\ p \in touched' \ {at'} => fs'[p] = after'[p]
        /\ p \notin touched' => \/ fs'[p] = before'[p]
                                \/ fs'[p] = "absent" /\ guard'["apply"][p] # NoState
    BY <1>1, <1>2, <1>8
  <2>6. Undisturbed(at)' => fs'[at'] = after'[at']
    BY <1>1, <1>2, <1>8, <2>2, <2>3
  <2>7. GuardStep("undo", after[at])' /\ NoGuards("undo")'
    BY <1>1, <1>3, <2>1, <2>2, <2>3 DEF GuardStep, NoGuards
  <2>8. UndoOK'
    BY <1>1, <1>2, <1>4, <1>7, <2>1, <2>2, <2>3, <2>4, <2>5, <2>6, <2>7 DEF UndoOK, NoGuards, AtStep
  <2> QED BY <1>1, <2>1, <2>8 DEF PhaseOK
<1> QED BY <1>9, <1>10

\* The same of the settling of the failed path's guard.
LEMMA SettlePhase == ASSUME IInv, Settle PROVE PhaseOK'
<1>1. /\ phase = "settle" /\ UNCHANGED <<before, after, stray, edited, groupEdits>>
      /\ SettleOK /\ result = "none"
  BY DEF Settle, plan, user, IInv, PhaseOK
<1>2. Changed' = Changed /\ (\A p : Undisturbed(p)' = Undisturbed(p)) /\ DataOK
  BY <1>1 DEF Changed, Undisturbed, IInv, GroupTypeOK
<1>3. Recoverable
  BY RecoverableNow
<1>4. CASE Guarded = {} /\ Restored /\ UNCHANGED <<fs, guard, faults>>
  <2>1. phase' = "end" /\ result' \in {"timed_out", "apply_failed"}
    BY <1>4 DEF Restored, End
  <2>2. \A p \in Paths : Undisturbed(p) => fs[p] = before[p]
    BY <1>1, <1>4 DEF SettleOK, Guarded
  <2>3. AllOrNothing' /\ OneFaultIsUndone' /\ Recoverable'
    BY <1>1, <1>2, <1>3, <1>4, <2>1, <2>2 DEF AllOrNothing, OneFaultIsUndone, Recoverable
  <2>4. NoGuardStays'
    BY <1>1, <1>4 DEF NoGuardStays, Guards, Guarded, SettleOK, NoGuards, Phases
  <2> QED BY <2>1, <2>3, <2>4 DEF PhaseOK, EndOK
<1>5. ASSUME NEW p \in Guarded, step = "create", Goto("clean"), UNCHANGED <<guard, faults>>,
             IF fs[p] = "absent" THEN fs' = [fs EXCEPT ![p] = guard["apply"][p]] ELSE UNCHANGED fs
      PROVE  PhaseOK'
  <2>1. p \in Paths /\ guard["apply"][p] # NoState
    BY DEF Guarded
  <2>2. UNCHANGED <<phase, at, touched, failure, result>> /\ step' = "clean"
    BY <1>5 DEF Goto
  <2>3. OneGuarded /\ OneGuarded'
    BY <1>1, <1>2, <1>5 DEF SettleOK, OneGuarded
  <2>4. \A q \in Paths : guard["apply"][q] # NoState <=> q = p
    BY <2>1, <2>3 DEF OneGuarded
  <2>5. \A q \in Paths \ {p} : fs'[q] = fs[q]
    BY <1>2, <1>5, <2>1 DEF DataOK
  <2>6. fs'[p] = IF fs[p] = "absent" THEN guard["apply"][p] ELSE fs[p]
    BY <1>2, <1>5, <2>1 DEF DataOK
  <2>7. \A q \in Paths : Undisturbed(q) => fs'[q] = before[q]
    BY <1>1, <1>5, <2>1, <2>3, <2>4, <2>5, <2>6 DEF SettleOK, OneGuarded
  <2>8. edited[p] = "wrote" => fs'[p] = "user"
    <3>1. edited[p] = "wrote" => fs[p] = "user" \/ guard["apply"][p] = "user"
      BY <1>1, <2>1 DEF IInv, UserOK, UserFileSurvives, SettleOK, NoGuards, NoState, Phases
    <3>2. guard["apply"][p] = "user" => fs[p] \in {"absent", "user"}
      BY <2>1 DEF IInv, UserOK
    <3> QED BY <2>6, <3>1, <3>2
  <2>9. SettleOK'
    BY <1>1, <1>2, <1>5, <2>2, <2>3, <2>4, <2>7, <2>8 DEF SettleOK, NoGuards
  <2> QED BY <1>1, <2>2, <2>9 DEF PhaseOK
<1>6. ASSUME NEW p \in Guarded, step = "clean", guard' = [guard EXCEPT !["apply"][p] = NoState], Restored, UNCHANGED <<fs, faults>>
      PROVE  PhaseOK'
  <2>1. p \in Paths /\ guard["apply"][p] # NoState
    BY DEF Guarded
  <2>2. phase' = "end" /\ result' \in {"timed_out", "apply_failed"}
    BY <1>6 DEF Restored, End
  <2>3. \A q \in Paths : Undisturbed(q) => fs[q] = before[q]
    BY <1>1, <1>6 DEF SettleOK
  <2>4. AllOrNothing' /\ OneFaultIsUndone' /\ Recoverable'
    BY <1>1, <1>2, <1>6, <2>2, <2>3 DEF AllOrNothing, OneFaultIsUndone, Recoverable
  <2>5. \A q \in Paths : guard'["apply"][q] = NoState /\ guard'["undo"][q] = NoState
    <3>1. \A q \in Paths \ {p} : guard["apply"][q] = NoState
      BY <1>1, <2>1 DEF SettleOK, OneGuarded
    <3>2. \A q \in Paths : guard["undo"][q] = NoState
      BY <1>1 DEF SettleOK, NoGuards
    <3> QED BY <1>2, <1>6, <2>1, <3>1, <3>2 DEF DataOK, Phases
  <2>6. NoGuardStays'
    BY <2>5 DEF NoGuardStays, Guards, Phases
  <2> QED BY <2>2, <2>4, <2>6 DEF PhaseOK, EndOK
<1>7. CASE Guarded # {} /\ Fault /\ End("rollback_failed") /\ UNCHANGED <<fs, guard>>
  <2>1. groupEdits = 0 => failure.fatal \/ faults >= 1
    BY <1>1 DEF IInv, QuietOK
  <2>2. groupEdits = 0 => faults' >= IF failure.fatal THEN 1 ELSE 2
    BY <1>2, <1>7, <2>1 DEF Fault, DataOK
  <2> QED BY <1>1, <1>7, <2>2, GivesUp
<1> QED BY <1>4, <1>5, <1>6, <1>7 DEF Settle

\* Every step leaves the paths as its phase, or the next one, has them.
LEMMA PhaseStep ==
    ASSUME IInv, [GroupNext]_groupVars
    PROVE  PhaseOK'
<1>0. ControlOK'
  BY TypeStep DEF IInv, GroupTypeOK
<1>1. CASE UNCHANGED groupVars
  <2>1. /\ UNCHANGED <<before, after, fs, guard, phase, step, at, touched, failure, result, edited, groupEdits, faults>>
        /\ Changed' = Changed /\ (\A p : Upto(p)' = Upto(p)) /\ (\A p : Undisturbed(p)' = Undisturbed(p))
        /\ NoGuards("apply")' = NoGuards("apply") /\ NoGuards("undo")' = NoGuards("undo")
    BY <1>1 DEF groupVars, Changed, Upto, Undisturbed, NoGuards
  <2>2. (ValidateOK => ValidateOK') /\ (Applied => Applied') /\ (OneGuarded => OneGuarded')
    BY <2>1 DEF ValidateOK, Applied, OneGuarded
  <2>3. ApplyOK => ApplyOK'
    BY <2>1, <2>2 DEF ApplyOK, GuardStep, AtStep
  <2>4. TriageOK => TriageOK'
    BY <2>1, <2>2 DEF TriageOK, Blames
  <2>5. UndoOK => UndoOK'
    BY <2>1, <2>2 DEF UndoOK, GuardStep, AtStep
  <2>6. SettleOK => SettleOK'
    BY <2>1, <2>2 DEF SettleOK
  <2>7. EndOK => EndOK'
    BY <2>1 DEF EndOK, AllOrNothing, NoGuardStays, Guards, Recoverable, OneFaultIsUndone
  <2> QED BY <2>1, <2>2, <2>3, <2>4, <2>5, <2>6, <2>7 DEF IInv, PhaseOK
<1>2. CASE GroupNext
  BY <1>0, <1>2, ValidatePhase, CheckPhase, MovePhase, MoveFailsPhase, LookPhase, CreatePhase, CreateFailsPhase,
     CleanPhase, CleanFailsPhase, TriagePhase, SettlePhase, AlarmPhase, UserPhase DEF GroupNext, Sync
<1> QED BY <1>1, <1>2

\* The invariant holds of every behaviour.
LEMMA Inductive == GroupSpec => []IInv
<1>1. IInv /\ [GroupNext]_groupVars => IInv'
  BY TypeStep, PlanStep, DirectoriesStep, UserStep, PhaseStep, QuietStep DEF IInv
<1> QED BY Initially, <1>1, PTL DEF GroupSpec

-----------------------------------------------------------------------------
(* The theorems *)

\* The types of a group's state, through every edit, fault and alarm.
THEOREM GroupTypeCorrect == GroupSpec => []GroupTypeOK
<1>1. IInv => GroupTypeOK
  BY DEF IInv
<1> QED BY Inductive, <1>1, PTL

\* apply_prepared_group: a group that reports success shows every candidate, one that
\* reports a handled failure every captured state, no guard stays without a report
\* that asks for a repair, the user's file is never destroyed, every path can be
\* recovered wherever the process stops, and one fault is always undone.
THEOREM GroupsAreSafe == GroupSpec => []GroupIsSafe
<1>1. IInv => GroupIsSafe
  BY Safe
<1> QED BY Inductive, <1>1, PTL

(***************************************************************************)
(* LocalFiles: for any prefixes, profiles, launchers, files, runs and      *)
(* edits.  Two states of the files have the same files of the user's       *)
(* (SameUsers) when neither has one at a path the sync writes that the     *)
(* other has not; every operation on the staged copy keeps them the same.  *)
(***************************************************************************)

\* A file of the user's.
Users(S, x) == x \in DOMAIN S /\ S[x].owner = "user"

\* Two states of the files agree on what the user has where the sync writes.
SameUsers(S, T) ==
    \A x \in UserPaths : Users(S, x) \/ Users(T, x) => x \in DOMAIN S /\ x \in DOMAIN T /\ S[x] = T[x]

LEMMA UserPathKinds ==
    ASSUME NEW x \in UserPaths
    PROVE  x[1] \in {"canon", "bare", "launcher"}
BY DEF UserPaths, Canon, Bare, Launcher

LEMMA SameUsersTransitive ==
    ASSUME NEW S, NEW T, NEW U, SameUsers(S, T), SameUsers(T, U)
    PROVE  SameUsers(S, U)
BY DEF SameUsers, Users

LEMMA NobodysPath ==
    ASSUME NEW S, NEW T, SameUsers(S, T), NEW x \in UserPaths, ~Users(S, x)
    PROVE  ~Users(T, x)
BY DEF SameUsers, Users

\* A path of the user's that a patch keeps or neither takes nor gives to him is his.
LEMMA PatchKeepsUsers ==
    ASSUME NEW S, NEW gone, NEW new,
           \A x \in gone \cap UserPaths : ~Users(S, x),
           \A x \in DOMAIN new \cap UserPaths : new[x].owner # "user" /\ ~Users(S, x)
    PROVE  SameUsers(S, Patch(S, gone, new))
<1> DEFINE T == Patch(S, gone, new)
<1>1. /\ DOMAIN T = (DOMAIN S \ gone) \cup DOMAIN new
      /\ \A x \in DOMAIN T : T[x] = IF x \in DOMAIN new THEN new[x] ELSE S[x]
  BY DEF Patch
<1> HIDE DEF T
<1> SUFFICES ASSUME NEW x \in UserPaths, Users(S, x) \/ Users(T, x)
             PROVE  x \in DOMAIN S /\ x \in DOMAIN T /\ S[x] = T[x]
  BY DEF T, SameUsers
<1>2. CASE x \in DOMAIN new
  BY <1>1, <1>2 DEF Users
<1>3. CASE x \notin DOMAIN new
  BY <1>1, <1>3 DEF Users
<1> QED BY <1>2, <1>3

\* Nothing patched in changes nothing.
LEMMA PatchNothing ==
    ASSUME NEW S, NEW gone, \A x \in gone \cap UserPaths : ~Users(S, x)
    PROVE  SameUsers(S, Patch(S, gone, <<>>))
<1>1. DOMAIN <<>> = {}
  OBVIOUS
<1> HIDE DEF Users
<1> QED BY <1>1, PatchKeepsUsers

LEMMA CopyNames ==
    ASSUME NEW S, NEW kind, NEW x
    PROVE  FreeName(S, kind, x)[1] = kind
BY DEF FreeName, Copy

\* Backups take no path where the user's files are looked for.
LEMMA WithBackupsKeepsUsers ==
    ASSUME NEW S, NEW new, \A x \in DOMAIN new \cap UserPaths : new[x].owner # "user" /\ ~Users(S, x)
    PROVE  SameUsers(S, WithBackups(S, new))
<1> DEFINE old == DOMAIN new \cap DOMAIN S
           copies == [y \in {FreeName(S, "backup", x) : x \in old} |-> S[y[2]]]
           copied == Patch(S, {}, copies)
           written == Patch(copied, {}, new)
           gone == UNION {Rotated(written, x) : x \in DOMAIN new}
<1>1. WithBackups(S, new) = Patch(written, gone, <<>>)
  BY DEF WithBackups
<1>2. SameUsers(S, copied)
  <2>1. DOMAIN copies \cap UserPaths = {}
    BY CopyNames, UserPathKinds
  <2> HIDE DEF copies
  <2> QED BY <2>1, PatchKeepsUsers
<1>3. SameUsers(copied, written)
  <2> HIDE DEF copied
  <2>1. \A x \in DOMAIN new \cap UserPaths : ~Users(copied, x)
    BY <1>2, NobodysPath
  <2> QED BY <2>1, PatchKeepsUsers
<1>4. SameUsers(written, Patch(written, gone, <<>>))
  <2> HIDE DEF written
  <2>1. gone \cap UserPaths = {}
    BY UserPathKinds DEF Rotated, BackupsOf
  <2> HIDE DEF gone
  <2> QED BY <2>1, PatchNothing
<1> HIDE DEF copied, written, gone
<1> QED BY <1>1, <1>2, <1>3, <1>4, SameUsersTransitive

LEMMA ArchivedKeepsUsers ==
    ASSUME NEW S, NEW gone, \A x \in gone \cap UserPaths : ~Users(S, x)
    PROVE  SameUsers(S, Archived(S, gone))
<1> DEFINE copies == [y \in {FreeName(S, "archive", x) : x \in gone} |-> S[y[2]]]
<1>1. DOMAIN copies \cap UserPaths = {}
  BY CopyNames, UserPathKinds
<1>2. Archived(S, gone) = Patch(S, gone, copies)
  BY DEF Archived
<1> HIDE DEF copies
<1> QED BY <1>1, <1>2, PatchKeepsUsers

\* A file of Reverso's is not the user's.
LEMMA ManagedIsNotUsers == ASSUME NEW S, NEW x, Managed(S, x) PROVE ~Users(S, x)
BY DEF Managed, Users

\* What a Codex run stages has the user's profiles as they were.
LEMMA CodexKeepsUsers ==
    ASSUME NEW S, NEW offered, NEW single \in BOOLEAN, ~CodexRefused(S, offered, single)
    PROVE  SameUsers(S, CodexStaged(S, offered, single))
<1> DEFINE catalogs == [x \in {Catalog(p) : p \in Live(offered)} |-> CatalogFile(offered, x[2])]
           wanted == Profiles(offered, single)
           new == [x \in ToWrite(S, offered, single) |-> wanted[x]]
           listed == Patch(S, {}, catalogs)
           profiles == WithBackups(listed, new)
           text == Rewritten(Text(S), DOMAIN offered)
           gone == Superseded(profiles, offered) \cup Stale(profiles, offered)
           moved == Archived(profiles, gone)
           config == [x \in {Config} |-> File("user", text, FALSE)]
<1>1. SameUsers(S, listed)
  <2>1. \A x \in DOMAIN catalogs : x[1] = "catalog"
    BY DEF Catalog
  <2>2. DOMAIN catalogs \cap UserPaths = {}
    BY <2>1, UserPathKinds
  <2> HIDE DEF catalogs
  <2> QED BY <2>2, PatchKeepsUsers
<1>2. \A x \in DOMAIN new : new[x].owner # "user" /\ ~Users(S, x)
  <2> SUFFICES ASSUME NEW x \in ToWrite(S, offered, single)
               PROVE  wanted[x].owner # "user" /\ ~Users(S, x)
    OBVIOUS
  <2>1. x \in DOMAIN wanted /\ (x \in DOMAIN S => (x[1] = "bare" => Managed(S, x)))
    BY DEF ToWrite
  <2>2. wanted[x] = IF x[1] = "canon" THEN ProfileFile(offered, x[2]) ELSE DirectFile(x[2])
    BY <2>1 DEF Profiles
  <2>3. wanted[x].owner = "reverso"
    BY <2>2 DEF ProfileFile, DirectFile, File
  <2>4. (\E p \in Live(offered) : x = Canon(p)) \/ x[1] = "bare"
    BY <2>1 DEF Profiles, Bare
  <2>5. x \in DOMAIN S => Managed(S, x)
    BY <2>1, <2>4 DEF CodexRefused, FilesRefused
  <2> QED BY <2>3, <2>5, ManagedIsNotUsers DEF Users
<1>3. SameUsers(listed, profiles)
  <2> HIDE DEF listed, new
  <2>1. \A x \in DOMAIN new \cap UserPaths : new[x].owner # "user" /\ ~Users(listed, x)
    BY <1>1, <1>2, NobodysPath
  <2> QED BY <2>1, WithBackupsKeepsUsers
<1>4. SameUsers(profiles, moved)
  <2> HIDE DEF profiles
  <2>1. \A x \in gone : Managed(profiles, x) \/ x[1] = "catalog"
    <3>1. \A x \in Superseded(profiles, offered) : Managed(profiles, x)
      BY DEF Superseded
    <3>2. \A x \in Stale(profiles, offered) : Managed(profiles, x) \/ x[1] = "catalog"
      <4> SUFFICES ASSUME NEW x \in Stale(profiles, offered)
                   PROVE  Managed(profiles, x) \/ x[1] = "catalog"
        OBVIOUS
      <4>1. \/ \E p : Managed(profiles, Canon(p)) /\ x = Canon(p)
            \/ \E p : x = Catalog(p)
        BY DEF Stale
      <4>2. \A p : Catalog(p)[1] = "catalog"
        BY DEF Catalog
      <4> QED BY <4>1, <4>2
    <3> QED BY <3>1, <3>2
  <2> HIDE DEF gone
  <2>2. \A x \in gone \cap UserPaths : ~Users(profiles, x)
    BY <2>1, UserPathKinds, ManagedIsNotUsers
  <2> QED BY <2>2, ArchivedKeepsUsers
<1>5. SameUsers(moved, WithBackups(moved, config))
  <2> HIDE DEF moved
  <2>1. DOMAIN config \cap UserPaths = {}
    BY UserPathKinds DEF Config
  <2> HIDE DEF config
  <2> QED BY <2>1, WithBackupsKeepsUsers
<1>6. CodexStaged(S, offered, single) \in {profiles, moved, WithBackups(moved, config)}
  BY DEF CodexStaged
<1> HIDE DEF profiles, moved, config, listed
<1> QED BY <1>1, <1>3, <1>4, <1>5, <1>6, SameUsersTransitive

LEMMA SameUsersReflexive == ASSUME NEW S PROVE SameUsers(S, S)
BY DEF SameUsers, Users

\* ... and a Claude Code run the user's launchers.
LEMMA ClaudeKeepsUsers ==
    ASSUME NEW S, NEW path, ~ClaudeRefused(S, path)
    PROVE  SameUsers(S, ClaudeStaged(S, path))
<1> DEFINE launchers == [x \in {Launcher(l) : l \in Launchers} |-> LauncherFile(x[2], RealClaude(S, path))]
           repaired == File("user", Repaired(S[Settings].says), FALSE)
           settings == IF Settings \notin DOMAIN S \/ S[Settings] = repaired THEN <<>>
                       ELSE [x \in {Settings, FreeName(S, "backup", Settings)} |->
                               IF x = Settings THEN repaired ELSE S[Settings]]
           tidied == Patch(S, {}, settings)
<1>1. DOMAIN settings \cap UserPaths = {}
  <2>1. DOMAIN <<>> = {}
    OBVIOUS
  <2>2. Settings[1] = "settings" /\ FreeName(S, "backup", Settings)[1] = "backup"
    BY CopyNames DEF Settings
  <2>3. DOMAIN settings \subseteq {Settings, FreeName(S, "backup", Settings)}
    BY <2>1
  <2> HIDE DEF settings
  <2> QED BY <2>2, <2>3, UserPathKinds
<1>2. SameUsers(S, tidied)
  <2> HIDE DEF settings
  <2> QED BY <1>1, PatchKeepsUsers
<1>3. \A x \in DOMAIN launchers : launchers[x].owner # "user" /\ ~Users(S, x)
  <2> SUFFICES ASSUME NEW l \in Launchers
               PROVE  launchers[Launcher(l)].owner # "user" /\ ~Users(S, Launcher(l))
    OBVIOUS
  <2>1. launchers[Launcher(l)].owner = "reverso"
    BY DEF LauncherFile, File
  <2>2. Launcher(l) \in DOMAIN S => Managed(S, Launcher(l))
    BY DEF ClaudeRefused
  <2> QED BY <2>1, <2>2 DEF Users, Managed
<1>4. SameUsers(tidied, Patch(tidied, {}, launchers))
  <2> HIDE DEF tidied, launchers
  <2>1. \A x \in DOMAIN launchers \cap UserPaths : launchers[x].owner # "user" /\ ~Users(tidied, x)
    BY <1>2, <1>3, NobodysPath
  <2> QED BY <2>1, PatchKeepsUsers
<1>5. ClaudeStaged(S, path) = Patch(tidied, {}, launchers)
  BY DEF ClaudeStaged
<1> HIDE DEF tidied, launchers
<1> QED BY <1>2, <1>4, <1>5, SameUsersTransitive

\* A run that writes has not staged a file of the user's, and has written only what
\* it staged.
RunOK(r) ==
    /\ r = [mode |-> r.mode, phase |-> r.phase, seen |-> r.seen, staged |-> r.staged,
            input |-> r.input, written |-> r.written, calm |-> r.calm]
    /\ r.phase = "staging" => r.written = {}
    /\ r.phase = "writing" => SameUsers(r.seen, r.staged) /\ r.written \subseteq Differ(r.seen, r.staged)

\* ... and what the user has at these paths is always the same file.
FilesInv ==
    /\ RunOK(run)
    /\ \A x \in UserPaths : Users(disk, x) => disk[x] = UserFile

LEMMA SameAreNotDifferent ==
    ASSUME NEW S, NEW T, SameUsers(S, T), NEW x \in UserPaths, Users(S, x) \/ Users(T, x)
    PROVE  x \notin Differ(S, T)
BY DEF SameUsers, Differ

\* The next path to write is one that is pending.
LEMMA NextPathIsPending == Pending # {} => NextPath \in Pending
<1> SUFFICES ASSUME Pending # {} PROVE \E x \in Pending : \A y \in Pending : Rank(x) <= Rank(y)
  BY DEF NextPath
<1>1. \A x : Rank(x) \in Nat
  BY DEF Rank
<1> DEFINE ranks == {Rank(x) : x \in Pending}
<1>2. ranks \in SUBSET Nat /\ ranks # {}
  BY <1>1
<1>3. PICK m \in ranks : \A k \in ranks : m <= k
  <2> HIDE DEF ranks
  <2> QED BY <1>2, HasLeast
<1> QED BY <1>3

LEMMA PartParts == ASSUME NEW S, NEW X PROVE DOMAIN Part(S, X) = X \cap DOMAIN S /\ \A x \in X \cap DOMAIN S : Part(S, X)[x] = S[x]
BY DEF Part

\* Write replaces no file of the user's, and Undo brings none back.
LEMMA WriteKeepsUsers == ASSUME FilesInv, Write PROVE SameUsers(disk, disk')
<1> DEFINE X == {NextPath}
           new == Part(run.staged, X)
<1>1. run.phase = "writing" /\ NextPath \in Pending /\ MayWrite /\ disk' = Patch(disk, X, new)
  BY NextPathIsPending DEF Write
<1>2. NextPath \notin Differ(run.seen, disk)
  BY <1>1 DEF MayWrite, Group, Unchanged
<1>3. NextPath \in Differ(run.seen, run.staged) /\ SameUsers(run.seen, run.staged)
  BY <1>1 DEF Pending, FilesInv, RunOK
<1>4. NextPath \in UserPaths => ~Users(run.seen, NextPath) /\ ~Users(run.staged, NextPath)
  BY <1>3, SameAreNotDifferent
<1>5. Users(disk, NextPath) => Users(run.seen, NextPath)
  BY <1>2 DEF Differ, Users
<1>6. \A x \in X \cap UserPaths : ~Users(disk, x)
  BY <1>4, <1>5
<1>7. \A x \in DOMAIN new \cap UserPaths : new[x].owner # "user" /\ ~Users(disk, x)
  <2>1. DOMAIN new = X \cap DOMAIN run.staged /\ \A x \in X \cap DOMAIN run.staged : new[x] = run.staged[x]
    BY PartParts
  <2> HIDE DEF new
  <2> QED BY <1>4, <1>6, <2>1 DEF Users
<1> HIDE DEF X, new
<1> QED BY <1>1, <1>6, <1>7, PatchKeepsUsers

LEMMA UndoKeepsUsers == ASSUME FilesInv, Undo PROVE SameUsers(disk, disk')
<1> DEFINE back == run.written \ Differ(run.staged, disk)
           old == Part(run.seen, back)
<1>1. run.phase = "writing" /\ disk' = Patch(disk, back, old)
  BY DEF Undo
<1>2. \A x \in back : x \in Differ(run.seen, run.staged) /\ x \notin Differ(run.staged, disk)
  BY <1>1 DEF FilesInv, RunOK
<1>3. \A x \in back \cap UserPaths : ~Users(run.seen, x) /\ ~Users(run.staged, x)
  BY <1>1, <1>2, SameAreNotDifferent DEF FilesInv, RunOK
<1>4. \A x \in back \cap UserPaths : ~Users(disk, x)
  BY <1>2, <1>3 DEF Differ, Users
<1> HIDE DEF back
<1>5. \A x \in DOMAIN old \cap UserPaths : old[x].owner # "user" /\ ~Users(disk, x)
  <2>1. DOMAIN old = back \cap DOMAIN run.seen /\ \A x \in back \cap DOMAIN run.seen : old[x] = run.seen[x]
    BY PartParts
  <2> HIDE DEF old
  <2> QED BY <1>3, <1>4, <2>1 DEF Users
<1> HIDE DEF old
<1> QED BY <1>1, <1>4, <1>5, PatchKeepsUsers

LEMMA EditKeepsUsers ==
    ASSUME FilesInv, \/ \E x \in UserPaths : Edit(x, UserFile)
                     \/ \E text \in UserTexts : Edit(Config, File("user", text, FALSE))
    PROVE  /\ \A x \in UserPaths : Users(disk, x) => x \in DOMAIN disk' /\ disk'[x] = disk[x]
           /\ \A x \in UserPaths : Users(disk', x) => disk'[x] = UserFile
<1>1. PICK x, file : /\ Edit(x, file) /\ disk' = Patch(disk, {}, [y \in {x} |-> file])
                     /\ x \notin UserPaths \/ file = UserFile
  <2>1. Config \notin UserPaths
    BY UserPathKinds DEF Config
  <2> QED BY <2>1 DEF Edit
<1>2. /\ DOMAIN disk' = DOMAIN disk \cup {x} /\ disk'[x] = file
      /\ \A y \in DOMAIN disk \ {x} : disk'[y] = disk[y]
  BY <1>1 DEF Patch
<1> QED BY <1>1, <1>2 DEF FilesInv, Users

LEMMA UsersStay ==
    ASSUME FilesInv, [FilesNext]_filesVars
    PROVE  /\ \A x \in UserPaths : Users(disk, x) => x \in DOMAIN disk' /\ disk'[x] = disk[x]
           /\ \A x \in UserPaths : Users(disk', x) => disk'[x] = UserFile
<1>1. CASE disk' = disk
  BY <1>1 DEF FilesInv, Users
<1>2. CASE SameUsers(disk, disk')
  BY <1>2 DEF FilesInv, SameUsers, Users
<1>3. disk' = disk \/ Write \/ Undo \/ (\E x \in UserPaths : Edit(x, UserFile))
      \/ (\E text \in UserTexts : Edit(Config, File("user", text, FALSE)))
  <2>1. ASSUME NEW mode \in Modes, Start(mode) PROVE disk' = disk
    BY <2>1 DEF Start
  <2>2. StageCodex \/ StageClaude => disk' = disk
    BY DEF StageCodex, StageClaude, Stage, Refused
  <2>3. Finish \/ Kill \/ UNCHANGED filesVars => disk' = disk
    BY DEF Finish, Kill, filesVars
  <2> QED BY <2>1, <2>2, <2>3 DEF FilesNext
<1> QED BY <1>1, <1>2, <1>3, WriteKeepsUsers, UndoKeepsUsers, EditKeepsUsers

LEMMA RunStep == ASSUME RunOK(run), [FilesNext]_filesVars PROVE RunOK(run')
<1>1. ASSUME run' = Idle PROVE RunOK(run')
  BY <1>1 DEF Idle, RunOK
<1>2. ASSUME NEW mode \in Modes, Start(mode) PROVE RunOK(run')
  BY <1>2 DEF Start, Idle, RunOK
<1>3. ASSUME NEW input, NEW refused, NEW staged, Stage(input, refused, staged), run.phase = "staging",
             ~refused => SameUsers(run.seen, staged)
      PROVE  RunOK(run')
  BY <1>1, <1>3 DEF Stage, Refused, RunOK
<1>4. CASE StageCodex
  <2>1. PICK offered \in Discovered :
          LET single == run.mode = "provider"
              staged == CodexStaged(run.seen, offered, single)
          IN IF \/ \E p \in DOMAIN offered \ Optional : offered[p] = <<>>
                \/ CodexRefused(run.seen, offered, single)
             THEN Refused
             ELSE Stage(offered, Differ(run.seen, staged) \cap Differ(run.seen, disk) # {}, staged)
    BY <1>4 DEF StageCodex
  <2> DEFINE single == run.mode = "provider"
             staged == CodexStaged(run.seen, offered, single)
  <2>2. CASE Refused
    BY <1>1, <2>2 DEF Refused
  <2>3. CASE ~Refused
    <3>1. /\ Stage(offered, Differ(run.seen, staged) \cap Differ(run.seen, disk) # {}, staged)
          /\ ~CodexRefused(run.seen, offered, single)
      BY <2>1, <2>3
    <3>2. SameUsers(run.seen, staged)
      BY <3>1, CodexKeepsUsers
    <3>3. run.phase = "staging"
      BY <1>4 DEF StageCodex
    <3> HIDE DEF staged
    <3> QED BY <1>3, <3>1, <3>2, <3>3
  <2> QED BY <2>2, <2>3
<1>5. CASE StageClaude
  <2>1. PICK path \in PathEntries :
          IF ClaudeRefused(run.seen, path) THEN Refused
          ELSE Stage(path, FALSE, ClaudeStaged(run.seen, path))
    BY <1>5 DEF StageClaude
  <2>2. CASE Refused
    BY <1>1, <2>2 DEF Refused
  <2>3. CASE ~Refused
    <3>1. Stage(path, FALSE, ClaudeStaged(run.seen, path)) /\ ~ClaudeRefused(run.seen, path)
      BY <2>1, <2>3
    <3>2. SameUsers(run.seen, ClaudeStaged(run.seen, path)) /\ run.phase = "staging"
      BY <1>5, <3>1, ClaudeKeepsUsers DEF StageClaude
    <3> QED BY <1>3, <3>1, <3>2
  <2> QED BY <2>2, <2>3
<1>6. CASE Write
  <2>1. run.phase = "writing" /\ NextPath \in Pending /\ run' = [run EXCEPT !.written = @ \cup {NextPath}]
    BY <1>6, NextPathIsPending DEF Write
  <2>2. NextPath \in Differ(run.seen, run.staged)
    BY <2>1 DEF Pending
  <2> QED BY <2>1, <2>2 DEF RunOK
<1>7. CASE Finish
  BY <1>7 DEF Finish, RunOK
<1>8. CASE Undo \/ Kill
  BY <1>1, <1>8 DEF Undo, Kill
<1>9. ASSUME NEW x, NEW file, Edit(x, file) PROVE RunOK(run')
  BY <1>9 DEF Edit, RunOK
<1>10. CASE UNCHANGED filesVars
  BY <1>10 DEF filesVars
<1> QED BY <1>2, <1>4, <1>5, <1>6, <1>7, <1>8, <1>9, <1>10 DEF FilesNext

LEMMA FilesInvariance == FilesSpec => []FilesInv
<1>1. FilesInit => FilesInv
  BY StartFilesOK DEF FilesInit, FilesInv, RunOK, Idle, Users
<1>2. FilesInv /\ [FilesNext]_filesVars => FilesInv'
  BY RunStep, UsersStay DEF FilesInv
<1> QED BY <1>1, <1>2, PTL DEF FilesSpec

\* No run of either client's sync replaces or removes a file that the user put where it
\* writes: nothing of his is staged over, the group is compared with what was copied
\* before the first write and each path before its own, and the undoing of a run brings
\* back only what that run had replaced.
THEOREM UsersFilesStay == FilesSpec => UserFilesStay
<1>1. FilesInv /\ [FilesNext]_filesVars =>
        [\A x \in DOMAIN disk : x \in UserPaths /\ disk[x].owner = "user" =>
            x \in DOMAIN disk' /\ disk'[x] = disk[x]]_filesVars
  BY UsersStay DEF Users
<1> QED BY <1>1, FilesInvariance, PTL DEF FilesSpec, UserFilesStay

(***************************************************************************)
(* What a run replaces is kept.  A copy has a free name of its own         *)
(* (FreeNameIs: the files are finitely many), the rotation removes fewer   *)
(* copies than there are newer ones (WithBackupsIs), and while nobody else *)
(* writes, the files are those the run copied and those it has written     *)
(* (KeepInv), so that what is true of the staged copy is true of the files *)
(* when the run ends.                                                      *)
(***************************************************************************)

\* Finitely many files, and no backup from the future.
Fine(S, now) == IsFiniteSet(DOMAIN S) /\ \A y \in DOMAIN S : y[1] = "backup" => y[3] \in 0..now

\* The values of a finite function are finitely many.
LEMMA ImageFinite ==
    ASSUME NEW f, IsFiniteSet(DOMAIN f), f = [x \in DOMAIN f |-> f[x]]
    PROVE  IsFiniteSet({f[x] : x \in DOMAIN f})
<1> DEFINE T == {f[x] : x \in DOMAIN f}
<1>1. f \in [DOMAIN f -> T]
  OBVIOUS
<1>2. \A t \in T : \E x \in DOMAIN f : f[x] = t
  OBVIOUS
<1> HIDE DEF T
<1>3. f \in Surjection(DOMAIN f, T)
  BY <1>1, <1>2 DEF Surjection
<1> QED BY <1>3, FS_Surjection DEF T

\* Copies have names of their own.
LEMMA FreeNameIs ==
    ASSUME NEW S, IsFiniteSet(DOMAIN S), NEW kind, NEW x
    PROVE  /\ FreeName(S, kind, x) \notin DOMAIN S
           /\ \E n \in Nat : FreeName(S, kind, x) = <<kind, x, second, n>>
<1> DEFINE c == Cardinality(DOMAIN S)
           f == [n \in 0..c |-> Copy(kind, x, n)]
           free == {n \in 0..c : Copy(kind, x, n) \notin DOMAIN S}
<1>0. c = Cardinality(DOMAIN S)
  OBVIOUS
<1>1. c \in Nat
  BY FS_CardinalityType
<1> HIDE DEF c
<1>2. free # {}
  <2> SUFFICES ASSUME free = {} PROVE FALSE
    OBVIOUS
  <2>1. f \in [0..c -> DOMAIN S]
    OBVIOUS
  <2>2. IsFiniteSet(0..c) /\ Cardinality(0..c) = c + 1
    BY <1>1, FS_Interval
  <2>3. Cardinality(DOMAIN S) < Cardinality(0..c)
    BY <1>0, <1>1, <2>2
  <2>4. \E m, n \in 0..c : m # n /\ f[m] = f[n]
    <3> DEFINE A == 0..c
               D == DOMAIN S
    <3>1. f \in [A -> D] /\ IsFiniteSet(A) /\ IsFiniteSet(D) /\ Cardinality(D) < Cardinality(A)
      BY <2>1, <2>2, <2>3
    <3> HIDE DEF f, A, D
    <3>2. \E m, n \in A : m # n /\ f[m] = f[n]
      BY <3>1, FS_PigeonHole
    <3> QED BY <3>2 DEF A
  <2> QED BY <2>4 DEF Copy
<1>3. PICK m \in free : \A n \in free : m <= n
  <2>1. free \in SUBSET Nat
    OBVIOUS
  <2> HIDE DEF free
  <2> QED BY <1>2, <2>1, HasLeast
<1>4. \A n \in 0..(m - 1) : Copy(kind, x, n) \in DOMAIN S
  <2> SUFFICES ASSUME NEW n \in 0..(m - 1) PROVE Copy(kind, x, n) \in DOMAIN S
    OBVIOUS
  <2>1. n \in 0..c /\ ~(m <= n)
    BY <1>1, <1>3
  <2> QED BY <1>3, <2>1
<1>5. \E n \in 0..c : Copy(kind, x, n) \notin DOMAIN S /\ \A k \in 0..(n - 1) : Copy(kind, x, k) \in DOMAIN S
  BY <1>3, <1>4
<1> DEFINE n == CHOOSE n \in 0..c : /\ Copy(kind, x, n) \notin DOMAIN S
                                    /\ \A k \in 0..(n - 1) : Copy(kind, x, k) \in DOMAIN S
<1>6. n \in 0..c /\ Copy(kind, x, n) \notin DOMAIN S
  BY <1>5
<1>7. FreeName(S, kind, x) = Copy(kind, x, n)
  BY DEF FreeName, c
<1> HIDE DEF n
<1> QED BY <1>1, <1>6, <1>7 DEF Copy

\* A path keeps what it has.
Same(S, T, x) == (x \in DOMAIN S <=> x \in DOMAIN T) /\ (x \in DOMAIN S => S[x] = T[x])

Patched(T, S, gone, new) ==
    /\ DOMAIN T = (DOMAIN S \ gone) \cup DOMAIN new
    /\ \A x \in DOMAIN new : T[x] = new[x]
    /\ \A x : x \notin DOMAIN new /\ x \notin gone => Same(S, T, x)

\* What a patch makes of the files.
LEMMA PatchIs == ASSUME NEW S, NEW gone, NEW new PROVE Patched(Patch(S, gone, new), S, gone, new)
BY DEF Patched, Patch, Same

\* Part of two finite sets is finite.
LEMMA BothFinite ==
    ASSUME NEW A, NEW B, IsFiniteSet(A), IsFiniteSet(B), NEW C, C \subseteq A \cup B
    PROVE  IsFiniteSet(C)
<1>1. IsFiniteSet(A \cup B)
  BY FS_Union
<1> QED BY <1>1, FS_Subset

\* The copies that are made of some paths.
Copies(S, kind, X) == [y \in {FreeName(S, kind, x) : x \in X} |-> S[y[2]]]

\* Each path has one copy, under a free name of this second.
LEMMA CopiesAre ==
    ASSUME NEW S, IsFiniteSet(DOMAIN S), NEW kind, NEW X \in SUBSET DOMAIN S
    PROVE  /\ IsFiniteSet(DOMAIN Copies(S, kind, X))
           /\ \A y \in DOMAIN Copies(S, kind, X) :
                 /\ y \notin DOMAIN S /\ y[1] = kind /\ y[2] \in X /\ y[3] = second
                 /\ y = FreeName(S, kind, y[2]) /\ Copies(S, kind, X)[y] = S[y[2]]
           /\ \A x \in X : FreeName(S, kind, x) \in DOMAIN Copies(S, kind, X)
<1>1. DOMAIN Copies(S, kind, X) = {FreeName(S, kind, x) : x \in X}
  BY DEF Copies
<1>2. IsFiniteSet(DOMAIN Copies(S, kind, X))
  <2> DEFINE f == [x \in X |-> FreeName(S, kind, x)]
  <2>1. IsFiniteSet(X)
    BY FS_Subset
  <2>2. DOMAIN f = X /\ f = [x \in DOMAIN f |-> f[x]]
    OBVIOUS
  <2>3. DOMAIN Copies(S, kind, X) = {f[x] : x \in DOMAIN f}
    BY <1>1
  <2> HIDE DEF f
  <2> QED BY <2>1, <2>2, <2>3, ImageFinite
<1>3. ASSUME NEW x \in X
      PROVE  LET y == FreeName(S, kind, x)
             IN /\ y \notin DOMAIN S /\ y[1] = kind /\ y[2] = x /\ y[3] = second
                /\ Copies(S, kind, X)[y] = S[y[2]]
  <2> DEFINE y == FreeName(S, kind, x)
  <2>1. y \notin DOMAIN S /\ \E n \in Nat : y = <<kind, x, second, n>>
    BY FreeNameIs
  <2>2. y \in DOMAIN Copies(S, kind, X)
    BY <1>1
  <2>3. Copies(S, kind, X)[y] = S[y[2]]
    BY <2>2 DEF Copies
  <2> HIDE DEF y
  <2> QED BY <2>1, <2>3 DEF y
<1> QED BY <1>1, <1>2, <1>3

\* So many copies of a path have been made in this second that names begin again.
Full(S, x) == Cardinality({y \in BackupsOf(S, x) : y[3] = second}) >= BackupsKept
\* What was at a path is in a copy.
Copied(T, x, content) ==
    \E y \in DOMAIN T : y[1] \in {"backup", "archive"} /\ y[2] = x /\ T[y] = content

\* Files are written: nobody else's copies go, and of a path's own not the one that
\* was made of it now, unless names begin again.
LEMMA WithBackupsIs ==
    ASSUME second \in Nat, NEW S, Fine(S, second), NEW new, IsFiniteSet(DOMAIN new),
           \A x \in DOMAIN new : x[1] # "backup"
    PROVE  LET T == WithBackups(S, new)
           IN /\ \A x \in DOMAIN new : x \in DOMAIN T /\ T[x] = new[x]
              /\ \A x : x \notin DOMAIN new /\ x[1] # "backup" => Same(S, T, x)
              /\ \A y : y[1] = "backup" /\ y[2] \notin DOMAIN new => Same(S, T, y)
              /\ \A x \in DOMAIN new \cap DOMAIN S : Full(S, x) \/ Copied(T, x, S[x])
              /\ Fine(T, second)
<1> DEFINE old == DOMAIN new \cap DOMAIN S
           copies == Copies(S, "backup", old)
           copied == Patch(S, {}, copies)
           written == Patch(copied, {}, new)
           gone == UNION {Rotated(written, x) : x \in DOMAIN new}
           T == WithBackups(S, new)
<1>0. IsFiniteSet(DOMAIN S) /\ old \in SUBSET DOMAIN S
  BY DEF Fine
<1>1. T = Patch(written, gone, <<>>)
  BY DEF WithBackups, Copies
<1>2. /\ IsFiniteSet(DOMAIN copies)
      /\ \A y \in DOMAIN copies :
            /\ y \notin DOMAIN S /\ y[1] = "backup" /\ y[2] \in old /\ y[3] = second
            /\ y = FreeName(S, "backup", y[2]) /\ copies[y] = S[y[2]]
      /\ \A x \in old : FreeName(S, "backup", x) \in DOMAIN copies
  <2> HIDE DEF old
  <2> QED BY <1>0, CopiesAre
<1> HIDE DEF copies
<1>3. /\ DOMAIN copied = DOMAIN S \cup DOMAIN copies
      /\ \A y \in DOMAIN copies : copied[y] = copies[y]
      /\ \A x : x \notin DOMAIN copies => Same(S, copied, x)
  <2>1. Patched(copied, S, {}, copies)
    BY PatchIs
  <2> HIDE DEF copied
  <2> QED BY <2>1 DEF Patched
<1> HIDE DEF copied
<1>4. /\ DOMAIN written = DOMAIN copied \cup DOMAIN new
      /\ \A x \in DOMAIN new : written[x] = new[x]
      /\ \A x : x \notin DOMAIN new => Same(copied, written, x)
  <2>1. Patched(written, copied, {}, new)
    BY PatchIs
  <2> HIDE DEF written
  <2> QED BY <2>1 DEF Patched
<1> HIDE DEF written
<1>5. \A y \in gone : y[1] = "backup" /\ y[2] \in DOMAIN new
  BY DEF Rotated, BackupsOf
<1> HIDE DEF gone
<1>6. DOMAIN T = DOMAIN written \ gone /\ \A x : x \notin gone => Same(written, T, x)
  <2>1. DOMAIN <<>> = {}
    OBVIOUS
  <2>2. Patched(T, written, gone, <<>>)
    BY <1>1, PatchIs
  <2> HIDE DEF T
  <2> QED BY <2>1, <2>2 DEF Patched
<1> HIDE DEF T
<1>7. ASSUME NEW x \in DOMAIN new PROVE x \in DOMAIN T /\ T[x] = new[x]
  <2>1. x \in DOMAIN written /\ x \notin gone /\ written[x] = new[x]
    BY <1>4, <1>5
  <2> QED BY <1>6, <2>1 DEF Same
<1>8. ASSUME NEW x, x \notin DOMAIN new, x \notin DOMAIN copies, x \notin gone PROVE Same(S, T, x)
  BY <1>3, <1>4, <1>6, <1>8 DEF Same
<1>9. ASSUME NEW x \in DOMAIN new \cap DOMAIN S PROVE Full(S, x) \/ Copied(T, x, S[x])
  <2> SUFFICES ASSUME ~Full(S, x) PROVE Copied(T, x, S[x])
    OBVIOUS
  <2> DEFINE y == FreeName(S, "backup", x)
             newer == {z \in BackupsOf(written, x) : Older(y, z)}
             now == {z \in BackupsOf(S, x) : z[3] = second}
  <2>1. y \in DOMAIN copies /\ y[1] = "backup" /\ y[2] = x /\ y[3] = second /\ copies[y] = S[x]
    <3>1. y \in DOMAIN copies /\ \E n \in Nat : y = <<"backup", x, second, n>>
      BY <1>0, <1>2, FreeNameIs
    <3> HIDE DEF y
    <3> QED BY <1>2, <3>1
  <2>2. \E n \in Nat : y = <<"backup", x, second, n>>
    BY <1>0, FreeNameIs
  <2>3. y[4] \in Nat
    <3> HIDE DEF y
    <3> QED BY <2>2
  <2>4. \A z \in DOMAIN copies : z[2] = x => z = y
    BY <1>2
  <2>5. newer \subseteq now
    <3> SUFFICES ASSUME NEW z \in BackupsOf(written, x), Older(y, z) PROVE z \in now
      OBVIOUS
    <3> HIDE DEF y
    <3>1. z \in DOMAIN written /\ z[1] = "backup" /\ z[2] = x
      BY DEF BackupsOf
    <3>2. z # y
      BY <2>1, <2>3 DEF Older
    <3>3. z \in DOMAIN S
      BY <1>3, <1>4, <2>4, <3>1, <3>2
    <3>4. z[3] \in 0..second
      BY <3>1, <3>3 DEF Fine
    <3>5. z[3] = second
      BY <2>1, <3>4 DEF Older
    <3> QED BY <3>1, <3>3, <3>5 DEF BackupsOf
  <2>6. IsFiniteSet(now)
    <3>1. now \subseteq DOMAIN S
      BY DEF BackupsOf
    <3> HIDE DEF now
    <3> QED BY <1>0, <3>1, FS_Subset
  <2>7. Cardinality(newer) \in Nat /\ Cardinality(now) \in Nat /\ Cardinality(newer) <= Cardinality(now)
    <3> HIDE DEF newer, now
    <3> QED BY <2>5, <2>6, FS_Subset, FS_CardinalityType
  <2>8. ~(Cardinality(now) >= BackupsKept)
    BY DEF Full
  <2>9. ~(Cardinality(newer) >= BackupsKept)
    <3> HIDE DEF newer, now
    <3> QED BY <2>7, <2>8, FilesOK
  <2>10. y \notin gone
    <3> SUFFICES ASSUME NEW x2 \in DOMAIN new, y \in Rotated(written, x2) PROVE FALSE
      BY DEF gone
    <3>1. x2 = x
      <4> HIDE DEF y
      <4> QED BY <2>1 DEF Rotated, BackupsOf
    <3> QED BY <2>9, <3>1 DEF Rotated
  <2>11. y \in DOMAIN T /\ T[y] = S[x]
    <3> HIDE DEF y
    <3>1. y \in DOMAIN copied /\ copied[y] = S[x]
      BY <1>3, <2>1
    <3>2. y \in DOMAIN written /\ written[y] = S[x]
      BY <1>4, <2>1, <3>1 DEF Same
    <3> QED BY <1>6, <2>10, <3>2 DEF Same
  <2> HIDE DEF y
  <2> QED BY <2>1, <2>11 DEF Copied
<1>10. Fine(T, second)
  <2>1. IsFiniteSet(DOMAIN T)
    <3>1. IsFiniteSet(DOMAIN copied)
      BY <1>0, <1>2, <1>3, BothFinite
    <3>2. IsFiniteSet(DOMAIN written)
      BY <1>4, <3>1, BothFinite
    <3>3. DOMAIN T \subseteq DOMAIN written
      BY <1>6
    <3> QED BY <3>2, <3>3, FS_Subset
  <2>2. ASSUME NEW y \in DOMAIN T, y[1] = "backup" PROVE y[3] \in 0..second
    <3>1. y \in DOMAIN S \/ y \in DOMAIN copies
      BY <1>3, <1>4, <1>6, <2>2
    <3>2. second \in 0..second
      OBVIOUS
    <3> QED BY <1>2, <2>2, <3>1, <3>2 DEF Fine
  <2> QED BY <2>1, <2>2 DEF Fine
<1>11. \A x : x \notin DOMAIN new /\ x[1] # "backup" => Same(S, T, x)
  BY <1>2, <1>5, <1>8
<1>12. \A y : y[1] = "backup" /\ y[2] \notin DOMAIN new => Same(S, T, y)
  BY <1>2, <1>5, <1>8
<1> QED BY <1>7, <1>9, <1>10, <1>11, <1>12 DEF T

\* Files move away.
LEMMA ArchivedIs ==
    ASSUME second \in Nat, NEW S, Fine(S, second), NEW gone \in SUBSET DOMAIN S,
           \A x \in gone : x[1] \notin {"backup", "archive"}
    PROVE  LET T == Archived(S, gone)
           IN /\ \A x : x \notin gone /\ x \in DOMAIN S => Same(S, T, x)
              /\ \A x : x \notin gone /\ x[1] # "archive" => Same(S, T, x)
              /\ \A x \in gone : x \notin DOMAIN T /\ Copied(T, x, S[x])
              /\ Fine(T, second)
<1> DEFINE copies == Copies(S, "archive", gone)
           T == Archived(S, gone)
<1>1. T = Patch(S, gone, copies)
  BY DEF Archived, Copies
<1>2. IsFiniteSet(DOMAIN S)
  BY DEF Fine
<1>3. /\ IsFiniteSet(DOMAIN copies)
      /\ \A y \in DOMAIN copies :
            /\ y \notin DOMAIN S /\ y[1] = "archive" /\ y[2] \in gone /\ y[3] = second
            /\ y = FreeName(S, "archive", y[2]) /\ copies[y] = S[y[2]]
      /\ \A x \in gone : FreeName(S, "archive", x) \in DOMAIN copies
  BY <1>2, CopiesAre
<1> HIDE DEF copies
<1>4. /\ DOMAIN T = (DOMAIN S \ gone) \cup DOMAIN copies
      /\ \A y \in DOMAIN copies : T[y] = copies[y]
      /\ \A x : x \notin DOMAIN copies /\ x \notin gone => Same(S, T, x)
  <2>1. Patched(T, S, gone, copies)
    BY <1>1, PatchIs
  <2> HIDE DEF T
  <2> QED BY <2>1 DEF Patched
<1> HIDE DEF T
<1>5. ASSUME NEW x \in gone PROVE x \notin DOMAIN T /\ Copied(T, x, S[x])
  <2> DEFINE y == FreeName(S, "archive", x)
  <2>1. \E n \in Nat : y = <<"archive", x, second, n>>
    BY <1>2, FreeNameIs
  <2>2. y \in DOMAIN copies
    BY <1>3
  <2> HIDE DEF y
  <2>3. y[1] = "archive" /\ y[2] = x
    BY <2>1
  <2>4. y \in DOMAIN T /\ T[y] = S[x]
    BY <1>3, <1>4, <2>2, <2>3
  <2> QED BY <1>3, <1>4, <2>3, <2>4 DEF Copied
<1>6. Fine(T, second)
  <2>1. IsFiniteSet(DOMAIN T)
    <3>1. DOMAIN T \subseteq DOMAIN S \cup DOMAIN copies
      BY <1>4
    <3> QED BY <1>2, <1>3, <3>1, BothFinite
  <2>2. ASSUME NEW y \in DOMAIN T, y[1] = "backup" PROVE y[3] \in 0..second
    BY <1>3, <1>4, <2>2 DEF Fine
  <2> QED BY <2>1, <2>2 DEF Fine
<1>7. \A x : x \notin gone /\ (x \in DOMAIN S \/ x[1] # "archive") => Same(S, T, x)
  BY <1>3, <1>4
<1> QED BY <1>5, <1>6, <1>7 DEF T

\* Files with the same copies of a path are full of them alike.
LEMMA SameCopies ==
    ASSUME NEW S, NEW T, NEW x, \A y : y[1] = "backup" /\ y[2] = x => Same(S, T, y)
    PROVE  Full(S, x) <=> Full(T, x)
<1>1. BackupsOf(S, x) = BackupsOf(T, x)
  BY DEF BackupsOf, Same
<1> QED BY <1>1 DEF Full

\* What was at a path is there, or in a copy.
KeptAt(S, T, x) ==
    \/ Same(S, T, x)
    \/ x[1] \in {"catalog", "launcher"} /\ x \in DOMAIN T
    \/ Copied(T, x, S[x])
    \/ Full(S, x)

\* No backup is from the future.
NoneAhead(S, now) == \A y \in DOMAIN S : y[1] = "backup" => y[3] \in 0..now

\* A prefix that is served is one that was asked about.
LEMMA LiveIs == ASSUME NEW offered PROVE Live(offered) \subseteq DOMAIN offered
BY DEF Live

\* A bare profile that goes is there.
LEMMA SupersededIs ==
    ASSUME NEW S, NEW offered
    PROVE  Superseded(S, offered) \subseteq DOMAIN S /\ \A x \in Superseded(S, offered) : x[1] = "bare"
<1>1. \A q : Bare(q)[1] = "bare"
  BY DEF Bare
<1>2. \A x \in Superseded(S, offered) : x \in DOMAIN S /\ \E q : x = Bare(q)
  BY DEF Superseded, Managed
<1> QED BY <1>1, <1>2

\* So is a canonical one, and a catalog that goes is of no exposed prefix.
LEMMA StaleIs ==
    ASSUME NEW S, NEW offered
    PROVE  /\ Stale(S, offered) \subseteq DOMAIN S
           /\ \A x \in Stale(S, offered) : x[1] \in {"canon", "catalog"}
           /\ \A x \in Stale(S, offered) : x[1] = "catalog" => \E q \in Routed \ DOMAIN offered : x = Catalog(q)
           /\ \A x \in Stale(S, offered) : x[1] = "canon" => \E q \in Routed \ DOMAIN offered : x = Canon(q)
<1> SUFFICES ASSUME NEW x \in Stale(S, offered)
             PROVE  /\ x \in DOMAIN S /\ x[1] \in {"canon", "catalog"}
                    /\ x[1] = "catalog" => \E q \in Routed \ DOMAIN offered : x = Catalog(q)
                    /\ x[1] = "canon" => \E q \in Routed \ DOMAIN offered : x = Canon(q)
  OBVIOUS
<1>1. PICK q \in Routed \ DOMAIN offered : x \in DOMAIN S /\ x \in {Canon(q), Catalog(q)}
  BY DEF Stale, Managed
<1>2. Canon(q)[1] = "canon" /\ Catalog(q)[1] = "catalog"
  BY DEF Canon, Catalog
<1> QED BY <1>1, <1>2

\* A prefix that is served has its catalog, and a profile that pins its first model.
Served(T, offered, q) ==
    /\ Catalog(q) \in DOMAIN T /\ T[Catalog(q)] = CatalogFile(offered, q)
    /\ Canon(q) \in DOMAIN T /\ T[Canon(q)] = ProfileFile(offered, q)

\* A full run leaves config.toml as it was when its text need not change.
TextIs(S, T, offered, single) ==
    LET text == Rewritten(Text(S), DOMAIN offered) IN
    \/ Same(S, T, Config) /\ (single \/ text = Text(S))
    \/ ~single /\ Config \in DOMAIN T /\ T[Config] = File("user", text, FALSE)

\* A direct profile is as wanted or the user's, and no profile is left that goes.
Settled(T, offered) ==
    /\ \A d \in Direct : Bare(d) \in DOMAIN T /\ (T[Bare(d)] = DirectFile(d) \/ ~Managed(T, Bare(d)))
    /\ \A q \in Live(offered) \cup Variants : ~Managed(T, Bare(q))
    /\ \A q \in Routed \ DOMAIN offered : ~Managed(T, Canon(q))

\* What a Codex run stages leaves what it replaces in a copy ...
LEMMA CodexKeeps ==
    ASSUME second \in Nat, NEW S, Fine(S, second), NEW offered, DOMAIN offered \subseteq Routed, NEW single \in BOOLEAN
    PROVE  /\ Fine(CodexStaged(S, offered, single), second)
           /\ \A x \in DOMAIN S : x[1] \notin {"backup", "archive"} => KeptAt(S, CodexStaged(S, offered, single), x)
           /\ \A q \in Live(offered) : Served(CodexStaged(S, offered, single), offered, q)
           /\ TextIs(S, CodexStaged(S, offered, single), offered, single)
           /\ single \/ Settled(CodexStaged(S, offered, single), offered)
<1> DEFINE catalogs == [x \in {Catalog(p) : p \in Live(offered)} |-> CatalogFile(offered, x[2])]
           wanted == Profiles(offered, single)
           new == [x \in ToWrite(S, offered, single) |-> wanted[x]]
           listed == Patch(S, {}, catalogs)
           profiles == WithBackups(listed, new)
           text == Rewritten(Text(S), DOMAIN offered)
           gone == Superseded(profiles, offered) \cup Stale(profiles, offered)
           moved == Archived(profiles, gone)
           config == [x \in {Config} |-> File("user", text, FALSE)]
           final == WithBackups(moved, config)
<1>0. CodexStaged(S, offered, single) = IF single THEN profiles ELSE IF text = Text(S) THEN moved ELSE final
  BY DEF CodexStaged
<1>1. IsFiniteSet(Live(offered))
  BY LiveIs, FilesOK, FS_Subset
<1>2. IsFiniteSet(DOMAIN catalogs) /\ \A x \in DOMAIN catalogs : x[1] = "catalog"
  <2> DEFINE f == [p \in Live(offered) |-> Catalog(p)]
  <2>1. DOMAIN f = Live(offered) /\ f = [p \in DOMAIN f |-> f[p]]
    OBVIOUS
  <2>2. DOMAIN catalogs = {f[p] : p \in DOMAIN f}
    OBVIOUS
  <2>3. IsFiniteSet({f[p] : p \in DOMAIN f})
    <3> HIDE DEF f
    <3> QED BY <1>1, <2>1, ImageFinite
  <2>4. \A x \in DOMAIN catalogs : x[1] = "catalog"
    BY DEF Catalog
  <2> HIDE DEF f, catalogs
  <2> QED BY <2>2, <2>3, <2>4
<1>18. \A q \in Live(offered) : Catalog(q) \in DOMAIN catalogs /\ catalogs[Catalog(q)] = CatalogFile(offered, q)
  BY DEF Catalog
<1>3. IsFiniteSet(DOMAIN new) /\ \A x \in DOMAIN new : x[1] \in {"canon", "bare"}
  <2> DEFINE f == [p \in Live(offered) |-> Canon(p)]
             g == [d \in Direct |-> Bare(d)]
  <2>1. DOMAIN f = Live(offered) /\ f = [p \in DOMAIN f |-> f[p]] /\ DOMAIN g = Direct /\ g = [d \in DOMAIN g |-> g[d]]
    OBVIOUS
  <2>2. /\ \A x \in DOMAIN new : x \in {f[p] : p \in DOMAIN f} \cup {g[d] : d \in DOMAIN g}
        /\ \A x \in DOMAIN new : x[1] \in {"canon", "bare"}
    BY DEF ToWrite, Profiles, Canon, Bare
  <2>3. IsFiniteSet({f[p] : p \in DOMAIN f}) /\ IsFiniteSet({g[d] : d \in DOMAIN g})
    <3> HIDE DEF f, g
    <3> QED BY <1>1, <2>1, FilesOK, ImageFinite
  <2> HIDE DEF f, g, new
  <2>4. DOMAIN new \subseteq {f[p] : p \in DOMAIN f} \cup {g[d] : d \in DOMAIN g}
    BY <2>2
  <2> QED BY <2>2, <2>3, <2>4, BothFinite
<1>19. ASSUME NEW q \in Live(offered)
       PROVE  \/ Canon(q) \in DOMAIN new /\ new[Canon(q)] = ProfileFile(offered, q)
              \/ Canon(q) \notin DOMAIN new /\ Canon(q) \in DOMAIN S /\ S[Canon(q)] = ProfileFile(offered, q)
  <2>1. Canon(q)[1] = "canon" /\ Canon(q)[2] = q
    BY DEF Canon
  <2>2. Canon(q) \in DOMAIN wanted /\ wanted[Canon(q)] = ProfileFile(offered, q)
    BY <2>1 DEF Profiles
  <2> HIDE DEF wanted
  <2>3. Canon(q) \in ToWrite(S, offered, single) \/ (Canon(q) \in DOMAIN S /\ S[Canon(q)] = wanted[Canon(q)])
    BY <2>1, <2>2 DEF ToWrite, wanted
  <2> QED BY <2>2, <2>3
<1>21. ASSUME ~single, NEW d \in Direct
       PROVE  \/ Bare(d) \in DOMAIN new /\ new[Bare(d)] = DirectFile(d)
              \/ /\ Bare(d) \notin DOMAIN new /\ Bare(d) \in DOMAIN S
                 /\ S[Bare(d)] = DirectFile(d) \/ ~Managed(S, Bare(d))
  <2>1. Bare(d)[1] = "bare" /\ Bare(d)[2] = d
    BY DEF Bare
  <2>2. Bare(d) \in DOMAIN wanted /\ wanted[Bare(d)] = DirectFile(d)
    BY <1>21, <2>1 DEF Profiles
  <2> HIDE DEF wanted
  <2>3. \/ Bare(d) \in ToWrite(S, offered, single)
        \/ Bare(d) \in DOMAIN S /\ (S[Bare(d)] = wanted[Bare(d)] \/ ~Managed(S, Bare(d)))
    BY <2>1, <2>2 DEF ToWrite, wanted
  <2> QED BY <2>2, <2>3 DEF Managed
<1> HIDE DEF catalogs, new
<1>4. /\ DOMAIN listed = DOMAIN S \cup DOMAIN catalogs
      /\ \A x : x \notin DOMAIN catalogs => Same(S, listed, x)
      /\ \A x \in DOMAIN catalogs : listed[x] = catalogs[x]
  <2>1. Patched(listed, S, {}, catalogs)
    BY PatchIs
  <2> HIDE DEF listed
  <2> QED BY <2>1 DEF Patched
<1> HIDE DEF listed
<1>5. Fine(listed, second)
  <2>1. IsFiniteSet(DOMAIN listed)
    BY <1>2, <1>4, BothFinite DEF Fine
  <2> QED BY <1>2, <1>4, <2>1 DEF Fine
<1>6. /\ \A x : x \notin DOMAIN new /\ x[1] # "backup" => Same(listed, profiles, x)
      /\ \A y : y[1] = "backup" /\ y[2] \notin DOMAIN new => Same(listed, profiles, y)
      /\ \A x \in DOMAIN new \cap DOMAIN listed : Full(listed, x) \/ Copied(profiles, x, listed[x])
      /\ Fine(profiles, second)
      /\ \A x \in DOMAIN new : x \in DOMAIN profiles /\ profiles[x] = new[x]
  <2>1. \A x \in DOMAIN new : x[1] # "backup"
    BY <1>3
  <2> QED BY <1>3, <1>5, <2>1, WithBackupsIs
<1> HIDE DEF profiles
<1>7. /\ gone \in SUBSET DOMAIN profiles /\ \A x \in gone : x[1] \in {"canon", "bare", "catalog"}
      /\ \A x \in gone : x[1] = "catalog" => \E q \in Routed \ DOMAIN offered : x = Catalog(q)
      /\ \A x \in gone : x[1] = "canon" => \E q \in Routed \ DOMAIN offered : x = Canon(q)
  BY SupersededIs, StaleIs
<1>8. \A x \in gone : x \notin DOMAIN catalogs
  <2> SUFFICES ASSUME NEW x \in gone, x \in DOMAIN catalogs PROVE FALSE
    OBVIOUS
  <2>1. PICK p \in Live(offered) : x = Catalog(p)
    BY DEF catalogs
  <2>2. x[1] = "catalog" /\ x[2] = p
    BY <2>1 DEF Catalog
  <2>4. PICK q \in Routed \ DOMAIN offered : x = Catalog(q)
    BY <1>7, <2>2
  <2>5. x[2] = q
    BY <2>4 DEF Catalog
  <2> QED BY <2>2, <2>4, <2>5, LiveIs
<1>20. \A q \in Live(offered) : Canon(q) \notin gone
  <2> SUFFICES ASSUME NEW q \in Live(offered), Canon(q) \in gone PROVE FALSE
    OBVIOUS
  <2>1. Canon(q)[1] = "canon" /\ Canon(q)[2] = q /\ \A o : Canon(o)[2] = o
    BY DEF Canon
  <2>2. PICK o \in Routed \ DOMAIN offered : Canon(q) = Canon(o)
    BY <1>7, <2>1
  <2> QED BY <2>1, <2>2, LiveIs
<1>22. \A d \in Direct : Bare(d) \notin gone
  <2> SUFFICES ASSUME NEW d \in Direct, Bare(d) \in gone PROVE FALSE
    OBVIOUS
  <2>1. Bare(d)[1] = "bare" /\ \A o : Bare(o)[2] = o
    BY DEF Bare
  <2>2. Bare(d) \in Superseded(profiles, offered)
    BY <2>1, StaleIs
  <2>3. PICK o \in Live(offered) \cup Variants : Bare(d) = Bare(o)
    BY <2>2 DEF Superseded
  <2>4. d \in Routed \cup Variants
    BY <2>1, <2>3, LiveIs
  <2> QED BY <2>4, FilesOK
<1>23. /\ \A q \in Live(offered) \cup Variants : Managed(profiles, Bare(q)) => Bare(q) \in gone
       /\ \A q \in Routed \ DOMAIN offered : Managed(profiles, Canon(q)) => Canon(q) \in gone
  BY DEF Superseded, Stale
<1> HIDE DEF gone
<1>9. /\ \A x : x \notin gone /\ x \in DOMAIN profiles => Same(profiles, moved, x)
      /\ \A x : x \notin gone /\ x[1] # "archive" => Same(profiles, moved, x)
      /\ \A x \in gone : x \notin DOMAIN moved /\ Copied(moved, x, profiles[x])
      /\ Fine(moved, second)
  <2>1. \A x \in gone : x[1] \notin {"backup", "archive"}
    BY <1>7
  <2> QED BY <1>6, <1>7, <2>1, ArchivedIs
<1> HIDE DEF moved
<1>10. DOMAIN config = {Config} /\ Config[1] = "config" /\ config[Config] = File("user", text, FALSE)
  BY DEF Config
<1> HIDE DEF config
<1>11. /\ \A x : x \notin DOMAIN config /\ x[1] # "backup" => Same(moved, final, x)
       /\ \A y : y[1] = "backup" /\ y[2] \notin DOMAIN config => Same(moved, final, y)
       /\ \A x \in DOMAIN config \cap DOMAIN moved : Full(moved, x) \/ Copied(final, x, moved[x])
       /\ Fine(final, second)
       /\ \A x \in DOMAIN config : x \in DOMAIN final /\ final[x] = config[x]
  <2>1. IsFiniteSet({Config})
    BY FS_Singleton
  <2>2. IsFiniteSet(DOMAIN config) /\ \A x \in DOMAIN config : x[1] # "backup"
    BY <1>10, <2>1
  <2> QED BY <1>9, <2>2, WithBackupsIs
<1> HIDE DEF final
<1>14. ASSUME NEW q \in Live(offered)
       PROVE  Served(profiles, offered, q) /\ Served(moved, offered, q) /\ Served(final, offered, q)
  <2>1. Canon(q)[1] = "canon" /\ Catalog(q)[1] = "catalog"
    BY DEF Canon, Catalog
  <2>2. Canon(q) \in DOMAIN profiles /\ profiles[Canon(q)] = ProfileFile(offered, q)
    <3>1. Canon(q) \notin DOMAIN catalogs
      BY <1>2, <2>1
    <3>2. CASE Canon(q) \in DOMAIN new
      BY <1>19, <1>6, <3>2
    <3>3. CASE Canon(q) \notin DOMAIN new
      BY <1>19, <1>4, <1>6, <2>1, <3>1, <3>3 DEF Same
    <3> QED BY <3>2, <3>3
  <2>3. Catalog(q) \in DOMAIN profiles /\ profiles[Catalog(q)] = CatalogFile(offered, q)
    <3>1. Catalog(q) \notin DOMAIN new
      BY <1>3, <2>1
    <3>2. Catalog(q) \in DOMAIN listed /\ listed[Catalog(q)] = CatalogFile(offered, q)
      BY <1>18, <1>4
    <3> QED BY <1>6, <2>1, <3>1, <3>2 DEF Same
  <2>4. Canon(q) \notin gone /\ Catalog(q) \notin gone
    BY <1>18, <1>8, <1>20
  <2>5. Served(moved, offered, q)
    BY <1>9, <2>2, <2>3, <2>4 DEF Same, Served
  <2>6. Served(final, offered, q)
    BY <1>10, <1>11, <2>1, <2>5 DEF Same, Served
  <2> QED BY <2>2, <2>3, <2>5, <2>6 DEF Served
<1>15. Same(S, profiles, Config) /\ Same(S, moved, Config)
  <2>1. Config \notin DOMAIN catalogs /\ Config \notin DOMAIN new /\ Config \notin gone
    BY <1>2, <1>3, <1>7, <1>10
  <2> QED BY <1>4, <1>6, <1>9, <1>10, <2>1 DEF Same
<1>16. Config \in DOMAIN final /\ final[Config] = File("user", text, FALSE)
  BY <1>10, <1>11
<1>17. TextIs(S, CodexStaged(S, offered, single), offered, single)
  BY <1>0, <1>15, <1>16 DEF TextIs, Same
<1>24. ASSUME ~single PROVE Settled(moved, offered) /\ Settled(final, offered)
  <2>1. (\A q : Bare(q)[1] = "bare" /\ Canon(q)[1] = "canon")
    BY DEF Bare, Canon
  <2>2. \A x : x[1] \in {"bare", "canon"} => Same(moved, final, x)
    BY <1>10, <1>11
  <2>3. ASSUME NEW d \in Direct
        PROVE  Bare(d) \in DOMAIN moved /\ (moved[Bare(d)] = DirectFile(d) \/ ~Managed(moved, Bare(d)))
    <3>1. Bare(d) \in DOMAIN profiles /\ (profiles[Bare(d)] = DirectFile(d) \/ ~Managed(profiles, Bare(d)))
      <4>1. CASE Bare(d) \in DOMAIN new
        BY <1>6, <1>21, <1>24, <4>1
      <4>2. CASE Bare(d) \notin DOMAIN new
        <5>1. Bare(d) \in DOMAIN S /\ (S[Bare(d)] = DirectFile(d) \/ ~Managed(S, Bare(d)))
          BY <1>21, <1>24, <4>2
        <5>2. Same(S, listed, Bare(d)) /\ Same(listed, profiles, Bare(d))
          BY <1>2, <1>4, <1>6, <2>1, <4>2
        <5> QED BY <5>1, <5>2 DEF Same, Managed
      <4> QED BY <4>1, <4>2
    <3>2. Same(profiles, moved, Bare(d))
      BY <1>9, <1>22, <2>1
    <3> QED BY <3>1, <3>2 DEF Same, Managed
  <2>4. ASSUME NEW x, x[1] \in {"bare", "canon"}, Managed(profiles, x) => x \in gone PROVE ~Managed(moved, x)
    <3>1. CASE x \in gone
      BY <1>9, <3>1 DEF Managed
    <3>2. CASE x \notin gone
      <4>1. Same(profiles, moved, x)
        BY <1>9, <2>4, <3>2
      <4> QED BY <2>4, <3>2, <4>1 DEF Same, Managed
    <3> QED BY <3>1, <3>2
  <2>5. /\ \A q \in Live(offered) \cup Variants : ~Managed(moved, Bare(q))
        /\ \A q \in Routed \ DOMAIN offered : ~Managed(moved, Canon(q))
    BY <1>23, <2>1, <2>4
  <2>6. Settled(moved, offered)
    BY <2>3, <2>5 DEF Settled
  <2>7. Settled(final, offered)
    BY <2>1, <2>2, <2>6 DEF Settled, Same, Managed
  <2> QED BY <2>6, <2>7
<1> HIDE DEF text
<1> SUFFICES ASSUME NEW x \in DOMAIN S, x[1] \notin {"backup", "archive"}
             PROVE  KeptAt(S, profiles, x) /\ KeptAt(S, moved, x) /\ KeptAt(S, final, x)
  BY <1>0, <1>6, <1>9, <1>11, <1>14, <1>17, <1>24
<1>12. CASE x \in DOMAIN catalogs
  <2>1. x \in DOMAIN listed /\ x[1] = "catalog"
    BY <1>2, <1>4, <1>12
  <2>2. x \in DOMAIN profiles
    BY <1>3, <1>6, <2>1 DEF Same
  <2>3. x \in DOMAIN moved
    BY <1>8, <1>9, <1>12, <2>2 DEF Same
  <2>4. x \in DOMAIN final
    BY <1>10, <1>11, <2>1, <2>3 DEF Same
  <2> QED BY <2>1, <2>2, <2>3, <2>4 DEF KeptAt
<1>13. CASE x \notin DOMAIN catalogs
  <2> DEFINE Good(T) == Same(S, T, x) \/ Copied(T, x, S[x])
  <2>1. x \in DOMAIN listed /\ listed[x] = S[x]
    BY <1>4, <1>13 DEF Same
  <2>2. Full(S, x) <=> Full(listed, x)
    <3>1. \A y : y[1] = "backup" /\ y[2] = x => Same(S, listed, y)
      BY <1>2, <1>4
    <3> QED BY <3>1, SameCopies
  <2>3. Full(S, x) \/ Good(profiles)
    BY <1>6, <2>1, <2>2 DEF Same
  <2>4. Good(profiles) => Good(moved)
    <3>1. CASE Copied(profiles, x, S[x])
      <4>1. PICK y \in DOMAIN profiles : y[1] \in {"backup", "archive"} /\ y[2] = x /\ profiles[y] = S[x]
        BY <3>1 DEF Copied
      <4>2. y \notin gone
        BY <1>7, <4>1
      <4>3. y \in DOMAIN moved /\ moved[y] = S[x]
        BY <1>9, <4>1, <4>2 DEF Same
      <4> QED BY <4>1, <4>3 DEF Copied
    <3>2. CASE Same(S, profiles, x)
      BY <1>9, <3>2 DEF Same
    <3> QED BY <3>1, <3>2
  <2>5. CASE x # Config
    <3>1. Good(moved) => Good(final)
      <4>1. CASE Copied(moved, x, S[x])
        <5>1. PICK y \in DOMAIN moved : y[1] \in {"backup", "archive"} /\ y[2] = x /\ moved[y] = S[x]
          BY <4>1 DEF Copied
        <5>2. y \in DOMAIN final /\ final[y] = S[x]
          BY <1>10, <1>11, <2>5, <5>1 DEF Same
        <5> QED BY <5>1, <5>2 DEF Copied
      <4>2. CASE Same(S, moved, x)
        BY <1>10, <1>11, <2>5, <4>2 DEF Same
      <4> QED BY <4>1, <4>2
    <3> QED BY <2>3, <2>4, <3>1 DEF KeptAt
  <2>6. CASE x = Config
    <3>1. x \notin DOMAIN new /\ x \notin gone
      BY <1>3, <1>7, <1>10, <2>6
    <3>2. Same(S, profiles, x) /\ Same(S, moved, x)
      BY <1>6, <1>9, <2>1, <3>1 DEF Same
    <3>3. Full(S, x) <=> Full(moved, x)
      <4>1. ASSUME NEW y, y[1] = "backup", y[2] = x PROVE Same(S, moved, y)
        <5>1. Same(S, listed, y)
          BY <1>2, <1>4, <4>1
        <5>2. Same(listed, profiles, y)
          BY <1>6, <3>1, <4>1
        <5>3. y \notin gone
          BY <1>7, <4>1
        <5>4. Same(profiles, moved, y)
          BY <1>9, <4>1, <5>3
        <5> QED BY <5>1, <5>2, <5>4 DEF Same
      <4> QED BY <4>1, SameCopies
    <3>4. Full(S, x) \/ Copied(final, x, S[x])
      BY <1>10, <1>11, <2>6, <3>2, <3>3 DEF Same
    <3> QED BY <3>2, <3>4 DEF KeptAt
  <2> QED BY <2>5, <2>6
<1> QED BY <1>12, <1>13

\* ... and so does what a run of Claude Code's sync stages.
LEMMA ClaudeKeeps ==
    ASSUME second \in Nat, NEW S, Fine(S, second), NEW path
    PROVE  /\ NoneAhead(ClaudeStaged(S, path), second)
           /\ \A x \in DOMAIN S : x[1] \notin {"backup", "archive"} => KeptAt(S, ClaudeStaged(S, path), x)
<1> DEFINE launchers == [x \in {Launcher(l) : l \in Launchers} |-> LauncherFile(x[2], RealClaude(S, path))]
           repaired == File("user", Repaired(S[Settings].says), FALSE)
           y == FreeName(S, "backup", Settings)
           settings == IF Settings \notin DOMAIN S \/ S[Settings] = repaired THEN <<>>
                       ELSE [x \in {Settings, y} |-> IF x = Settings THEN repaired ELSE S[Settings]]
           tidied == Patch(S, {}, settings)
           final == ClaudeStaged(S, path)
<1>1. final = Patch(tidied, {}, launchers)
  BY DEF ClaudeStaged
<1>2. \A x \in DOMAIN launchers : x[1] = "launcher"
  BY DEF Launcher
<1>3. y \notin DOMAIN S /\ y[1] = "backup" /\ y[2] = Settings /\ y[3] = second /\ Settings[1] = "settings"
  <2>1. y \notin DOMAIN S /\ \E n \in Nat : y = <<"backup", Settings, second, n>>
    BY FreeNameIs DEF Fine
  <2>2. Settings[1] = "settings"
    BY DEF Settings
  <2> HIDE DEF y
  <2> QED BY <2>1, <2>2
<1> HIDE DEF y
<1>4. \/ DOMAIN settings = {}
      \/ DOMAIN settings = {Settings, y} /\ settings[y] = S[Settings]
  <2>1. DOMAIN <<>> = {} /\ Settings # y
    BY <1>3
  <2> QED BY <2>1
<1> HIDE DEF settings, launchers
<1>5. Patched(tidied, S, {}, settings) /\ Patched(final, tidied, {}, launchers)
  BY <1>1, PatchIs
<1> HIDE DEF tidied, final
<1>9. NoneAhead(final, second)
  <2>1. ASSUME NEW x \in DOMAIN final, x[1] = "backup" PROVE x[3] \in 0..second
    <3>1. x \in DOMAIN S \/ x = y
      BY <1>2, <1>3, <1>4, <1>5, <2>1 DEF Patched
    <3> QED BY <1>3, <2>1, <3>1 DEF Fine
  <2> QED BY <2>1 DEF NoneAhead
<1> SUFFICES ASSUME NEW x \in DOMAIN S, x[1] \notin {"backup", "archive"} PROVE KeptAt(S, final, x)
  BY <1>9 DEF final
<1>6. CASE x[1] = "launcher"
  <2>1. x \in DOMAIN final
    BY <1>5 DEF Patched
  <2> QED BY <1>6, <2>1 DEF KeptAt
<1>7. CASE x \notin DOMAIN settings /\ x[1] # "launcher"
  <2>1. Same(S, final, x)
    BY <1>2, <1>5, <1>7 DEF Patched, Same
  <2> QED BY <2>1 DEF KeptAt
<1>8. CASE x \in DOMAIN settings
  <2>1. x = Settings /\ y \in DOMAIN settings /\ settings[y] = S[x]
    BY <1>3, <1>4, <1>8
  <2>2. y \in DOMAIN tidied /\ tidied[y] = S[x]
    BY <1>5, <2>1 DEF Patched
  <2>3. y \in DOMAIN final /\ final[y] = S[x]
    BY <1>2, <1>3, <1>5, <2>2 DEF Patched, Same
  <2> QED BY <1>3, <2>1, <2>3 DEF KeptAt, Copied
<1> QED BY <1>6, <1>7, <1>8

\* A run is a record of these fields.
RunIs(r) == r = [mode |-> r.mode, phase |-> r.phase, seen |-> r.seen, staged |-> r.staged,
            input |-> r.input, written |-> r.written, calm |-> r.calm]

\* A run that writes leaves what it replaces in a copy, and while nobody else writes,
\* the files are those it copied and those it has written.
KeepOK(r) ==
    /\ RunIs(r)
    /\ r.phase \in {"idle", "staging", "writing", "done"}
    /\ r.phase # "idle" => Fine(r.seen, second)
    /\ r.phase = "staging" => r.written = {}
    /\ r.phase # "idle" /\ r.calm => \A x : Same(disk, IF x \in r.written THEN r.staged ELSE r.seen, x)
    /\ r.phase \in {"writing", "done"} =>
          /\ NoneAhead(r.staged, second)
          /\ \A x \in DOMAIN r.seen : x[1] \notin {"backup", "archive"} => KeptAt(r.seen, r.staged, x)
    /\ r.phase = "done" => Differ(r.seen, r.staged) \subseteq r.written

KeepInv == second \in Nat /\ Fine(disk, second) /\ KeepOK(run)

\* After a run that nobody disturbed the files are what was staged.
LEMMA NothingElseWas ==
    ASSUME KeepInv, run.phase = "done", run.calm
    PROVE  \A x : Same(disk, run.staged, x)
<1> SUFFICES ASSUME NEW x PROVE Same(disk, run.staged, x)
  OBVIOUS
<1>1. Same(disk, IF x \in run.written THEN run.staged ELSE run.seen, x)
  BY DEF KeepInv, KeepOK
<1>2. x \in run.written \/ x \notin Differ(run.seen, run.staged)
  BY DEF KeepInv, KeepOK
<1>3. x \notin Differ(run.seen, run.staged) => Same(run.seen, run.staged, x)
  BY DEF Differ, Same
<1> QED BY <1>1, <1>2, <1>3 DEF Same

LEMMA KeptIsKept == KeepInv => ReplacedIsKept
<1> SUFFICES ASSUME KeepInv, run.phase = "done", run.calm,
                    NEW x \in Differ(run.seen, disk) \cap DOMAIN run.seen, x[1] \notin {"backup", "archive"}
             PROVE  \/ x[1] \in {"catalog", "launcher"} /\ x \in DOMAIN disk
                    \/ Copied(disk, x, run.seen[x])
                    \/ Full(run.seen, x)
  BY DEF ReplacedIsKept, Converged, Copied, Full
<1>1. \A y : Same(disk, run.staged, y)
  BY NothingElseWas
<1>2. KeptAt(run.seen, run.staged, x)
  BY DEF KeepInv, KeepOK
<1>3. ~Same(run.seen, run.staged, x)
  BY <1>1 DEF Differ, Same
<1>4. Copied(run.staged, x, run.seen[x]) => Copied(disk, x, run.seen[x])
  BY <1>1 DEF Copied, Same
<1> QED BY <1>1, <1>2, <1>3, <1>4 DEF KeptAt, Same

\* What a Codex run asks about are prefixes it may write.
LEMMA DiscoveredAreRouted == \A offered \in Discovered : DOMAIN offered \subseteq Routed
<1> SUFFICES ASSUME NEW offered \in Discovered PROVE DOMAIN offered \subseteq Routed
  OBVIOUS
<1>1. PICK exposed \in IF run.mode = "codex" THEN {Routed \ gone : gone \in SUBSET Optional} ELSE {{p} : p \in Routed} :
        offered \in [exposed -> Offers]
  BY DEF Discovered
<1>2. exposed \subseteq Routed
  BY <1>1
<1> QED BY <1>1, <1>2

LEMMA IdleKeeps == ASSUME KeepInv, run' = Idle, second' = second, Fine(disk', second) PROVE KeepInv'
BY DEF KeepInv, KeepOK, Idle, RunIs

\* The clock goes on.
LEMMA FineLater == ASSUME NEW S, NEW now \in Nat, Fine(S, now) PROVE Fine(S, now + 1)
<1>1. \A y \in DOMAIN S : y[1] = "backup" => y[3] \in 0..(now + 1)
  BY DEF Fine
<1> QED BY <1>1 DEF Fine

LEMMA StartKeeps == ASSUME KeepInv, NEW mode, Start(mode) PROVE KeepInv'
<1>1. second' \in Nat /\ Fine(disk, second') /\ disk' = disk
  BY FineLater DEF Start, KeepInv
<1>2. run' = [mode |-> mode, phase |-> "staging", seen |-> disk, staged |-> <<>>, input |-> None, written |-> {}, calm |-> TRUE]
  BY DEF Start, Idle
<1>3. \A x : Same(disk, disk, x)
  BY DEF Same
<1> QED BY <1>1, <1>2, <1>3 DEF KeepInv, KeepOK, RunIs

LEMMA StageKeeps ==
    ASSUME KeepInv, run.phase = "staging", NEW input, NEW refused, NEW staged, Stage(input, refused, staged),
           NoneAhead(staged, second),
           \A x \in DOMAIN run.seen : x[1] \notin {"backup", "archive"} => KeptAt(run.seen, staged, x)
    PROVE  KeepInv'
<1>1. CASE refused
  BY <1>1, IdleKeeps DEF Stage, Refused, KeepInv
<1>2. CASE ~refused
  <2>1. /\ second' = second /\ disk' = disk
        /\ run' = [mode |-> run.mode, phase |-> "writing", seen |-> run.seen, staged |-> staged,
                   input |-> input, written |-> {}, calm |-> run.calm]
    BY <1>2 DEF Stage, KeepInv, KeepOK, RunIs
  <2>2. \A x \in DOMAIN run.seen : x[1] \notin {"backup", "archive"} => KeptAt(run.seen, staged, x)'
    BY <2>1 DEF KeptAt, Full
  <2> QED BY <2>1, <2>2 DEF KeepInv, KeepOK, RunIs
<1> QED BY <1>1, <1>2

LEMMA StagedKeeps == ASSUME KeepInv, StageCodex \/ StageClaude PROVE KeepInv'
<1>0. second \in Nat /\ run.phase = "staging" /\ Fine(run.seen, second)
  BY DEF StageCodex, StageClaude, KeepInv, KeepOK
<1>1. ASSUME Refused PROVE KeepInv'
  BY <1>1, IdleKeeps DEF Refused, KeepInv
<1>2. CASE StageCodex
  <2>1. PICK offered \in Discovered :
          LET single == run.mode = "provider"
              staged == CodexStaged(run.seen, offered, single)
          IN IF \/ \E p \in DOMAIN offered \ Optional : offered[p] = <<>>
                \/ CodexRefused(run.seen, offered, single)
             THEN Refused
             ELSE Stage(offered, Differ(run.seen, staged) \cap Differ(run.seen, disk) # {}, staged)
    BY <1>2 DEF StageCodex
  <2> DEFINE single == run.mode = "provider"
             staged == CodexStaged(run.seen, offered, single)
             refused == Differ(run.seen, staged) \cap Differ(run.seen, disk) # {}
  <2>2. Refused \/ Stage(offered, refused, staged)
    BY <2>1
  <2>3. /\ Fine(staged, second)
        /\ \A x \in DOMAIN run.seen : x[1] \notin {"backup", "archive"} => KeptAt(run.seen, staged, x)
    <3>1. DOMAIN offered \subseteq Routed
      BY DiscoveredAreRouted
    <3> QED BY <1>0, <3>1, CodexKeeps
  <2>4. NoneAhead(staged, second)
    BY <2>3 DEF Fine, NoneAhead
  <2> HIDE DEF staged, refused
  <2> QED BY <1>0, <1>1, <2>2, <2>3, <2>4, StageKeeps
<1>3. CASE StageClaude
  <2>1. PICK path \in PathEntries : Refused \/ Stage(path, FALSE, ClaudeStaged(run.seen, path))
    BY <1>3 DEF StageClaude
  <2>2. /\ NoneAhead(ClaudeStaged(run.seen, path), second)
        /\ \A x \in DOMAIN run.seen : x[1] \notin {"backup", "archive"} =>
              KeptAt(run.seen, ClaudeStaged(run.seen, path), x)
    BY <1>0, ClaudeKeeps
  <2> QED BY <1>0, <1>1, <2>1, <2>2, StageKeeps
<1> QED BY <1>2, <1>3

LEMMA SameIsSymmetric == ASSUME NEW S, NEW T, NEW x, Same(S, T, x) PROVE Same(T, S, x)
BY DEF Same

LEMMA WriteKeeps == ASSUME KeepInv, Write PROVE KeepInv'
<1> DEFINE n == NextPath
           new == Part(run.staged, {n})
<1>1. /\ run.phase = "writing" /\ n \in Pending /\ second' = second
      /\ disk' = Patch(disk, {n}, new)
  BY NextPathIsPending DEF Write
<1>2. run' = [run EXCEPT !.written = @ \cup {n}]
  BY DEF Write
<1>3. DOMAIN new = {n} \cap DOMAIN run.staged /\ \A x \in {n} \cap DOMAIN run.staged : new[x] = run.staged[x]
  BY PartParts
<1> HIDE DEF n, new
<1>4. Patched(disk', disk, {n}, new)
  BY <1>1, PatchIs
<1>5. Fine(disk', second)
  <2>1. IsFiniteSet(DOMAIN disk')
    <3>1. IsFiniteSet(DOMAIN disk) /\ IsFiniteSet({n})
      BY FS_Singleton DEF KeepInv, Fine
    <3>2. DOMAIN disk' \subseteq DOMAIN disk \cup {n}
      BY <1>3, <1>4 DEF Patched
    <3> QED BY <3>1, <3>2, BothFinite
  <2>2. ASSUME NEW y \in DOMAIN disk', y[1] = "backup" PROVE y[3] \in 0..second
    <3>1. y \in DOMAIN disk \/ y \in DOMAIN run.staged
      BY <1>3, <1>4 DEF Patched
    <3> QED BY <1>1, <2>2, <3>1 DEF KeepInv, KeepOK, Fine, NoneAhead
  <2> QED BY <2>1, <2>2 DEF Fine
<1>6. /\ run'.mode = run.mode /\ run'.phase = "writing" /\ run'.seen = run.seen /\ run'.staged = run.staged
      /\ run'.written = run.written \cup {n} /\ run'.calm = run.calm /\ RunIs(run')
  BY <1>1, <1>2 DEF KeepInv, KeepOK, RunIs
<1>7. Same(disk', run.staged, n)
  <2>1. n \in DOMAIN disk' <=> n \in DOMAIN run.staged
    BY <1>3, <1>4 DEF Patched
  <2>2. n \in DOMAIN run.staged => disk'[n] = run.staged[n]
    BY <1>3, <1>4 DEF Patched
  <2> QED BY <2>1, <2>2 DEF Same
<1>8. ASSUME NEW x, x # n PROVE Same(disk, disk', x)
  BY <1>3, <1>4, <1>8 DEF Patched
<1>9. ASSUME run.calm, NEW x PROVE Same(disk', IF x \in run'.written THEN run.staged ELSE run.seen, x)
  <2>1. CASE x = n
    BY <1>6, <1>7, <2>1
  <2>2. CASE x # n
    <3>1. Same(disk, IF x \in run.written THEN run.staged ELSE run.seen, x)
      BY <1>1, <1>9 DEF KeepInv, KeepOK
    <3>2. Same(disk', disk, x)
      BY <1>8, <2>2 DEF Same
    <3> QED BY <1>6, <2>2, <3>1, <3>2 DEF Same
  <2> QED BY <2>1, <2>2
<1>10. \A x \in DOMAIN run.seen : x[1] \notin {"backup", "archive"} => KeptAt(run.seen, run.staged, x)'
  BY <1>1, <1>6 DEF KeepInv, KeepOK, KeptAt, Full
<1>11. /\ Fine(run'.seen, second) /\ NoneAhead(run'.staged, second)
  BY <1>1, <1>6 DEF KeepInv, KeepOK
<1>12. second \in Nat
  BY DEF KeepInv
<1> QED BY <1>1, <1>5, <1>6, <1>9, <1>10, <1>11, <1>12 DEF KeepInv, KeepOK

LEMMA FinishKeeps == ASSUME KeepInv, Finish PROVE KeepInv'
<1>1. /\ run.phase = "writing" /\ second' = second /\ disk' = disk
      /\ run' = [run EXCEPT !.phase = "done"] /\ Differ(run.seen, run.staged) \subseteq run.written
  BY DEF Finish, Pending
<1>2. /\ run'.mode = run.mode /\ run'.phase = "done" /\ run'.seen = run.seen /\ run'.staged = run.staged
      /\ run'.written = run.written /\ run'.calm = run.calm /\ RunIs(run')
  BY <1>1 DEF KeepInv, KeepOK, RunIs
<1>3. \A x \in DOMAIN run.seen : x[1] \notin {"backup", "archive"} => KeptAt(run.seen, run.staged, x)'
  BY <1>1, <1>2 DEF KeepInv, KeepOK, KeptAt, Full
<1> QED BY <1>1, <1>2, <1>3 DEF KeepInv, KeepOK

LEMMA UndoneKeeps == ASSUME KeepInv, Undo \/ Kill PROVE KeepInv'
<1>1. run.phase = "writing" /\ run' = Idle /\ second' = second
  BY DEF Undo, Kill
<1>2. CASE Kill
  BY <1>1, <1>2, IdleKeeps DEF Kill, KeepInv
<1>3. CASE Undo
  <2> DEFINE back == run.written \ Differ(run.staged, disk)
             old == Part(run.seen, back)
  <2>1. disk' = Patch(disk, back, old)
    BY <1>3 DEF Undo
  <2>2. DOMAIN old = back \cap DOMAIN run.seen
    BY PartParts
  <2> HIDE DEF back, old
  <2>3. Patched(disk', disk, back, old)
    BY <2>1, PatchIs
  <2>4. DOMAIN disk' \subseteq DOMAIN disk \cup DOMAIN run.seen
    BY <2>2, <2>3 DEF Patched
  <2>5. Fine(disk, second) /\ Fine(run.seen, second)
    BY <1>1 DEF KeepInv, KeepOK
  <2>6. IsFiniteSet(DOMAIN disk')
    BY <2>4, <2>5, BothFinite DEF Fine
  <2>7. Fine(disk', second)
    BY <2>4, <2>5, <2>6 DEF Fine
  <2> QED BY <1>1, <2>7, IdleKeeps
<1> QED BY <1>2, <1>3

LEMMA EditKeeps == ASSUME KeepInv, NEW x, NEW file, Edit(x, file), x[1] # "backup" PROVE KeepInv'
<1> DEFINE new == [y \in {x} |-> file]
<1>1. disk' = Patch(disk, {}, new) /\ run' = [run EXCEPT !.calm = FALSE] /\ second' = second
  BY DEF Edit
<1>2. DOMAIN new = {x}
  OBVIOUS
<1> HIDE DEF new
<1>3. DOMAIN disk' = DOMAIN disk \cup {x}
  <2>1. Patched(disk', disk, {}, new)
    BY <1>1, PatchIs
  <2> QED BY <1>2, <2>1 DEF Patched
<1>4. IsFiniteSet(DOMAIN disk')
  BY <1>3, BothFinite, FS_Singleton DEF KeepInv, Fine
<1>5. Fine(disk', second)
  BY <1>3, <1>4 DEF KeepInv, Fine
<1>6. /\ run'.mode = run.mode /\ run'.phase = run.phase /\ run'.seen = run.seen /\ run'.staged = run.staged
      /\ run'.written = run.written /\ run'.calm = FALSE /\ RunIs(run')
  BY <1>1 DEF KeepInv, KeepOK, RunIs
<1>7. run.phase \in {"writing", "done"} =>
        \A y \in DOMAIN run.seen : y[1] \notin {"backup", "archive"} => KeptAt(run.seen, run.staged, y)'
  BY <1>1, <1>6 DEF KeepInv, KeepOK, KeptAt, Full
<1> QED BY <1>1, <1>5, <1>6, <1>7 DEF KeepInv, KeepOK

LEMMA KeepStep == ASSUME KeepInv, [FilesNext]_filesVars PROVE KeepInv'
<1>1. CASE UNCHANGED filesVars
  BY <1>1 DEF filesVars, KeepInv, KeepOK, KeptAt, Full
<1>2. ASSUME NEW x \in UserPaths, Edit(x, UserFile) PROVE KeepInv'
  BY <1>2, EditKeeps, UserPathKinds
<1>3. ASSUME NEW text, Edit(Config, File("user", text, FALSE)) PROVE KeepInv'
  <2>1. Config[1] # "backup"
    BY DEF Config
  <2> QED BY <1>3, <2>1, EditKeeps
<1> QED BY <1>1, <1>2, <1>3, StartKeeps, StagedKeeps, WriteKeeps, FinishKeeps, UndoneKeeps DEF FilesNext

LEMMA StartKeepInv == ASSUME FilesInit PROVE KeepInv
<1>1. \A y \in DOMAIN disk : y[1] = "backup" => y[3] \in 0..second
  BY StartFilesOK DEF FilesInit
<1>2. Fine(disk, second)
  BY <1>1, StartFilesOK DEF FilesInit, Fine
<1> QED BY <1>2 DEF FilesInit, KeepInv, KeepOK, Idle, RunIs

\* Whatever the sync of either client replaced or took away is in a copy when the run
\* ends: _make_backup and _archive_file take the first name that is free, and
\* _rotate_backups takes no copy of this run, unless a single second has seen
\* BACKUPS_KEPT copies of the file before.
THEOREM ReplacedFilesAreKept == FilesSpec => []ReplacedIsKept
<1>1. FilesInit => KeepInv
  BY StartKeepInv
<1>2. KeepInv /\ [FilesNext]_filesVars => KeepInv'
  BY KeepStep
<1> QED BY <1>1, <1>2, KeptIsKept, PTL DEF FilesSpec

-----------------------------------------------------------------------------
(* Texts *)

LEMMA NextHeaderIs ==
    ASSUME NEW L, NEW text \in Seq(L), NEW i \in 0..Len(text)
    PROVE  /\ NextHeader(text, i) \in (i + 1)..(Len(text) + 1)
           /\ \A j \in (i + 1)..(NextHeader(text, i) - 1) : ~IsHeader(text[j])
<1> DEFINE hits == {j \in (i + 1)..Len(text) : IsHeader(text[j])}
<1>1. Len(text) \in Nat /\ hits \in SUBSET Nat /\ hits \in SUBSET ((i + 1)..Len(text))
  OBVIOUS
<1>2. NextHeader(text, i) = IF hits = {} THEN Len(text) + 1 ELSE Min(hits)
  BY DEF NextHeader
<1>3. hits # {} => Min(hits) \in hits /\ \A k \in hits : Min(hits) <= k
  <2> HIDE DEF hits
  <2> QED BY <1>1, MinIs
<1> DEFINE next == NextHeader(text, i)
           n == Len(text)
<1>4. next \in (i + 1)..(n + 1)
  <2>1. i \in Nat /\ n \in Nat /\ i <= n
    BY <1>1
  <2>2. hits = {} => next = n + 1
    BY <1>2
  <2>3. hits # {} => next \in (i + 1)..n
    BY <1>1, <1>2, <1>3
  <2> HIDE DEF hits, n, next
  <2> QED BY <2>1, <2>2, <2>3
<1>5. ASSUME NEW j \in (i + 1)..(NextHeader(text, i) - 1) PROVE j \notin hits /\ j \in (i + 1)..Len(text)
  <2> HIDE DEF hits
  <2>1. j \in (i + 1)..Len(text)
    BY <1>1, <1>4
  <2>2. CASE hits = {}
    BY <2>1, <2>2
  <2>3. CASE hits # {}
    <3>1. next \in Nat /\ j < next /\ j \in Nat
      BY <1>1, <1>4
    <3>2. next = Min(hits)
      BY <1>2, <2>3
    <3> HIDE DEF next
    <3>3. j \in hits => next <= j
      BY <1>3, <2>3, <3>2
    <3> QED BY <2>1, <3>1, <3>3
  <2> QED BY <2>2, <2>3
<1> QED BY <1>4, <1>5

LEMMA FindIs ==
    ASSUME NEW L, NEW text \in Seq(L), NEW lines, NEW i \in Nat \ {0}
    PROVE  /\ Find(text, lines, i) = 0 => \A j \in i..Len(text) : text[j] \notin lines
           /\ Find(text, lines, i) # 0 => /\ Find(text, lines, i) \in i..Len(text)
                                          /\ text[Find(text, lines, i)] \in lines
           /\ Find(text, lines, i) \in Nat
<1> DEFINE hits == {j \in i..Len(text) : text[j] \in lines}
<1>1. Len(text) \in Nat /\ hits \in SUBSET Nat /\ 0 \notin hits
  OBVIOUS
<1>2. Find(text, lines, i) = IF hits = {} THEN 0 ELSE Min(hits)
  BY DEF Find
<1>3. hits # {} => Min(hits) \in hits
  <2> HIDE DEF hits
  <2> QED BY <1>1, MinIs
<1>4. CASE hits = {}
  BY <1>2, <1>4
<1>5. CASE hits # {}
  <2>1. Find(text, lines, i) \in hits
    BY <1>2, <1>3, <1>5
  <2> HIDE DEF Find
  <2> QED BY <1>1, <2>1
<1> QED BY <1>4, <1>5

LEMMA KeepInSeq ==
    ASSUME NEW L, NEW text \in Seq(L), NEW indices
    PROVE  Keep(text, indices) \in Seq(L)
<1> DEFINE kept == indices \cap DOMAIN text
<1>1. Len(text) \in Nat /\ DOMAIN text = 1..Len(text) /\ kept \in SUBSET (1..Len(text))
  OBVIOUS
<1> HIDE DEF kept
<1>2. Cardinality(kept) \in Nat
  BY <1>1, PlaceAppend
<1>3. \A k \in 1..Cardinality(kept) : text[Nth(kept, k)] \in L
  <2>1. ASSUME NEW k \in 1..Cardinality(kept) PROVE text[Nth(kept, k)] \in L
    <3>1. Nth(kept, k) \in kept
      BY <1>1, NthIs
    <3>2. Nth(kept, k) \in 1..Len(text)
      BY <1>1, <3>1
    <3> QED BY <3>2
  <2> QED BY <2>1
<1>4. [k \in 1..Cardinality(kept) |-> text[Nth(kept, k)]] \in [1..Cardinality(kept) -> L]
  BY <1>3
<1>5. Keep(text, indices) \in [1..Cardinality(kept) -> L]
  BY <1>4 DEF Keep, kept
<1> QED BY <1>2, <1>5

LEMMA InsertInSeq ==
    ASSUME NEW L, NEW text \in Seq(L), NEW line \in L, NEW i \in 1..(Len(text) + 1)
    PROVE  InsertAt(text, i, line) \in Seq(L)
<1>1. Len(text) \in Nat /\ <<line>> \in Seq(L)
  OBVIOUS
<1>2. SubSeq(text, 1, i - 1) \in Seq(L) /\ SubSeq(text, i, Len(text)) \in Seq(L)
  BY <1>1
<1> QED BY <1>1, <1>2 DEF InsertAt

LEMMA EnsureDefaultModelInSeq ==
    ASSUME NEW L, NEW text \in Seq(L), Line("model", DefaultModel) \in L
    PROVE  EnsureDefaultModel(text) \in Seq(L)
<1>1. 0 \in 0..Len(text) /\ Len(text) \in Nat
  OBVIOUS
<1>2. NextHeader(text, 0) \in 1..(Len(text) + 1)
  BY <1>1, NextHeaderIs
<1>3. InsertAt(text, NextHeader(text, 0), Line("model", DefaultModel)) \in Seq(L)
  BY <1>2, InsertInSeq
<1> QED BY <1>3 DEF EnsureDefaultModel

LEMMA StripBlockInSeq ==
    ASSUME NEW L, NEW text \in Seq(L), NEW b, ~Unended(text, b)
    PROVE  StripBlock(text, b) \in Seq(L)
<1> DEFINE from == BlockStart(text, b)
           to == BlockEnd(text, b)
<1>1. from \in Nat /\ (from # 0 => from \in 1..Len(text))
  BY FindIs DEF BlockStart
<1>2. to \in Nat /\ (to # 0 => to \in (from + 1)..Len(text))
  BY <1>1, FindIs DEF BlockEnd
<1>3. from # 0 => to # 0
  BY DEF Unended
<1>4. CASE from # 0
  <2>1. StripBlock(text, b) = SubSeq(text, 1, from - 1) \o SubSeq(text, to + 1, Len(text))
    BY <1>4 DEF StripBlock
  <2> HIDE DEF from, to
  <2>2. SubSeq(text, 1, from - 1) \in Seq(L) /\ SubSeq(text, to + 1, Len(text)) \in Seq(L)
    BY <1>1, <1>2, <1>3, <1>4
  <2> QED BY <2>1, <2>2
<1>5. CASE from = 0
  <2> DEFINE strip == StripOverlays(text)
             i == Find(strip, {Line("end", b)}, 1)
  <2>1. strip \in Seq(L)
    BY KeepInSeq DEF StripOverlays
  <2>2. StripLoneEnd(strip, b) = IF i = 0 THEN strip ELSE RemoveAt(strip, i)
    BY DEF StripLoneEnd
  <2> HIDE DEF strip
  <2>3. i \in Nat /\ (i # 0 => i \in 1..Len(strip))
    BY <2>1, FindIs
  <2> HIDE DEF i
  <2>4. i # 0 => SubSeq(strip, 1, i - 1) \in Seq(L) /\ SubSeq(strip, i + 1, Len(strip)) \in Seq(L)
    BY <2>1, <2>3
  <2>5. StripLoneEnd(strip, b) \in Seq(L)
    BY <2>1, <2>2, <2>4 DEF RemoveAt
  <2>6. StripBlock(text, b) \in {text, StripLoneEnd(strip, b)}
    BY <1>5 DEF StripBlock, strip
  <2> QED BY <2>5, <2>6
<1> QED BY <1>4, <1>5

LEMMA StrippedInSeq ==
    ASSUME NEW L, NEW text \in Seq(L), Line("model", DefaultModel) \in L, ~RewriteRefused(text)
    PROVE  Stripped(text) \in Seq(L)
<1> DEFINE t1 == EnsureDefaultModel(text)
           t2 == StripBlock(t1, "catalog")
           t3 == StripBlock(t2, "nux")
<1>1. ~Unended(t1, "catalog") /\ ~Unended(t2, "nux") /\ ~Unended(t3, "profiles")
  BY DEF RewriteRefused
<1>2. Stripped(text) = StripBlock(t3, "profiles")
  BY DEF Stripped
<1>3. t1 \in Seq(L)
  BY EnsureDefaultModelInSeq
<1> HIDE DEF t1
<1>4. t2 \in Seq(L)
  BY <1>1, <1>3, StripBlockInSeq
<1> HIDE DEF t2
<1>5. t3 \in Seq(L)
  BY <1>1, <1>4, StripBlockInSeq
<1> HIDE DEF t3
<1> QED BY <1>1, <1>2, <1>5, StripBlockInSeq

LEMMA HasTableIs == ASSUME NEW text, NEW p PROVE HasTable(text, p) <=> Among(Line("table", p), text)
BY DEF HasTable, Among

\* The bearer token of Claude's table disturbs no header.
LEMMA EnsureBearerKeeps ==
    ASSUME NEW L, NEW text \in Seq(L), Line("bearer", Claude) \in L
    PROVE  /\ EnsureBearer(text) \in Seq(L)
           /\ \A p : HasTable(text, p) => HasTable(EnsureBearer(text), p)
<1> DEFINE header == Find(text, {Line("table", Claude)}, 1)
           last == NextHeader(text, header) - 1
           table == SubSeq(text, header + 1, last)
           body == Keep(table, {i \in DOMAIN table : table[i][1] # "env_key"})
           wire == Find(body, {Line("wire_api", Claude)}, 1)
           place == IF wire = 0 THEN Len(body) + 1 ELSE wire
           bearer == IF \E i \in 1..Len(body) : body[i][1] = "bearer" THEN body
                     ELSE InsertAt(body, place, Line("bearer", Claude))
           above == SubSeq(text, 1, header)
           rest == SubSeq(text, last + 1, Len(text))
<1>1. EnsureBearer(text) = IF header = 0 THEN text ELSE (above \o bearer) \o rest
  BY DEF EnsureBearer
<1>2. header \in Nat /\ (header # 0 => header \in 1..Len(text)) /\ Len(text) \in Nat
  BY FindIs
<1>3. CASE header = 0
  BY <1>1, <1>3
<1>4. CASE header # 0
  <2> HIDE DEF header
  <2>1. /\ last \in header..Len(text)
        /\ \A j \in (header + 1)..last : ~IsHeader(text[j])
    <3>1. header \in 0..Len(text)
      BY <1>2, <1>4
    <3>2. NextHeader(text, header) \in (header + 1)..(Len(text) + 1)
      BY <3>1, NextHeaderIs
    <3>3. \A j \in (header + 1)..(NextHeader(text, header) - 1) : ~IsHeader(text[j])
      BY <3>1, NextHeaderIs
    <3> QED BY <1>2, <3>2, <3>3
  <2> HIDE DEF last
  <2>2. table \in Seq(L) /\ above \in Seq(L) /\ rest \in Seq(L)
    BY <1>2, <1>4, <2>1
  <2>3. body \in Seq(L)
    <3> HIDE DEF table
    <3> QED BY <2>2, KeepInSeq
  <2>4. bearer \in Seq(L)
    <3> HIDE DEF body
    <3>1. wire \in Nat /\ (wire # 0 => wire \in 1..Len(body)) /\ Len(body) \in Nat
      BY <2>3, FindIs
    <3>2. place \in 1..(Len(body) + 1)
      <4> HIDE DEF wire
      <4> QED BY <3>1
    <3> HIDE DEF place
    <3>3. InsertAt(body, place, Line("bearer", Claude)) \in Seq(L)
      BY <2>3, <3>2, InsertInSeq
    <3> QED BY <2>3, <3>3
  <2> HIDE DEF bearer
  <2>5. above \o bearer \in Seq(L)
    <3> HIDE DEF above
    <3> QED BY <2>2, <2>4
  <2>6. EnsureBearer(text) \in Seq(L)
    <3> HIDE DEF above, rest
    <3> QED BY <1>1, <1>4, <2>2, <2>5
  <2>7. ASSUME NEW p, HasTable(text, p) PROVE HasTable(EnsureBearer(text), p)
    <3>1. PICK i \in 1..Len(text) : text[i] = Line("table", p)
      BY <2>7 DEF HasTable
    <3>2. i \notin (header + 1)..last
      BY <2>1, <3>1 DEF IsHeader, Line
    <3>3. Among(Line("table", p), above) \/ Among(Line("table", p), rest)
      <4>1. CASE i <= header
        <5>1. i \in 1..Len(above) /\ above[i] = text[i]
          BY <1>2, <1>4, <4>1
        <5> QED BY <3>1, <5>1 DEF Among
      <4>2. CASE i > last
        <5>1. i - last \in 1..Len(rest) /\ rest[i - last] = text[i]
          BY <1>2, <2>1, <4>2
        <5> QED BY <3>1, <5>1 DEF Among
      <4> QED BY <1>2, <2>1, <3>2, <4>1, <4>2
    <3> HIDE DEF above, rest
    <3>4. Among(Line("table", p), above) => Among(Line("table", p), above \o bearer)
      BY <2>2, <2>4, AmongBoth
    <3>5. Among(Line("table", p), (above \o bearer) \o rest)
      BY <2>2, <2>5, <3>3, <3>4, AmongBoth
    <3> QED BY <1>1, <1>4, <3>5, HasTableIs
  <2> QED BY <2>6, <2>7
<1> QED BY <1>3, <1>4

\* The lines that the sync adds for some prefixes.
Added(prefixes) ==
    {Line(kind, p) : kind \in {"table", "bearer", "wire_api"}, p \in prefixes \cup {Claude}}
        \cup {Line("begin", "gateway"), Line("end", "gateway")}

\* Every prefix has its table.
LEMMA EnsureTablesIs ==
    ASSUME NEW L, NEW text \in Seq(L), NEW prefixes, IsFiniteSet(prefixes), Added(prefixes) \subseteq L
    PROVE  /\ EnsureTables(text, prefixes) \in Seq(L)
           /\ \A p \in prefixes : HasTable(EnsureTables(text, prefixes), p)
<1> DEFINE without == {p \in prefixes : ~HasTable(text, p)}
           missing == SetToSeq(without)
           list == [i \in 1..Len(missing) |-> ProviderTable(missing[i])]
           tables == FlattenSeq(list)
           begin == <<Line("begin", "gateway")>>
           end == <<Line("end", "gateway")>>
           more == IF missing = <<>> THEN text ELSE ((text \o begin) \o tables) \o end
<1>1. EnsureTables(text, prefixes) = EnsureBearer(more)
  BY DEF EnsureTables
<1>2. /\ missing \in Seq(without) /\ Len(missing) \in Nat
      /\ \A p \in without : \E i \in 1..Len(missing) : missing[i] = p
  <2>1. IsFiniteSet(without)
    BY FS_Subset
  <2> HIDE DEF without
  <2>2. SetToSeq(without) \in Seq(without)
    BY <2>1, SetToSeqIs
  <2> QED BY <2>1, <2>2, SetToSeqIs
<1>3. \A p \in prefixes : ProviderTable(p) \in Seq(L) /\ Among(Line("table", p), ProviderTable(p))
  <2> SUFFICES ASSUME NEW p \in prefixes PROVE ProviderTable(p) \in Seq(L) /\ Among(Line("table", p), ProviderTable(p))
    OBVIOUS
  <2>1. Line("table", p) \in L /\ Line("bearer", p) \in L /\ Line("wire_api", p) \in L
    BY DEF Added
  <2> DEFINE first == <<Line("table", p)>>
             token == IF p = Claude THEN <<Line("bearer", p)>> ELSE <<>>
             third == <<Line("wire_api", p)>>
  <2>2. ProviderTable(p) = (first \o token) \o third
    BY DEF ProviderTable
  <2>3. first \in Seq(L) /\ token \in Seq(L) /\ third \in Seq(L) /\ Among(Line("table", p), first)
    BY <2>1 DEF Among
  <2> HIDE DEF first, token, third
  <2>4. first \o token \in Seq(L) /\ Among(Line("table", p), first \o token)
    BY <2>3, AmongBoth
  <2>5. (first \o token) \o third \in Seq(L)
    BY <2>3, <2>4
  <2>6. Among(Line("table", p), (first \o token) \o third)
    BY <2>3, <2>4, AmongBoth
  <2> QED BY <2>2, <2>5, <2>6
<1>4. \A i \in 1..Len(missing) : missing[i] \in prefixes
  <2>1. \A i \in 1..Len(missing) : missing[i] \in without
    <3> HIDE DEF without, missing
    <3> QED BY <1>2
  <2> QED BY <2>1
<1> HIDE DEF missing
<1>5. list \in Seq(Seq(L)) /\ Len(list) = Len(missing)
  <2>1. \A i \in 1..Len(missing) : ProviderTable(missing[i]) \in Seq(L)
    BY <1>3, <1>4
  <2> DEFINE n == Len(missing)
             T == Seq(L)
  <2>2. list \in [1..n -> T] /\ n \in Nat
    BY <1>2, <2>1
  <2> HIDE DEF list, n, T
  <2>3. list \in Seq(T) /\ Len(list) = n
    BY <2>2
  <2> QED BY <2>3 DEF n, T
<1>6. tables \in Seq(L)
  BY <1>5, FlattenInSeq
<1>7. begin \in Seq(L) /\ end \in Seq(L) /\ Line("bearer", Claude) \in L
  BY DEF Added
<1>8. more \in Seq(L) /\ \A p \in prefixes : HasTable(more, p)
  <2> HIDE DEF begin, end
  <2>1. CASE missing = <<>>
    <3>1. \A p \in prefixes : HasTable(text, p)
      BY <1>2, <2>1
    <3> QED BY <2>1, <3>1
  <2>2. CASE missing # <<>>
    <3> HIDE DEF list, tables
    <3>1. text \o begin \in Seq(L)
      BY <1>7
    <3>2. (text \o begin) \o tables \in Seq(L)
      BY <1>6, <3>1
    <3>3. more = ((text \o begin) \o tables) \o end /\ more \in Seq(L)
      BY <1>7, <2>2, <3>2
    <3>4. ASSUME NEW p \in prefixes PROVE HasTable(more, p)
      <4> DEFINE line == Line("table", p)
      <4>1. CASE HasTable(text, p)
        <5>1. Among(line, text)
          BY <4>1, HasTableIs
        <5>2. Among(line, text \o begin)
          BY <1>7, <5>1, AmongBoth
        <5>3. Among(line, (text \o begin) \o tables)
          BY <1>6, <3>1, <5>2, AmongBoth
        <5>4. Among(line, more)
          BY <1>7, <3>2, <3>3, <5>3, AmongBoth
        <5> QED BY <5>4, HasTableIs
      <4>2. CASE ~HasTable(text, p)
        <5>1. PICK i \in 1..Len(missing) : missing[i] = p
          BY <1>2, <4>2
        <5>2. i \in 1..Len(list) /\ list[i] = ProviderTable(p)
          BY <1>5, <5>1 DEF list
        <5>3. Among(line, list[i])
          BY <1>3, <5>2
        <5>4. Among(line, tables)
          BY <1>5, <5>2, <5>3, AmongFlat DEF tables
        <5>5. Among(line, (text \o begin) \o tables)
          BY <1>6, <3>1, <5>4, AmongBoth
        <5>6. Among(line, more)
          BY <1>7, <3>2, <3>3, <5>5, AmongBoth
        <5> QED BY <5>6, HasTableIs
      <4> QED BY <4>1, <4>2
    <3> HIDE DEF more
    <3> QED BY <3>3, <3>4
  <2> QED BY <2>1, <2>2
<1> HIDE DEF more
<1> QED BY <1>1, <1>7, <1>8, EnsureBearerKeeps

\* config.toml stays a text, and has a table for every prefix.
LEMMA RewrittenIs ==
    ASSUME NEW L, NEW text \in Seq(L), NEW prefixes, IsFiniteSet(prefixes), ~RewriteRefused(text)
    PROVE  /\ \E M : Rewritten(text, prefixes) \in Seq(M)
           /\ \A p \in prefixes : HasTable(Rewritten(text, prefixes), p)
<1> DEFINE M == L \cup Added(prefixes) \cup {Line("model", DefaultModel)}
<1>1. text \in Seq(M) /\ Line("model", DefaultModel) \in M /\ Added(prefixes) \subseteq M
  <2>1. L \subseteq M /\ Line("model", DefaultModel) \in M /\ Added(prefixes) \subseteq M
    OBVIOUS
  <2> HIDE DEF M
  <2> QED BY <2>1
<1> HIDE DEF M
<1>2. Stripped(text) \in Seq(M)
  BY <1>1, StrippedInSeq
<1>3. /\ EnsureTables(Stripped(text), prefixes) \in Seq(M)
      /\ \A p \in prefixes : HasTable(EnsureTables(Stripped(text), prefixes), p)
  BY <1>1, <1>2, EnsureTablesIs
<1> QED BY <1>3 DEF Rewritten

-----------------------------------------------------------------------------
(***************************************************************************)
(* Which line of the old text each line of a rewritten one is.  Every step *)
(* of the rewriting has such a trace, traces follow one another, and from  *)
(* that of the whole it is read off what becomes of the user's lines.      *)
(***************************************************************************)

\* o says which line of the old text each line of the new one is, in their order, or 0
\* if it is one of the lines that are added.
Traces(o, new, old, added) ==
    /\ o \in [1..Len(new) -> 0..Len(old)]
    /\ \A k \in 1..Len(new) : IF o[k] = 0 THEN new[k] \in added ELSE new[k] = old[o[k]]
    /\ \A k, l \in 1..Len(new) : k < l /\ o[k] # 0 /\ o[l] # 0 => o[k] < o[l]

\* Line i comes out.
Comes(o, i) == \E k \in DOMAIN o : o[k] = i

\* The lines at these indices come out.
Kept(o, indices) == \A i \in indices : Comes(o, i)

\* A line that comes out of o, and then out of e, comes out of p.
Passes(o, e, p) == \A m \in DOMAIN o : o[m] # 0 /\ Comes(e, m) => Comes(p, o[m])

\* One rewriting after the other.
After(o, e) == [k \in DOMAIN e |-> IF e[k] = 0 THEN 0 ELSE o[e[k]]]

LEMMA AfterTraces ==
    ASSUME NEW old, NEW text, NEW new, NEW added, NEW o, NEW e, Len(text) \in Nat, Len(old) \in Nat, Len(new) \in Nat,
           Traces(o, text, old, added), Traces(e, new, text, added)
    PROVE  /\ Traces(After(o, e), new, old, added)
           /\ Passes(o, e, After(o, e))
<1> DEFINE c == After(o, e)
<1>1. /\ o \in [1..Len(text) -> 0..Len(old)] /\ e \in [1..Len(new) -> 0..Len(text)]
      /\ \A k \in 1..Len(text) : IF o[k] = 0 THEN text[k] \in added ELSE text[k] = old[o[k]]
      /\ \A k \in 1..Len(new) : IF e[k] = 0 THEN new[k] \in added ELSE new[k] = text[e[k]]
      /\ \A k, l \in 1..Len(text) : k < l /\ o[k] # 0 /\ o[l] # 0 => o[k] < o[l]
      /\ \A k, l \in 1..Len(new) : k < l /\ e[k] # 0 /\ e[l] # 0 => e[k] < e[l]
  BY DEF Traces
<1>2. DOMAIN c = 1..Len(new) /\ \A k \in 1..Len(new) : c[k] = IF e[k] = 0 THEN 0 ELSE o[e[k]]
  BY <1>1 DEF After
<1>3. c = [k \in 1..Len(new) |-> c[k]]
  BY <1>1 DEF After
<1> HIDE DEF c
<1>4. \A k \in 1..Len(new) : e[k] # 0 => e[k] \in 1..Len(text)
  BY <1>1
<1>5. \A k \in 1..Len(new) : c[k] \in 0..Len(old)
  BY <1>1, <1>2, <1>4
<1>6. c \in [1..Len(new) -> 0..Len(old)]
  BY <1>3, <1>5
<1>7. \A k \in 1..Len(new) : IF c[k] = 0 THEN new[k] \in added ELSE new[k] = old[c[k]]
  BY <1>1, <1>2, <1>4
<1>8. \A k, l \in 1..Len(new) : k < l /\ c[k] # 0 /\ c[l] # 0 => c[k] < c[l]
  BY <1>1, <1>2, <1>4
<1>9. ASSUME NEW m \in 1..Len(text), o[m] # 0, Comes(e, m) PROVE Comes(c, o[m])
  <2>1. PICK k \in 1..Len(new) : e[k] = m
    BY <1>1, <1>9 DEF Comes
  <2>2. m # 0
    OBVIOUS
  <2> QED BY <1>2, <2>1, <2>2 DEF Comes
<1>10. Passes(o, e, c)
  BY <1>1, <1>9 DEF Passes
<1> QED BY <1>6, <1>7, <1>8, <1>10 DEF Traces, c

\* Two texts, one after the other.
LEMMA JoinIs ==
    ASSUME NEW L, NEW x \in Seq(L), NEW y \in Seq(L)
    PROVE  /\ x \o y \in Seq(L) /\ Len(x) \in Nat /\ Len(y) \in Nat /\ Len(x \o y) = Len(x) + Len(y)
           /\ \A k \in 1..Len(x) : (x \o y)[k] = x[k]
           /\ \A k \in (Len(x) + 1)..(Len(x) + Len(y)) : (x \o y)[k] = y[k - Len(x)]
<1>1. x \o y \in Seq(L) /\ Len(x) \in Nat /\ Len(y) \in Nat /\ Len(x \o y) = Len(x) + Len(y)
  OBVIOUS
<1>2. \A k \in 1..Len(x) : (x \o y)[k] = x[k]
  OBVIOUS
<1>3. \A k \in (Len(x) + 1)..(Len(x) + Len(y)) : (x \o y)[k] = y[k - Len(x)]
  OBVIOUS
<1> QED BY <1>1, <1>2, <1>3

\* A text comes out of itself.
LEMMA SameTraces ==
    ASSUME NEW L, NEW text \in Seq(L), NEW added
    PROVE  \E o : Traces(o, text, text, added) /\ Kept(o, 1..Len(text))
<1> DEFINE o == [k \in 1..Len(text) |-> k]
<1>1. Traces(o, text, text, added)
  <2>1. Len(text) \in Nat
    OBVIOUS
  <2> QED BY <2>1 DEF Traces
<1>2. Kept(o, 1..Len(text))
  BY DEF Kept, Comes
<1> QED BY <1>1, <1>2

\* The lines at some of the indices.
LEMMA KeepTraces ==
    ASSUME NEW L, NEW text \in Seq(L), NEW indices, NEW added
    PROVE  \E o : Traces(o, Keep(text, indices), text, added) /\ Kept(o, indices \cap 1..Len(text))
<1> DEFINE kept == indices \cap DOMAIN text
           n == Cardinality(kept)
           o == [k \in 1..n |-> Nth(kept, k)]
           new == Keep(text, indices)
<1>1. Len(text) \in Nat /\ kept \in SUBSET (1..Len(text)) /\ kept \in SUBSET Nat
  OBVIOUS
<1>2. IsFiniteSet(kept) /\ n \in Nat
  BY <1>1, PlaceAppend
<1>3. new = [k \in 1..n |-> text[Nth(kept, k)]]
  BY DEF Keep
<1>4. Len(new) = n /\ \A k \in 1..n : new[k] = text[o[k]]
  BY <1>2, <1>3
<1>5. \A k \in 1..n : Nth(kept, k) \in kept /\ Place(kept, Nth(kept, k)) = k
  <2> HIDE DEF kept
  <2> QED BY <1>1, NthIs
<1>6. \A i \in kept : Place(kept, i) \in 1..n /\ Nth(kept, Place(kept, i)) = i
  <2> HIDE DEF kept
  <2> QED BY <1>1, <1>2, PlaceIs
<1>7. \A k \in 1..n : o[k] \in kept /\ o[k] \in 1..Len(text) /\ o[k] # 0
  <2>1. \A k \in 1..n : o[k] = Nth(kept, k)
    OBVIOUS
  <2>2. \A m \in 1..Len(text) : m # 0
    BY <1>1
  <2> HIDE DEF o, kept
  <2> QED BY <1>1, <1>5, <2>1, <2>2
<1>8. ASSUME NEW k \in 1..n, NEW l \in 1..n, k < l PROVE o[k] < o[l]
  <2> DEFINE a == Nth(kept, k)
             b == Nth(kept, l)
  <2>1. a \in kept /\ b \in kept /\ Place(kept, a) = k /\ Place(kept, b) = l /\ a \in Nat /\ b \in Nat
    BY <1>1, <1>5
  <2>2. o[k] = a /\ o[l] = b
    OBVIOUS
  <2> HIDE DEF a, b, o, kept
  <2> SUFFICES ASSUME b <= a PROVE FALSE
    BY <2>1, <2>2
  <2>3. {m \in kept : m <= b} \subseteq {m \in kept : m <= a}
    <3> SUFFICES ASSUME NEW m \in kept, m <= b PROVE m <= a
      OBVIOUS
    <3>1. m \in Nat
      BY <1>1
    <3> QED BY <2>1, <3>1
  <2>4. IsFiniteSet({m \in kept : m <= a})
    BY <1>2, FS_Subset
  <2>5. Cardinality({m \in kept : m <= b}) <= Cardinality({m \in kept : m <= a})
    BY <2>3, <2>4, FS_Subset
  <2> QED BY <1>2, <1>8, <2>1, <2>5 DEF Place
<1>9. Traces(o, new, text, added)
  <2>1. o \in [1..n -> 0..Len(text)]
    <3>1. o = [k \in 1..n |-> o[k]] /\ 1..Len(text) \subseteq 0..Len(text)
      OBVIOUS
    <3> HIDE DEF o, kept, n
    <3> QED BY <1>7, <3>1
  <2> HIDE DEF o, new, n, kept
  <2> QED BY <1>4, <1>7, <1>8, <2>1 DEF Traces
<1>10. Kept(o, indices \cap 1..Len(text))
  <2>1. DOMAIN o = 1..n /\ kept = indices \cap 1..Len(text)
    OBVIOUS
  <2>2. \A i \in kept : \E k \in 1..n : o[k] = i
    BY <1>6
  <2> HIDE DEF kept, o, n
  <2> QED BY <2>1, <2>2 DEF Kept, Comes
<1> HIDE DEF o, new
<1> QED BY <1>9, <1>10 DEF new

\* A text without a part of it.
LEMMA CutTraces ==
    ASSUME NEW L, NEW text \in Seq(L), NEW a \in 0..Len(text), NEW b \in a..Len(text), NEW added
    PROVE  LET new == SubSeq(text, 1, a) \o SubSeq(text, b + 1, Len(text)) IN
           \E o : Traces(o, new, text, added) /\ Kept(o, (1..Len(text)) \ (a + 1)..b)
<1> DEFINE n == Len(text)
           x == SubSeq(text, 1, a)
           y == SubSeq(text, b + 1, n)
           new == x \o y
           o == [k \in 1..Len(new) |-> IF k <= a THEN k ELSE k + (b - a)]
<1>0. n \in Nat /\ a \in Nat /\ b \in Nat /\ a <= b /\ b <= n
  OBVIOUS
<1>1. x \in Seq(L) /\ Len(x) = a /\ \A k \in 1..a : x[k] = text[k]
  BY <1>0
<1>2. y \in Seq(L) /\ Len(y) = n - b /\ \A k \in 1..(n - b) : y[k] = text[k + b]
  BY <1>0
<1> HIDE DEF x, y, n
<1>3. /\ Len(new) = a + (n - b) /\ \A k \in 1..a : new[k] = x[k]
      /\ \A k \in (a + 1)..(a + (n - b)) : new[k] = y[k - a]
  <2>0. x \in Seq(L) /\ y \in Seq(L)
    BY <1>1, <1>2
  <2>1. /\ Len(new) = Len(x) + Len(y) /\ \A k \in 1..Len(x) : new[k] = x[k]
        /\ \A k \in (Len(x) + 1)..(Len(x) + Len(y)) : new[k] = y[k - Len(x)]
    BY <2>0, JoinIs
  <2> HIDE DEF new
  <2> QED BY <1>1, <1>2, <2>1
<1>4. o = [k \in 1..(a + (n - b)) |-> IF k <= a THEN k ELSE k + (b - a)]
  BY <1>3
<1> HIDE DEF new, o
<1>5. \A k \in 1..(a + (n - b)) : o[k] \in 1..n /\ o[k] = IF k <= a THEN k ELSE k + (b - a)
  BY <1>0, <1>4
<1>6. ASSUME NEW k \in 1..(a + (n - b)) PROVE new[k] = text[o[k]]
  <2>1. CASE k <= a
    BY <1>0, <1>1, <1>3, <1>5, <2>1
  <2>2. CASE k > a
    <3>1. k - a \in 1..(n - b) /\ (k - a) + b = k + (b - a) /\ k \in (a + 1)..(a + (n - b))
      BY <1>0, <2>2
    <3>2. new[k] = text[(k - a) + b]
      BY <1>2, <1>3, <3>1
    <3> QED BY <1>0, <1>5, <2>2, <3>1, <3>2, SMTT(40)
  <2> QED BY <1>0, <2>1, <2>2
<1>7. \A k, l \in 1..(a + (n - b)) : k < l => o[k] < o[l]
  BY <1>0, <1>5
<1>8. Traces(o, new, text, added)
  <2>1. o \in [1..(a + (n - b)) -> 0..n]
    BY <1>0, <1>4, <1>5
  <2>2. \A k \in 1..(a + (n - b)) : o[k] # 0
    BY <1>5
  <2> QED BY <1>3, <1>6, <1>7, <2>1, <2>2 DEF Traces, n
<1>9. ASSUME NEW i \in 1..n, i \notin (a + 1)..b PROVE Comes(o, i)
  <2>1. DOMAIN o = 1..(a + (n - b))
    BY <1>4
  <2>2. ASSUME i <= a PROVE Comes(o, i)
    <3>1. i \in 1..(a + (n - b)) /\ o[i] = i
      BY <1>0, <1>5, <2>2
    <3> QED BY <2>1, <3>1 DEF Comes
  <2>3. ASSUME i > b PROVE Comes(o, i)
    <3>1. i - (b - a) \in 1..(a + (n - b)) /\ i - (b - a) > a
      BY <1>0, <2>3
    <3>2. o[i - (b - a)] = i
      BY <1>0, <1>5, <3>1
    <3> QED BY <2>1, <3>1, <3>2 DEF Comes
  <2> QED BY <1>0, <1>9, <2>2, <2>3
<1>10. Kept(o, (1..n) \ (a + 1)..b)
  BY <1>9 DEF Kept
<1> QED BY <1>8, <1>10 DEF new, x, y, n

\* The lines that come out when the lines from a + 1 to b are what e makes of them.
Around(text, e, a, b) == {i \in 1..Len(text) : i \in (a + 1)..b => Comes(e, i - a)}

\* Another text in the place of a part of a text.
LEMMA AroundTraces ==
    ASSUME NEW L, NEW text \in Seq(L), NEW a \in 0..Len(text), NEW b \in a..Len(text), NEW mid \in Seq(L), NEW added,
           NEW e, Traces(e, mid, SubSeq(text, a + 1, b), added)
    PROVE  LET new == (SubSeq(text, 1, a) \o mid) \o SubSeq(text, b + 1, Len(text)) IN
           \E o : /\ Traces(o, new, text, added)
                  /\ Kept(o, Around(text, e, a, b))
<1> DEFINE n == Len(text)
           m == Len(mid)
           x == SubSeq(text, 1, a)
           y == SubSeq(text, b + 1, n)
           z == SubSeq(text, a + 1, b)
           new == (x \o mid) \o y
           back(k) == IF e[k - a] = 0 THEN 0 ELSE e[k - a] + a
           o == [k \in 1..Len(new) |-> IF k <= a THEN k ELSE IF k <= a + m THEN back(k) ELSE k - (a + m) + b]
<1>0. n \in Nat /\ m \in Nat /\ a \in Nat /\ b \in Nat /\ a <= b /\ b <= n
  OBVIOUS
<1>1. x \in Seq(L) /\ Len(x) = a /\ \A k \in 1..a : x[k] = text[k]
  BY <1>0
<1>2. y \in Seq(L) /\ Len(y) = n - b /\ \A k \in 1..(n - b) : y[k] = text[k + b]
  BY <1>0
<1>3. Len(z) = b - a /\ \A k \in 1..(b - a) : z[k] = text[k + a]
  BY <1>0
<1>4. /\ e \in [1..m -> 0..(b - a)]
      /\ \A k \in 1..m : IF e[k] = 0 THEN mid[k] \in added ELSE mid[k] = z[e[k]]
      /\ \A k, l \in 1..m : k < l /\ e[k] # 0 /\ e[l] # 0 => e[k] < e[l]
  <2>1. Traces(e, mid, z, added)
    OBVIOUS
  <2> HIDE DEF z
  <2> QED BY <1>3, <2>1 DEF Traces
<1> HIDE DEF x, y, z, n
<1>5. /\ x \o mid \in Seq(L) /\ Len(x \o mid) = a + m /\ \A k \in 1..a : (x \o mid)[k] = x[k]
      /\ \A k \in (a + 1)..(a + m) : (x \o mid)[k] = mid[k - a]
  <2>1. x \in Seq(L) /\ mid \in Seq(L) /\ Len(x) = a /\ Len(mid) = m
    BY <1>1
  <2>2. /\ x \o mid \in Seq(L) /\ Len(x \o mid) = Len(x) + Len(mid)
        /\ \A k \in 1..Len(x) : (x \o mid)[k] = x[k]
        /\ \A k \in (Len(x) + 1)..(Len(x) + Len(mid)) : (x \o mid)[k] = mid[k - Len(x)]
    BY <2>1, JoinIs
  <2> HIDE DEF m
  <2> QED BY <2>1, <2>2
<1> DEFINE w == x \o mid
<1>6. /\ Len(new) = (a + m) + (n - b) /\ \A k \in 1..(a + m) : new[k] = w[k]
      /\ \A k \in ((a + m) + 1)..((a + m) + (n - b)) : new[k] = y[k - (a + m)]
  <2>1. w \in Seq(L) /\ Len(w) = a + m
    BY <1>5
  <2> HIDE DEF w
  <2>2. /\ Len(w \o y) = Len(w) + Len(y) /\ \A k \in 1..Len(w) : (w \o y)[k] = w[k]
        /\ \A k \in (Len(w) + 1)..(Len(w) + Len(y)) : (w \o y)[k] = y[k - Len(w)]
    <3>1. w \in Seq(L) /\ y \in Seq(L)
      BY <1>2, <2>1
    <3> QED BY <3>1, JoinIs
  <2>3. new = w \o y
    BY DEF w
  <2> HIDE DEF new
  <2> QED BY <1>2, <2>1, <2>2, <2>3
<1> DEFINE N == (a + m) + (n - b)
<1>7. o = [k \in 1..N |-> IF k <= a THEN k ELSE IF k <= a + m THEN back(k) ELSE k - (a + m) + b]
  BY <1>6
<1>8. N \in Nat /\ DOMAIN o = 1..N /\ o = [k \in 1..N |-> o[k]]
  BY <1>0, <1>7
<1>9. \A k \in 1..N : o[k] = IF k <= a THEN k ELSE IF k <= a + m THEN back(k) ELSE k - (a + m) + b
  BY <1>7
<1>16. \A k \in 1..N : k <= a => o[k] = k /\ new[k] = text[k]
  <2> SUFFICES ASSUME NEW k \in 1..N, k <= a PROVE o[k] = k /\ new[k] = text[k]
    OBVIOUS
  <2>1. k \in 1..a /\ k \in 1..(a + m)
    BY <1>0
  <2> HIDE DEF new, o, N
  <2> QED BY <1>1, <1>5, <1>6, <1>9, <2>1
<1>17. \A k \in 1..N : ~(k <= a) /\ k <= a + m => k - a \in 1..m /\ o[k] = back(k) /\ new[k] = mid[k - a]
  <2> SUFFICES ASSUME NEW k \in 1..N, ~(k <= a), k <= a + m PROVE k - a \in 1..m /\ o[k] = back(k) /\ new[k] = mid[k - a]
    OBVIOUS
  <2>1. k \in (a + 1)..(a + m) /\ k \in 1..(a + m) /\ k - a \in 1..m
    BY <1>0
  <2> HIDE DEF new, o, N, back
  <2> QED BY <1>5, <1>6, <1>9, <2>1
<1>18. \A k \in 1..N : ~(k <= a + m) => /\ k - (a + m) \in 1..(n - b) /\ o[k] = k - (a + m) + b
                                        /\ new[k] = text[k - (a + m) + b]
  <2> SUFFICES ASSUME NEW k \in 1..N, ~(k <= a + m)
               PROVE k - (a + m) \in 1..(n - b) /\ o[k] = k - (a + m) + b /\ new[k] = text[k - (a + m) + b]
    OBVIOUS
  <2>1. k \in ((a + m) + 1)..N /\ k - (a + m) \in 1..(n - b) /\ ~(k <= a)
    BY <1>0
  <2>2. o[k] = k - (a + m) + b
    BY <1>9, <2>1
  <2> HIDE DEF new, o, back
  <2> QED BY <1>2, <1>6, <2>1, <2>2
<1>19. Len(new) = N
  BY <1>6
<1> HIDE DEF o, new, N
<1>20. \A k \in 1..N : k \in Nat /\ k # 0
  BY <1>8
<1>21. \A k \in 1..m : e[k] \in Nat /\ e[k] <= b - a
  <2>1. \A k \in 1..m : e[k] \in 0..(b - a)
    BY <1>4
  <2> HIDE DEF m
  <2> QED BY <1>0, <2>1
<1>22. \A k \in 1..N : o[k] \in 0..n
  <2> SUFFICES ASSUME NEW k \in 1..N PROVE o[k] \in 0..n
    OBVIOUS
  <2>1. CASE k <= a
    BY <1>0, <1>16, <1>20, <2>1
  <2>2. CASE ~(k <= a) /\ k <= a + m
    BY <1>0, <1>17, <1>21, <2>2
  <2>3. CASE ~(k <= a + m)
    BY <1>0, <1>18, <2>3
  <2> QED BY <1>0, <1>20, <2>1, <2>2, <2>3
<1>23. \A k \in 1..N : IF o[k] = 0 THEN new[k] \in added ELSE new[k] = text[o[k]]
  <2> SUFFICES ASSUME NEW k \in 1..N PROVE IF o[k] = 0 THEN new[k] \in added ELSE new[k] = text[o[k]]
    OBVIOUS
  <2>1. CASE k <= a
    BY <1>16, <1>20, <2>1
  <2>2. CASE ~(k <= a) /\ k <= a + m
    <3>1. k - a \in 1..m /\ o[k] = back(k) /\ new[k] = mid[k - a]
      BY <1>17, <2>2
    <3>2. CASE e[k - a] = 0
      BY <1>4, <3>1, <3>2
    <3>3. CASE e[k - a] # 0
      <4>1. e[k - a] \in 1..(b - a) /\ e[k - a] + a # 0
        BY <1>0, <1>21, <3>1, <3>3
      <4> QED BY <1>3, <1>4, <3>1, <3>3, <4>1
    <3> QED BY <3>2, <3>3
  <2>3. CASE ~(k <= a + m)
    BY <1>0, <1>18, <2>3
  <2> QED BY <2>1, <2>2, <2>3, <1>0, <1>20
<1>24. ASSUME NEW k \in 1..N, NEW l \in 1..N, k < l, o[k] # 0, o[l] # 0 PROVE o[k] < o[l]
  <2>0. k \in Nat /\ l \in Nat
    BY <1>20
  <2>1. CASE k <= a
    <3>1. o[k] = k
      BY <1>16, <2>1
    <3>2. CASE l <= a
      BY <1>16, <1>24, <3>1, <3>2
    <3>3. CASE ~(l <= a) /\ l <= a + m
      <4>1. l - a \in 1..m /\ o[l] = back(l)
        BY <1>17, <3>3
      <4>2. e[l - a] # 0 /\ o[l] = e[l - a] + a
        BY <1>24, <4>1
      <4>3. e[l - a] \in Nat
        BY <1>21, <4>1
      <4> HIDE DEF back
      <4> QED BY <1>0, <2>0, <2>1, <3>1, <4>2, <4>3
    <3>4. CASE ~(l <= a + m)
      BY <1>0, <1>18, <2>0, <2>1, <3>1, <3>4
    <3> QED BY <3>2, <3>3, <3>4
  <2>2. CASE ~(k <= a) /\ k <= a + m
    <3>1. k - a \in 1..m /\ o[k] = back(k) /\ e[k - a] # 0 /\ o[k] = e[k - a] + a
      BY <1>17, <1>24, <2>2
    <3>3. CASE l <= a + m
      <4>1. l - a \in 1..m /\ o[l] = back(l) /\ e[l - a] # 0 /\ o[l] = e[l - a] + a /\ k - a < l - a
        BY <1>0, <1>17, <1>24, <2>0, <2>2, <3>3
      <4>2. e[k - a] < e[l - a]
        BY <1>4, <3>1, <4>1
      <4>3. e[k - a] \in Nat /\ e[l - a] \in Nat
        BY <1>21, <3>1, <4>1
      <4> HIDE DEF back
      <4> QED BY <1>0, <3>1, <4>1, <4>2, <4>3
    <3>4. CASE ~(l <= a + m)
      <4>1. e[k - a] \in Nat /\ e[k - a] <= b - a
        BY <1>21, <3>1
      <4>2. l - (a + m) \in 1..(n - b) /\ o[l] = l - (a + m) + b
        BY <1>18, <3>4
      <4> HIDE DEF back
      <4> QED BY <1>0, <3>1, <4>1, <4>2, SMTT(40)
    <3> QED BY <3>3, <3>4
  <2>3. CASE ~(k <= a + m)
    BY <1>0, <1>18, <1>24, <2>0, <2>3
  <2> QED BY <1>0, <2>0, <2>1, <2>2, <2>3
<1>25. Traces(o, new, text, added)
  <2>1. o \in [1..N -> 0..n]
    BY <1>8, <1>22
  <2> QED BY <1>19, <1>23, <1>24, <2>1 DEF Traces, n
<1>26. ASSUME NEW i \in 1..n, i \in (a + 1)..b => Comes(e, i - a) PROVE Comes(o, i)
  <2>0. i \in Nat /\ i # 0 /\ i <= n
    BY <1>0
  <2>1. CASE i <= a
    <3>1. i \in 1..N /\ i \notin (a + 1)..b
      BY <1>0, <2>0, <2>1 DEF N
    <3>2. o[i] = i
      BY <1>16, <2>1, <3>1
    <3> QED BY <1>8, <3>1, <3>2 DEF Comes
  <2>2. CASE i > b
    <3> DEFINE k == i - b + (a + m)
    <3>1. k \in 1..N /\ ~(k <= a + m) /\ i \notin (a + 1)..b /\ k - (a + m) + b = i
      BY <1>0, <2>0, <2>2 DEF N
    <3>2. o[k] = i
      BY <1>18, <3>1
    <3> QED BY <1>8, <3>1, <3>2 DEF Comes
  <2>3. CASE i \in (a + 1)..b
    <3>1. PICK j \in 1..m : e[j] = i - a
      BY <1>4, <1>26, <2>3 DEF Comes
    <3>2. j + a \in 1..N /\ ~(j + a <= a) /\ j + a <= a + m /\ (j + a) - a = j
      BY <1>0, <3>1 DEF N
    <3>3. o[j + a] = i
      BY <1>0, <1>17, <2>0, <2>3, <3>1, <3>2
    <3> QED BY <1>8, <3>2, <3>3 DEF Comes
  <2> QED BY <1>0, <2>0, <2>1, <2>2, <2>3
<1>27. Kept(o, Around(text, e, a, b))
  BY <1>26 DEF Kept, Around, n
<1> QED BY <1>25, <1>27 DEF new, x, y, n

\* A line is put in.
LEMMA InsertTraces ==
    ASSUME NEW L, NEW text \in Seq(L), NEW line \in L, NEW i \in 1..(Len(text) + 1), NEW added, line \in added
    PROVE  \E o : Traces(o, InsertAt(text, i, line), text, added) /\ Kept(o, 1..Len(text))
<1> DEFINE mid == <<line>>
           e == [k \in 1..1 |-> 0]
           a == i - 1
<1>1. Len(text) \in Nat /\ a \in 0..Len(text) /\ a + 1 = i /\ a \in a..Len(text)
  OBVIOUS
<1>2. mid \in Seq(L) /\ Len(mid) = 1 /\ mid[1] = line
  OBVIOUS
<1>3. Len(SubSeq(text, a + 1, a)) = 0
  BY <1>1
<1>4. Traces(e, mid, SubSeq(text, a + 1, a), added)
  <2>1. DOMAIN e = 1..1 /\ \A k \in 1..1 : e[k] = 0 /\ k = 1
    OBVIOUS
  <2>2. e \in [1..1 -> 0..0]
    OBVIOUS
  <2> HIDE DEF e, mid, a
  <2> QED BY <1>2, <1>3, <2>1, <2>2 DEF Traces
<1>5. InsertAt(text, i, line) = (SubSeq(text, 1, a) \o mid) \o SubSeq(text, a + 1, Len(text))
  BY <1>1 DEF InsertAt
<1> HIDE DEF mid, e, a
<1>6. PICK o : /\ Traces(o, (SubSeq(text, 1, a) \o mid) \o SubSeq(text, a + 1, Len(text)), text, added)
               /\ Kept(o, Around(text, e, a, a))
  BY <1>1, <1>2, <1>4, AroundTraces
<1>7. Around(text, e, a, a) = 1..Len(text)
  BY <1>1 DEF Around
<1> QED BY <1>5, <1>6, <1>7

\* Lines are put at the end.
LEMMA LongerTraces ==
    ASSUME NEW L, NEW text \in Seq(L), NEW more \in Seq(L), NEW added, \A k \in 1..Len(more) : more[k] \in added
    PROVE  \E o : Traces(o, text \o more, text, added) /\ Kept(o, 1..Len(text))
<1> DEFINE n == Len(text)
           m == Len(more)
           new == text \o more
           o == [k \in 1..(n + m) |-> IF k <= n THEN k ELSE 0]
<1>1. /\ n \in Nat /\ m \in Nat /\ Len(new) = n + m
      /\ \A k \in 1..n : new[k] = text[k]
      /\ \A k \in (n + 1)..(n + m) : new[k] = more[k - n]
  BY JoinIs
<1>2. DOMAIN o = 1..(n + m) /\ \A k \in 1..(n + m) : o[k] = IF k <= n THEN k ELSE 0
  OBVIOUS
<1>3. o \in [1..(n + m) -> 0..n]
  BY <1>1
<1> HIDE DEF o, new
<1>4. \A k \in 1..(n + m) : IF o[k] = 0 THEN new[k] \in added ELSE new[k] = text[o[k]]
  <2> SUFFICES ASSUME NEW k \in 1..(n + m) PROVE IF o[k] = 0 THEN new[k] \in added ELSE new[k] = text[o[k]]
    OBVIOUS
  <2>1. CASE k <= n
    BY <1>1, <1>2, <2>1
  <2>2. CASE ~(k <= n)
    <3>1. k \in (n + 1)..(n + m) /\ k - n \in 1..m
      BY <1>1, <2>2
    <3> QED BY <1>1, <1>2, <2>2, <3>1
  <2> QED BY <2>1, <2>2
<1>5. Traces(o, new, text, added)
  BY <1>1, <1>2, <1>3, <1>4 DEF Traces
<1>6. Kept(o, 1..n)
  <2>1. \A i \in 1..n : i \in DOMAIN o /\ o[i] = i
    BY <1>1, <1>2
  <2> QED BY <2>1 DEF Kept, Comes
<1> QED BY <1>5, <1>6 DEF new

LEMMA FindLeast ==
    ASSUME NEW L, NEW text \in Seq(L), NEW lines, NEW i \in Nat \ {0}
    PROVE  \A j \in i..(Find(text, lines, i) - 1) : text[j] \notin lines
<1> DEFINE hits == {j \in i..Len(text) : text[j] \in lines}
           found == Find(text, lines, i)
<1>1. Len(text) \in Nat /\ hits \in SUBSET Nat
  OBVIOUS
<1>2. found = IF hits = {} THEN 0 ELSE Min(hits)
  BY DEF Find
<1>3. hits # {} => Min(hits) \in hits /\ \A k \in hits : Min(hits) <= k
  <2> HIDE DEF hits
  <2> QED BY <1>1, MinIs
<1> HIDE DEF found
<1>4. ASSUME hits # {}, NEW j \in i..(found - 1) PROVE text[j] \notin lines
  <2>1. found \in hits /\ \A k \in hits : found <= k
    BY <1>2, <1>3, <1>4
  <2>2. found \in i..Len(text)
    BY <2>1
  <2>3. j \in i..Len(text) /\ ~(found <= j)
    BY <1>1, <2>2
  <2>4. j \notin hits
    BY <2>1, <2>3
  <2> QED BY <2>3, <2>4
<1>5. hits = {} => i..(found - 1) = {}
  BY <1>2
<1> QED BY <1>4, <1>5 DEF found

Blocks == {"catalog", "nux", "profiles"}

\* A line that goes with one of some blocks.
Lost(text, i, blocks) ==
    \E b \in blocks : text[i] \in {Line("begin", b), Line("end", b)} \/ InBlock(text, i, b)

\* All that is gone went with one of some blocks.
Intact(o, old, blocks) == \A i \in 1..Len(old) : Comes(o, i) \/ Lost(old, i, blocks)

\* A block goes with what is in it.
LEMMA BlockTraces ==
    ASSUME NEW L, NEW text \in Seq(L), NEW old, Len(old) \in Nat, NEW added, NEW o, Traces(o, text, old, added),
           NEW b \in Blocks, NEW blocks \in SUBSET (Blocks \ {b}), Line("begin", b) \notin added,
           BlockStart(text, b) # 0, ~Unended(text, b), Apart(old) => Intact(o, old, blocks)
    PROVE  \E p : /\ Traces(p, StripBlock(text, b), old, added)
                  /\ Apart(old) => Intact(p, old, blocks \cup {b})
<1> DEFINE from == BlockStart(text, b)
           to == BlockEnd(text, b)
           n == Len(text)
           a == from - 1
           new == SubSeq(text, 1, a) \o SubSeq(text, to + 1, n)
<1>1. from \in 1..n /\ text[from] = Line("begin", b) /\ n \in Nat
  BY FindIs DEF BlockStart
<1>2. /\ to \in (from + 1)..n /\ text[to] = Line("end", b)
      /\ \A j \in (from + 1)..(to - 1) : text[j] # Line("end", b)
  <2>1. to = Find(text, {Line("end", b)}, from + 1) /\ to # 0 /\ from + 1 \in Nat \ {0}
    BY <1>1 DEF BlockEnd, Unended
  <2> HIDE DEF from, to
  <2>2. Find(text, {Line("end", b)}, from + 1) \in (from + 1)..Len(text)
        /\ text[Find(text, {Line("end", b)}, from + 1)] \in {Line("end", b)}
    BY <2>1, FindIs
  <2>3. \A j \in (from + 1)..(Find(text, {Line("end", b)}, from + 1) - 1) : text[j] \notin {Line("end", b)}
    BY <2>1, FindLeast
  <2> QED BY <2>1, <2>2, <2>3
<1>3. StripBlock(text, b) = new /\ new \in Seq(L) /\ Len(new) \in Nat
  <2>1. StripBlock(text, b) = new
    BY DEF StripBlock
  <2>2. StripBlock(text, b) \in Seq(L)
    BY StripBlockInSeq
  <2> HIDE DEF new
  <2> QED BY <2>1, <2>2
<1> HIDE DEF from, to
<1>4. a \in 0..n /\ to \in a..n /\ a + 1 = from
  BY <1>1, <1>2
<1> HIDE DEF a
<1>5. PICK e : Traces(e, new, text, added) /\ Kept(e, (1..n) \ (a + 1)..to)
  BY <1>4, CutTraces
<1> HIDE DEF new
<1> DEFINE p == After(o, e)
<1>6. Traces(p, new, old, added) /\ Passes(o, e, p)
  BY <1>1, <1>3, <1>5, AfterTraces
<1> HIDE DEF p
<1>7. /\ o \in [1..n -> 0..Len(old)]
      /\ \A k \in 1..n : IF o[k] = 0 THEN text[k] \in added ELSE text[k] = old[o[k]]
      /\ \A k, l \in 1..n : k < l /\ o[k] # 0 /\ o[l] # 0 => o[k] < o[l]
  BY DEF Traces
<1>8. ASSUME Apart(old), NEW i \in 1..Len(old), ~Comes(p, i) PROVE Lost(old, i, blocks \cup {b})
  <2>1. CASE ~Comes(o, i)
    BY <1>8, <2>1 DEF Intact, Lost
  <2>2. CASE Comes(o, i)
    <3>1. PICK m \in 1..n : o[m] = i
      BY <1>7, <2>2 DEF Comes
    <3>2. m \in from..to /\ i # 0 /\ i \in Nat /\ m \in Nat
      <4>1. m \in DOMAIN o /\ i # 0 /\ i \in Nat /\ m \in Nat
        BY <1>7, <3>1
      <4>2. ~Comes(e, m)
        BY <1>6, <1>8, <3>1, <4>1 DEF Passes
      <4>3. m \in (a + 1)..to
        BY <1>5, <4>2 DEF Kept
      <4> QED BY <1>4, <4>1, <4>3
    <3>3. text[m] = old[i]
      BY <1>7, <3>1, <3>2
    <3>4. CASE m = from \/ m = to
      <4>1. old[i] \in {Line("begin", b), Line("end", b)}
        BY <1>1, <1>2, <3>3, <3>4
      <4> QED BY <4>1 DEF Lost
    <3>5. CASE m # from /\ m # to
      <4> DEFINE j == o[from]
      <4>1. from \in Nat /\ to \in Nat /\ from < m /\ m < to
        BY <1>1, <1>2, <3>2, <3>5
      <4>2. j # 0 /\ old[j] = Line("begin", b) /\ j \in Nat
        BY <1>1, <1>7
      <4>3. j < i
        BY <1>1, <1>7, <3>1, <3>2, <4>1, <4>2
      <4>4. ASSUME NEW k \in j..i, old[k] = Line("end", b) PROVE FALSE
        <5>1. k \in 1..Len(old) /\ k \in Nat /\ k # 0
          BY <1>7, <3>2, <4>2
        <5>2. Comes(o, k)
          <6>1. ASSUME NEW c \in blocks, old[k] \in {Line("begin", c), Line("end", c)} \/ InBlock(old, k, c) PROVE FALSE
            <7>1. c # b /\ c \in Blocks
              OBVIOUS
            <7>2. old[k][1] = "end" /\ old[k][2] = b
              BY <4>4 DEF Line
            <7>3. InBlock(old, k, c)
              BY <4>4, <6>1, <7>1 DEF Line
            <7> QED BY <1>8, <5>1, <7>1, <7>2, <7>3 DEF Apart, Blocks
          <6> QED BY <1>8, <5>1, <6>1 DEF Intact, Lost
        <5>3. PICK q \in 1..n : o[q] = k
          BY <1>7, <5>2 DEF Comes
        <5>4. text[q] = Line("end", b) /\ q \in Nat
          BY <1>7, <4>4, <5>1, <5>3
        <5>5. ~(q < from)
          <6>1. ASSUME q < from PROVE FALSE
            <7>1. k < j
              BY <1>1, <1>7, <4>2, <5>1, <5>3, <6>1
            <7> QED BY <4>2, <5>1, <7>1
          <6> QED BY <6>1
        <5>6. ~(m < q)
          <6>1. ASSUME m < q PROVE FALSE
            <7>1. i < k
              BY <1>7, <3>1, <3>2, <5>1, <5>3, <6>1
            <7> QED BY <3>2, <4>2, <5>1, <7>1
          <6> QED BY <6>1
        <5>7. q # from
          BY <1>1, <5>4 DEF Line
        <5>8. q \in (from + 1)..(to - 1)
          BY <3>2, <4>1, <5>4, <5>5, <5>6, <5>7
        <5> QED BY <1>2, <5>4, <5>8
      <4>5. InBlock(old, i, b)
        <5>1. j \in 1..(i - 1)
          BY <3>2, <4>2, <4>3
        <5> HIDE DEF j
        <5>2. Line("end", b) \notin {old[k] : k \in j..i}
          BY <4>4
        <5> QED BY <4>2, <5>1, <5>2 DEF InBlock
      <4> QED BY <4>5 DEF Lost
    <3> QED BY <3>4, <3>5
  <2> QED BY <2>1, <2>2
<1>9. Apart(old) => Intact(p, old, blocks \cup {b})
  BY <1>8 DEF Intact
<1> QED BY <1>3, <1>6, <1>9

\* Whether it is there or not.
LEMMA MaybeBlockTraces ==
    ASSUME NEW L, NEW text \in Seq(L), NEW old, Len(old) \in Nat, NEW added, NEW o, Traces(o, text, old, added),
           NEW b \in {"catalog", "nux"}, NEW blocks \in SUBSET (Blocks \ {b}), Line("begin", b) \notin added,
           ~Unended(text, b), Apart(old) => Intact(o, old, blocks)
    PROVE  \E p : /\ Traces(p, StripBlock(text, b), old, added)
                  /\ Apart(old) => Intact(p, old, blocks \cup {b})
<1>1. CASE BlockStart(text, b) # 0
  <2>1. b \in Blocks
    BY DEF Blocks
  <2> QED BY <1>1, <2>1, BlockTraces
<1>2. CASE BlockStart(text, b) = 0
  <2>1. StripBlock(text, b) = text
    BY <1>2 DEF StripBlock
  <2>2. Intact(o, old, blocks) => Intact(o, old, blocks \cup {b})
    BY DEF Intact, Lost
  <2> QED BY <2>1, <2>2
<1> QED BY <1>1, <1>2

\* The user's lines come out.
UsersCome(o, old) == \A i \in 1..Len(old) : Owned(old, i) => Comes(o, i)

\* Overlays go with what is between them and the next header that is left.
LEMMA OverlaysTraces ==
    ASSUME NEW L, NEW text \in Seq(L), NEW old, Len(old) \in Nat, NEW added, NEW o, Traces(o, text, old, added),
           \A line \in added : line[1] # "overlay", BlockStart(text, "profiles") = 0,
           Apart(old) => Intact(o, old, {"catalog", "nux"})
    PROVE  \E p : /\ Traces(p, StripBlock(text, "profiles"), old, added)
                  /\ Apart(old) => UsersCome(p, old)
<1> DEFINE n == Len(text)
           left == {i \in 1..n : ~\E j \in 1..i : text[j][1] = "overlay" /\ NextHeader(text, j) > i}
           strip == StripOverlays(text)
           last == Find(strip, {Line("end", "profiles")}, 1)
           new == StripLoneEnd(strip, "profiles")
<1>0. n \in Nat
  OBVIOUS
<1>1. StripBlock(text, "profiles") = new /\ strip = Keep(text, left) /\ left \cap 1..n = left
  BY DEF StripBlock, StripOverlays
<1> HIDE DEF left, strip
<1>2. PICK e : Traces(e, strip, text, added) /\ Kept(e, left \cap 1..n)
  BY <1>1, KeepTraces
<1>3. strip \in Seq(L) /\ Len(strip) \in Nat
  <2>1. strip \in Seq(L)
    BY <1>1, KeepInSeq
  <2> QED BY <2>1
<1>4. \E f : /\ Traces(f, new, strip, added) /\ Len(new) \in Nat
             /\ \A i \in 1..Len(strip) : Comes(f, i) \/ strip[i] = Line("end", "profiles")
  <2>1. CASE last = 0
    <3>1. new = strip
      BY <2>1 DEF StripLoneEnd
    <3>2. PICK f : Traces(f, strip, strip, added) /\ Kept(f, 1..Len(strip))
      BY <1>3, SameTraces
    <3> QED BY <1>3, <3>1, <3>2 DEF Kept
  <2>2. CASE last # 0
    <3>1. last \in 1..Len(strip) /\ strip[last] = Line("end", "profiles")
      BY <1>3, <2>2, FindIs
    <3> DEFINE a == last - 1
    <3>2. new = SubSeq(strip, 1, a) \o SubSeq(strip, last + 1, Len(strip))
      BY <2>2 DEF StripLoneEnd, RemoveAt
    <3> HIDE DEF last, new
    <3>3. a \in 0..Len(strip) /\ last \in a..Len(strip) /\ (a + 1)..last = {last}
      BY <1>3, <3>1
    <3> HIDE DEF a
    <3>4. PICK f : Traces(f, new, strip, added) /\ Kept(f, (1..Len(strip)) \ (a + 1)..last)
      BY <1>3, <3>2, <3>3, CutTraces
    <3>5. Len(new) \in Nat
      <4>1. SubSeq(strip, 1, a) \in Seq(L) /\ SubSeq(strip, last + 1, Len(strip)) \in Seq(L)
        BY <1>3, <3>1, <3>3
      <4>2. new \in Seq(L)
        BY <3>2, <4>1, JoinIs
      <4> QED BY <4>2
    <3> QED BY <3>1, <3>3, <3>4, <3>5 DEF Kept
  <2> QED BY <2>1, <2>2
<1>5. PICK f : /\ Traces(f, new, strip, added) /\ Len(new) \in Nat
               /\ \A i \in 1..Len(strip) : Comes(f, i) \/ strip[i] = Line("end", "profiles")
  BY <1>4
<1> HIDE DEF new
<1> DEFINE g == After(e, f)
           p == After(o, g)
<1>6. Traces(g, new, text, added) /\ Passes(e, f, g)
  BY <1>0, <1>2, <1>3, <1>5, AfterTraces
<1>7. \A i \in 1..n : i \in left => Comes(g, i) \/ text[i] = Line("end", "profiles")
  <2> SUFFICES ASSUME NEW i \in 1..n, i \in left PROVE Comes(g, i) \/ text[i] = Line("end", "profiles")
    OBVIOUS
  <2>1. PICK m \in DOMAIN e : e[m] = i
    BY <1>2 DEF Kept, Comes
  <2>2. m \in 1..Len(strip) /\ strip[m] = text[i]
    <3>1. i # 0
      OBVIOUS
    <3> QED BY <1>2, <2>1, <3>1 DEF Traces
  <2> QED BY <1>5, <1>6, <2>1, <2>2 DEF Passes
<1> HIDE DEF g
<1>8. Traces(p, new, old, added) /\ Passes(o, g, p)
  BY <1>0, <1>5, <1>6, AfterTraces
<1> HIDE DEF p
<1>9. /\ o \in [1..n -> 0..Len(old)]
      /\ \A k \in 1..n : IF o[k] = 0 THEN text[k] \in added ELSE text[k] = old[o[k]]
      /\ \A k, l \in 1..n : k < l /\ o[k] # 0 /\ o[l] # 0 => o[k] < o[l]
  BY DEF Traces
<1>10. ASSUME Apart(old), NEW i \in 1..Len(old), Owned(old, i) PROVE Comes(p, i)
  <2> DEFINE outside(k) == ~InBlock(old, k, "catalog") /\ ~InBlock(old, k, "nux")
  <2>1. /\ old[i][1] \notin {"begin", "end", "overlay"} /\ outside(i)
        /\ ~\E j \in 1..(i - 1) : old[j][1] = "overlay" /\ \A k \in (j + 1)..i : IsHeader(old[k]) => ~outside(k)
    BY <1>10 DEF Owned
  <2>2. \A k \in 1..Len(old) : old[k][1] \notin {"begin", "end"} /\ outside(k) => Comes(o, k)
    BY <1>10 DEF Intact, Lost, Line
  <2>3. PICK m \in 1..n : o[m] = i
    BY <1>9, <2>1, <2>2 DEF Comes
  <2>4. text[m] = old[i] /\ i # 0 /\ i \in Nat /\ m \in Nat
    BY <1>9, <2>3
  <2>5. m \in left
    <3> SUFFICES ASSUME NEW j \in 1..m, text[j][1] = "overlay", NextHeader(text, j) > m PROVE FALSE
      BY DEF left
    <3>1. j \in 1..n /\ j \in Nat /\ j < m
      BY <1>0, <2>1, <2>4
    <3> DEFINE h == o[j]
    <3>2. h # 0 /\ h \in Nat /\ old[h] = text[j]
      BY <1>9, <3>1
    <3>3. h < i
      BY <1>9, <2>3, <2>4, <3>1, <3>2
    <3>4. ASSUME NEW k \in (h + 1)..i, IsHeader(old[k]), outside(k) PROVE FALSE
      <4>1. k \in 1..Len(old) /\ k \in Nat /\ k # 0 /\ h < k /\ k <= i
        BY <2>4, <3>2
      <4>2. Comes(o, k)
        BY <2>2, <3>4, <4>1 DEF IsHeader
      <4>3. PICK q \in 1..n : o[q] = k
        BY <1>9, <4>2 DEF Comes
      <4>4. text[q] = old[k] /\ q \in Nat
        BY <1>9, <4>1, <4>3, SMTT(40)
      <4>5. ~(q < j) /\ q # j
        <5>1. ASSUME q < j PROVE FALSE
          <6>1. k < h
            BY <1>9, <3>1, <3>2, <4>1, <4>3, <5>1
          <6> QED BY <3>2, <4>1, <6>1
        <5>2. q # j
          BY <3>2, <4>1, <4>3
        <5> QED BY <5>1, <5>2
      <4>6. ~(m < q)
        <5>1. ASSUME m < q PROVE FALSE
          <6>1. i < k
            BY <1>9, <2>3, <2>4, <4>1, <4>3, <5>1
          <6> QED BY <2>4, <4>1, <6>1
        <5> QED BY <5>1
      <4>7. /\ NextHeader(text, j) \in (j + 1)..(n + 1)
            /\ \A x \in (j + 1)..(NextHeader(text, j) - 1) : ~IsHeader(text[x])
        <5>1. j \in 0..Len(text)
          BY <3>1
        <5> QED BY <5>1, NextHeaderIs
      <4>8. q \in (j + 1)..(NextHeader(text, j) - 1)
        BY <1>0, <2>4, <3>1, <4>4, <4>5, <4>6, <4>7
      <4> QED BY <3>4, <4>4, <4>7, <4>8
    <3>5. h \in 1..(i - 1) /\ old[h][1] = "overlay"
      BY <2>4, <3>2, <3>3
    <3> HIDE DEF h, outside
    <3>6. \A k \in (h + 1)..i : IsHeader(old[k]) => ~outside(k)
      BY <3>4
    <3> QED BY <2>1, <3>5, <3>6
  <2>6. text[m] # Line("end", "profiles")
    BY <2>1, <2>4 DEF Line
  <2>7. m \in DOMAIN o /\ o[m] # 0
    BY <1>9, <2>3, <2>4
  <2> QED BY <1>7, <1>8, <2>3, <2>5, <2>6, <2>7 DEF Passes
<1>11. Apart(old) => UsersCome(p, old)
  BY <1>10 DEF UsersCome
<1> QED BY <1>1, <1>8, <1>11

\* The lines that a rewriting may add.
Ours(prefixes) == Added(prefixes) \cup {Line("model", DefaultModel)}

LEMMA OursAre ==
    ASSUME NEW prefixes, NEW line \in Ours(prefixes)
    PROVE  /\ line[1] \in {"table", "bearer", "wire_api", "begin", "end", "model"}
           /\ line[1] = "begin" => line[2] = "gateway"
<1>1. CASE line \in {Line(kind, p) : kind \in {"table", "bearer", "wire_api"}, p \in prefixes \cup {Claude}}
  BY <1>1 DEF Line
<1>2. CASE line \in {Line("begin", "gateway"), Line("end", "gateway"), Line("model", DefaultModel)}
  BY <1>2 DEF Line
<1> QED BY <1>1, <1>2 DEF Ours, Added

LEMMA EnsureDefaultModelTraces ==
    ASSUME NEW L, NEW text \in Seq(L), NEW added, Line("model", DefaultModel) \in added, Line("model", DefaultModel) \in L
    PROVE  \E o : Traces(o, EnsureDefaultModel(text), text, added) /\ Kept(o, 1..Len(text))
<1> DEFINE root == NextHeader(text, 0)
           line == Line("model", DefaultModel)
<1>1. EnsureDefaultModel(text) \in {text, InsertAt(text, root, line)}
  BY DEF EnsureDefaultModel
<1>2. root \in 1..(Len(text) + 1)
  <2>1. 0 \in 0..Len(text)
    OBVIOUS
  <2> QED BY <2>1, NextHeaderIs
<1> HIDE DEF root, line
<1>3. \E o : Traces(o, text, text, added) /\ Kept(o, 1..Len(text))
  BY SameTraces
<1>4. \E o : Traces(o, InsertAt(text, root, line), text, added) /\ Kept(o, 1..Len(text))
  BY <1>2, InsertTraces DEF line
<1> QED BY <1>1, <1>3, <1>4

LEMMA StrippedTraces ==
    ASSUME NEW L, NEW old \in Seq(L), NEW prefixes, Ours(prefixes) \subseteq L, ~RewriteRefused(old)
    PROVE  \E o : Traces(o, Stripped(old), old, Ours(prefixes)) /\ (Apart(old) => UsersCome(o, old))
<1> DEFINE added == Ours(prefixes)
           t1 == EnsureDefaultModel(old)
           t2 == StripBlock(t1, "catalog")
           t3 == StripBlock(t2, "nux")
           t4 == StripBlock(t3, "profiles")
<1>1. ~Unended(t1, "catalog") /\ ~Unended(t2, "nux") /\ ~Unended(t3, "profiles") /\ Stripped(old) = t4
  BY DEF RewriteRefused, Stripped
<1>2. Line("model", DefaultModel) \in added /\ Line("model", DefaultModel) \in L /\ Len(old) \in Nat
  BY DEF Ours
<1>3. \A b \in Blocks : Line("begin", b) \notin added
  <2> SUFFICES ASSUME NEW b \in Blocks, Line("begin", b) \in Ours(prefixes) PROVE FALSE
    OBVIOUS
  <2>1. Line("begin", b)[1] = "begin" /\ Line("begin", b)[2] = b
    BY DEF Line
  <2>2. b = "gateway"
    BY <2>1, OursAre
  <2> QED BY <2>2 DEF Blocks
<1>4. \A line \in added : line[1] # "overlay"
  BY OursAre
<1> HIDE DEF added
<1>5. PICK o1 : Traces(o1, t1, old, added) /\ Kept(o1, 1..Len(old))
  BY <1>2, EnsureDefaultModelTraces
<1>6. t1 \in Seq(L)
  BY <1>2, EnsureDefaultModelInSeq
<1> HIDE DEF t1
<1>7. Intact(o1, old, {})
  BY <1>5 DEF Intact, Kept
<1>8. PICK o2 : Traces(o2, t2, old, added) /\ (Apart(old) => Intact(o2, old, {"catalog"}))
  <2>1. {} \in SUBSET (Blocks \ {"catalog"}) /\ Line("begin", "catalog") \notin added /\ {} \cup {"catalog"} = {"catalog"}
    BY <1>3 DEF Blocks
  <2>2. \E p : /\ Traces(p, StripBlock(t1, "catalog"), old, added)
               /\ Apart(old) => Intact(p, old, {} \cup {"catalog"})
    BY <1>1, <1>2, <1>5, <1>6, <1>7, <2>1, MaybeBlockTraces
  <2> QED BY <2>1, <2>2
<1>9. t2 \in Seq(L)
  BY <1>1, <1>6, StripBlockInSeq
<1> HIDE DEF t2
<1>10. PICK o3 : Traces(o3, t3, old, added) /\ (Apart(old) => Intact(o3, old, {"catalog", "nux"}))
  <2>1. /\ {"catalog"} \in SUBSET (Blocks \ {"nux"}) /\ Line("begin", "nux") \notin added
        /\ {"catalog"} \cup {"nux"} = {"catalog", "nux"}
    BY <1>3 DEF Blocks
  <2>2. \E p : /\ Traces(p, StripBlock(t2, "nux"), old, added)
               /\ Apart(old) => Intact(p, old, {"catalog"} \cup {"nux"})
    BY <1>1, <1>2, <1>8, <1>9, <2>1, MaybeBlockTraces
  <2> QED BY <2>1, <2>2
<1>11. t3 \in Seq(L)
  BY <1>1, <1>9, StripBlockInSeq
<1> HIDE DEF t3
<1>12. CASE BlockStart(t3, "profiles") # 0
  <2>1. /\ {"catalog", "nux"} \in SUBSET (Blocks \ {"profiles"}) /\ Line("begin", "profiles") \notin added
        /\ {"catalog", "nux"} \cup {"profiles"} = Blocks /\ "profiles" \in Blocks
    BY <1>3 DEF Blocks
  <2>2. \E p : /\ Traces(p, StripBlock(t3, "profiles"), old, added)
               /\ Apart(old) => Intact(p, old, {"catalog", "nux"} \cup {"profiles"})
    BY <1>1, <1>2, <1>10, <1>11, <1>12, <2>1, BlockTraces
  <2>3. PICK p : Traces(p, t4, old, added) /\ (Apart(old) => Intact(p, old, Blocks))
    BY <2>1, <2>2
  <2>4. ASSUME NEW i \in 1..Len(old), Owned(old, i) PROVE ~Lost(old, i, Blocks)
    <3>1. /\ old[i][1] \notin {"begin", "end"}
          /\ ~InBlock(old, i, "catalog") /\ ~InBlock(old, i, "nux") /\ ~InBlock(old, i, "profiles")
      BY <2>4 DEF Owned
    <3> QED BY <3>1 DEF Lost, Blocks, Line
  <2>5. Apart(old) => UsersCome(p, old)
    BY <2>3, <2>4 DEF Intact, UsersCome
  <2> QED BY <1>1, <2>3, <2>5 DEF added
<1>13. CASE BlockStart(t3, "profiles") = 0
  <2>1. \E p : Traces(p, t4, old, added) /\ (Apart(old) => UsersCome(p, old))
    BY <1>2, <1>4, <1>10, <1>11, <1>13, OverlaysTraces
  <2> QED BY <1>1, <2>1 DEF added
<1> QED BY <1>12, <1>13

\* All but the names of environment variables.
Plain(text) == {i \in 1..Len(text) : text[i][1] # "env_key"}

LEMMA EnsureBearerTraces ==
    ASSUME NEW L, NEW text \in Seq(L), NEW added, Line("bearer", Claude) \in added, Line("bearer", Claude) \in L
    PROVE  \E o : Traces(o, EnsureBearer(text), text, added) /\ Kept(o, Plain(text))
<1> DEFINE header == Find(text, {Line("table", Claude)}, 1)
           last == NextHeader(text, header) - 1
           table == SubSeq(text, header + 1, last)
           plain == {i \in DOMAIN table : table[i][1] # "env_key"}
           body == Keep(table, plain)
           wire == Find(body, {Line("wire_api", Claude)}, 1)
           place == IF wire = 0 THEN Len(body) + 1 ELSE wire
           line == Line("bearer", Claude)
           bearer == IF \E i \in 1..Len(body) : body[i][1] = "bearer" THEN body ELSE InsertAt(body, place, line)
<1>1. EnsureBearer(text) = IF header = 0 THEN text
                           ELSE (SubSeq(text, 1, header) \o bearer) \o SubSeq(text, last + 1, Len(text))
  BY DEF EnsureBearer
<1>2. header \in Nat /\ (header # 0 => header \in 1..Len(text)) /\ Len(text) \in Nat
  BY FindIs
<1> HIDE DEF header
<1>3. CASE header = 0
  <2>1. PICK o : Traces(o, text, text, added) /\ Kept(o, 1..Len(text))
    BY SameTraces
  <2> QED BY <1>1, <1>3, <2>1 DEF Kept, Plain
<1>4. CASE header # 0
  <2>1. last \in header..Len(text)
    <3>1. header \in 0..Len(text)
      BY <1>2, <1>4
    <3>2. NextHeader(text, header) \in (header + 1)..(Len(text) + 1)
      BY <3>1, NextHeaderIs
    <3> QED BY <1>2, <3>2
  <2> HIDE DEF last
  <2>2. /\ table \in Seq(L) /\ Len(table) = last - header
        /\ \A k \in 1..(last - header) : table[k] = text[header + k]
    BY <1>2, <1>4, <2>1
  <2>3. DOMAIN table = 1..(last - header) /\ Len(table) \in Nat
    BY <2>2
  <2> HIDE DEF table, plain
  <2>4. body \in Seq(L)
    BY <2>2, KeepInSeq
  <2>5. PICK e : Traces(e, body, table, added) /\ Kept(e, plain \cap 1..Len(table))
    BY <2>2, KeepTraces
  <2> HIDE DEF body, line
  <2>6. place \in 1..(Len(body) + 1) /\ Len(body) \in Nat
    <3>1. wire \in Nat /\ (wire # 0 => wire \in 1..Len(body)) /\ Len(body) \in Nat
      BY <2>4, FindIs
    <3> HIDE DEF wire
    <3> QED BY <3>1
  <2> HIDE DEF place
  <2>7. /\ bearer \in Seq(L)
        /\ \E f : Traces(f, bearer, body, added) /\ Kept(f, 1..Len(body))
    <3>1. InsertAt(body, place, line) \in Seq(L)
      BY <2>4, <2>6, InsertInSeq DEF line
    <3>2. \E f : Traces(f, InsertAt(body, place, line), body, added) /\ Kept(f, 1..Len(body))
      BY <2>4, <2>6, InsertTraces DEF line
    <3>3. \E f : Traces(f, body, body, added) /\ Kept(f, 1..Len(body))
      BY <2>4, SameTraces
    <3> QED BY <2>4, <3>1, <3>2, <3>3
  <2> HIDE DEF bearer
  <2>8. PICK f : Traces(f, bearer, body, added) /\ Kept(f, 1..Len(body))
    BY <2>7
  <2> DEFINE g == After(e, f)
  <2>9. Traces(g, bearer, table, added) /\ Passes(e, f, g)
    <3>1. Len(bearer) \in Nat
      BY <2>7
    <3> QED BY <2>3, <2>5, <2>6, <2>8, <3>1, AfterTraces
  <2> HIDE DEF g
  <2>10. PICK o : /\ Traces(o, (SubSeq(text, 1, header) \o bearer) \o SubSeq(text, last + 1, Len(text)), text, added)
                  /\ Kept(o, Around(text, g, header, last))
    <3>1. header \in 0..Len(text) /\ last \in header..Len(text)
      BY <1>2, <1>4, <2>1
    <3>2. Traces(g, bearer, SubSeq(text, header + 1, last), added)
      BY <2>9 DEF table
    <3> QED BY <2>7, <3>1, <3>2, AroundTraces
  <2>11. ASSUME NEW i \in Plain(text), i \in (header + 1)..last PROVE Comes(g, i - header)
    <3>1. i \in 1..Len(text) /\ text[i][1] # "env_key"
      BY DEF Plain
    <3>2. i - header \in 1..(last - header) /\ header + (i - header) = i /\ i - header # 0
      BY <1>2, <2>1, <2>11
    <3>3. table[i - header] = text[i]
      BY <2>2, <3>2
    <3>4. i - header \in plain \cap 1..Len(table)
      BY <2>2, <2>3, <3>1, <3>2, <3>3 DEF plain
    <3> DEFINE j == i - header
    <3> HIDE DEF j
    <3>5. Comes(e, j) /\ j # 0
      BY <2>5, <3>2, <3>4 DEF Kept, j
    <3>6. PICK m \in DOMAIN e : e[m] = j
      BY <3>5 DEF Comes
    <3>7. m \in 1..Len(body)
      BY <2>5 DEF Traces
    <3>8. Comes(f, m)
      BY <2>8, <3>7 DEF Kept
    <3> QED BY <2>9, <3>5, <3>6, <3>8 DEF Passes, j
  <2>12. Plain(text) \subseteq Around(text, g, header, last)
    BY <2>11 DEF Around, Plain
  <2>13. Kept(o, Plain(text))
    BY <2>10, <2>12 DEF Kept
  <2> QED BY <1>1, <1>4, <2>10, <2>13
<1> QED BY <1>3, <1>4

\* The tables that are missing are the sync's lines.
LEMMA TablesAre ==
    ASSUME NEW prefixes, NEW without \in SUBSET prefixes, IsFiniteSet(without)
    PROVE  LET missing == SetToSeq(without) IN
           FlattenSeq([i \in 1..Len(missing) |-> ProviderTable(missing[i])]) \in Seq(Added(prefixes))
<1> DEFINE missing == SetToSeq(without)
           list == [i \in 1..Len(missing) |-> ProviderTable(missing[i])]
           L == Added(prefixes)
<1>1. /\ missing \in Seq(without) /\ Len(missing) \in Nat
  BY SetToSeqIs
<1>2. \A p \in prefixes : ProviderTable(p) \in Seq(L)
  <2> SUFFICES ASSUME NEW p \in prefixes PROVE ProviderTable(p) \in Seq(L)
    OBVIOUS
  <2>1. Line("table", p) \in L /\ Line("bearer", p) \in L /\ Line("wire_api", p) \in L
    BY DEF Added
  <2> DEFINE first == <<Line("table", p)>>
             token == IF p = Claude THEN <<Line("bearer", p)>> ELSE <<>>
             third == <<Line("wire_api", p)>>
  <2>2. ProviderTable(p) = (first \o token) \o third
    BY DEF ProviderTable
  <2> HIDE DEF L
  <2>3. first \in Seq(L) /\ token \in Seq(L) /\ third \in Seq(L)
    BY <2>1
  <2> HIDE DEF first, token, third
  <2>4. first \o token \in Seq(L)
    BY <2>3
  <2>5. (first \o token) \o third \in Seq(L)
    BY <2>3, <2>4
  <2> QED BY <2>2, <2>5
<1>3. \A i \in 1..Len(missing) : missing[i] \in prefixes
  <2>1. \A i \in 1..Len(missing) : missing[i] \in without
    <3> HIDE DEF missing
    <3> QED BY <1>1
  <2> QED BY <2>1
<1> HIDE DEF missing, L
<1>4. list \in Seq(Seq(L))
  <2>1. \A i \in 1..Len(missing) : ProviderTable(missing[i]) \in Seq(L)
    BY <1>2, <1>3
  <2> DEFINE n == Len(missing)
             T == Seq(L)
  <2>2. list \in [1..n -> T] /\ n \in Nat
    BY <1>1, <2>1
  <2> HIDE DEF list, n, T
  <2>3. list \in Seq(T)
    BY <2>2
  <2> QED BY <2>3 DEF T
<1> HIDE DEF list
<1>5. FlattenSeq(list) \in Seq(L)
  BY <1>4, FlattenInSeq
<1> QED BY <1>5 DEF list, missing, L

\* Lines are put at the end of what was made of a text.
LEMMA ThenLonger ==
    ASSUME NEW L, NEW text \in Seq(L), NEW more \in Seq(L), NEW old, Len(old) \in Nat, NEW added,
           more \in Seq(added), NEW o, Traces(o, text, old, added), Kept(o, 1..Len(old))
    PROVE  \E p : Traces(p, text \o more, old, added) /\ Kept(p, 1..Len(old))
<1>1. \A k \in 1..Len(more) : more[k] \in added
  OBVIOUS
<1>2. PICK e : Traces(e, text \o more, text, added) /\ Kept(e, 1..Len(text))
  BY <1>1, LongerTraces
<1>3. Len(text) \in Nat /\ Len(text \o more) \in Nat
  BY JoinIs
<1> DEFINE p == After(o, e)
<1>4. Traces(p, text \o more, old, added) /\ Passes(o, e, p)
  BY <1>2, <1>3, AfterTraces
<1> HIDE DEF p
<1>5. ASSUME NEW i \in 1..Len(old) PROVE Comes(p, i)
  <2>1. PICK m \in DOMAIN o : o[m] = i
    BY DEF Kept, Comes
  <2>2. m \in 1..Len(text) /\ i # 0
    BY DEF Traces
  <2> QED BY <1>2, <1>4, <2>1, <2>2 DEF Passes, Kept
<1>6. Kept(p, 1..Len(old))
  BY <1>5 DEF Kept
<1> QED BY <1>4, <1>6

LEMMA EnsureTablesTraces ==
    ASSUME NEW L, NEW text \in Seq(L), NEW prefixes, IsFiniteSet(prefixes), Ours(prefixes) \subseteq L
    PROVE  \E o : Traces(o, EnsureTables(text, prefixes), text, Ours(prefixes)) /\ Kept(o, Plain(text))
<1> DEFINE added == Ours(prefixes)
           without == {p \in prefixes : ~HasTable(text, p)}
           missing == SetToSeq(without)
           tables == FlattenSeq([i \in 1..Len(missing) |-> ProviderTable(missing[i])])
           begin == <<Line("begin", "gateway")>>
           end == <<Line("end", "gateway")>>
           more == IF missing = <<>> THEN text ELSE ((text \o begin) \o tables) \o end
<1>1. EnsureTables(text, prefixes) = EnsureBearer(more)
  BY DEF EnsureTables
<1>2. Len(text) \in Nat /\ Line("bearer", Claude) \in added /\ Line("bearer", Claude) \in L
  BY DEF Ours, Added
<1>3. tables \in Seq(added) /\ begin \in Seq(added) /\ end \in Seq(added)
  <2>1. IsFiniteSet(without) /\ without \in SUBSET prefixes
    BY FS_Subset
  <2> HIDE DEF without
  <2>2. tables \in Seq(Added(prefixes))
    BY <2>1, TablesAre
  <2>3. Line("begin", "gateway") \in added /\ Line("end", "gateway") \in added /\ Added(prefixes) \subseteq added
    BY DEF Ours, Added
  <2> HIDE DEF tables, added
  <2> QED BY <2>2, <2>3
<1>4. added \subseteq L
  OBVIOUS
<1> HIDE DEF tables, begin, end, added, missing
<1>5. tables \in Seq(L) /\ begin \in Seq(L) /\ end \in Seq(L)
  BY <1>3, <1>4
<1>6. more \in Seq(L) /\ \E o : Traces(o, more, text, added) /\ Kept(o, 1..Len(text))
  <2>1. PICK o1 : Traces(o1, text, text, added) /\ Kept(o1, 1..Len(text))
    BY SameTraces
  <2> DEFINE x == text \o begin
             y == x \o tables
             z == y \o end
  <2>2. PICK o2 : Traces(o2, x, text, added) /\ Kept(o2, 1..Len(text))
    BY <1>2, <1>3, <1>5, <2>1, ThenLonger
  <2>3. x \in Seq(L)
    BY <1>5
  <2> HIDE DEF x
  <2>4. PICK o3 : Traces(o3, y, text, added) /\ Kept(o3, 1..Len(text))
    BY <1>2, <1>3, <1>5, <2>2, <2>3, ThenLonger
  <2>5. y \in Seq(L)
    BY <1>5, <2>3
  <2> HIDE DEF y
  <2>6. PICK o4 : Traces(o4, z, text, added) /\ Kept(o4, 1..Len(text))
    BY <1>2, <1>3, <1>5, <2>4, <2>5, ThenLonger
  <2>7. z \in Seq(L)
    BY <1>5, <2>5
  <2>8. more \in {text, z}
    BY DEF x, y
  <2> HIDE DEF z, more
  <2> QED BY <2>1, <2>6, <2>7, <2>8
<1> HIDE DEF more
<1>7. PICK o : Traces(o, more, text, added) /\ Kept(o, 1..Len(text))
  BY <1>6
<1>8. PICK e : Traces(e, EnsureBearer(more), more, added) /\ Kept(e, Plain(more))
  BY <1>2, <1>6, EnsureBearerTraces
<1> DEFINE p == After(o, e)
<1>9. Traces(p, EnsureBearer(more), text, added) /\ Passes(o, e, p)
  <2>1. EnsureBearer(more) \in Seq(L)
    BY <1>2, <1>6, EnsureBearerKeeps
  <2>2. Len(EnsureBearer(more)) \in Nat /\ Len(more) \in Nat
    BY <1>6, <2>1
  <2> QED BY <1>2, <1>7, <1>8, <2>2, AfterTraces
<1> HIDE DEF p
<1>10. ASSUME NEW i \in Plain(text) PROVE Comes(p, i)
  <2>1. i \in 1..Len(text) /\ text[i][1] # "env_key" /\ i # 0
    BY DEF Plain
  <2>2. PICK m \in DOMAIN o : o[m] = i
    BY <1>7, <2>1 DEF Kept, Comes
  <2>3. m \in 1..Len(more) /\ more[m] = text[i]
    BY <1>7, <2>1, <2>2 DEF Traces
  <2>4. Comes(e, m)
    BY <1>8, <2>1, <2>3 DEF Kept, Plain
  <2> QED BY <1>9, <2>1, <2>2, <2>4 DEF Passes
<1>11. Kept(p, Plain(text))
  BY <1>10 DEF Kept
<1> QED BY <1>1, <1>9, <1>11 DEF added

LEMMA RewrittenTraces ==
    ASSUME NEW L, NEW old \in Seq(L), NEW prefixes, IsFiniteSet(prefixes), Ours(prefixes) \subseteq L,
           ~RewriteRefused(old)
    PROVE  /\ Rewritten(old, prefixes) \in Seq(L)
           /\ \E o : Traces(o, Rewritten(old, prefixes), old, Ours(prefixes)) /\ (Apart(old) => UsersCome(o, old))
<1> DEFINE text == Stripped(old)
           new == EnsureTables(text, prefixes)
           added == Ours(prefixes)
<1>1. Rewritten(old, prefixes) = new
  BY DEF Rewritten
<1>2. Line("model", DefaultModel) \in L /\ Added(prefixes) \subseteq L
  BY DEF Ours
<1>3. text \in Seq(L)
  BY <1>2, StrippedInSeq
<1>4. PICK o : Traces(o, text, old, added) /\ (Apart(old) => UsersCome(o, old))
  BY StrippedTraces
<1> HIDE DEF text
<1>5. new \in Seq(L)
  BY <1>2, <1>3, EnsureTablesIs
<1>6. PICK e : Traces(e, new, text, added) /\ Kept(e, Plain(text))
  BY <1>3, EnsureTablesTraces
<1> HIDE DEF new, added
<1> DEFINE p == After(o, e)
<1>7. Traces(p, new, old, added) /\ Passes(o, e, p)
  <2>1. Len(text) \in Nat /\ Len(old) \in Nat /\ Len(new) \in Nat
    BY <1>3, <1>5
  <2> QED BY <1>4, <1>6, <2>1, AfterTraces
<1> HIDE DEF p
<1>8. ASSUME Apart(old), NEW i \in 1..Len(old), Owned(old, i) PROVE Comes(p, i)
  <2>1. old[i][1] # "env_key" /\ i # 0
    BY <1>8 DEF Owned
  <2>2. PICK m \in DOMAIN o : o[m] = i
    BY <1>4, <1>8 DEF UsersCome, Comes
  <2>3. m \in 1..Len(text) /\ text[m] = old[i]
    BY <1>4, <2>1, <2>2 DEF Traces
  <2>4. Comes(e, m)
    BY <1>6, <2>1, <2>3 DEF Kept, Plain
  <2> QED BY <1>7, <2>1, <2>2, <2>4 DEF Passes
<1>9. Apart(old) => UsersCome(p, old)
  BY <1>8 DEF UsersCome
<1> QED BY <1>1, <1>5, <1>7, <1>9 DEF added

\* A text that is traced to another has the lines that come in their order, and none
\* of those that are not added more often.
LEMMA TracedLinesStay ==
    ASSUME NEW L, NEW old \in Seq(L), NEW new \in Seq(L), NEW added, \A line \in added : line[1] # "user",
           NEW o, Traces(o, new, old, added), Apart(old) => UsersCome(o, old)
    PROVE  LinesStay(old, new)
<1>1. /\ o \in [1..Len(new) -> 0..Len(old)]
      /\ \A k \in 1..Len(new) : IF o[k] = 0 THEN new[k] \in added ELSE new[k] = old[o[k]]
      /\ \A k, l \in 1..Len(new) : k < l /\ o[k] # 0 /\ o[l] # 0 => o[k] < o[l]
      /\ Len(new) \in Nat /\ Len(old) \in Nat
  BY DEF Traces
<1>2. ASSUME Apart(old), NEW i \in {m \in 1..Len(old) : Owned(old, m)}, NEW j \in {m \in 1..Len(old) : Owned(old, m)}, i <= j
      PROVE  \E k \in 1..Len(new) : new[k] = old[i] /\ \E l \in k..Len(new) : new[l] = old[j] /\ (i < j => k < l)
  <2>1. PICK k \in 1..Len(new) : o[k] = i
    BY <1>1, <1>2 DEF UsersCome, Comes
  <2>2. PICK l \in 1..Len(new) : o[l] = j
    BY <1>1, <1>2 DEF UsersCome, Comes
  <2>3. new[k] = old[i] /\ new[l] = old[j] /\ i # 0 /\ j # 0 /\ i \in Nat /\ j \in Nat /\ k \in Nat /\ l \in Nat
    BY <1>1, <2>1, <2>2
  <2>4. CASE i = j
    <3>1. k \in k..Len(new)
      BY <2>3
    <3> QED BY <2>3, <2>4, <3>1
  <2>5. CASE i < j
    <3>1. ~(l < k) /\ l # k
      <4>1. l < k => j < i
        BY <1>1, <2>1, <2>2, <2>3
      <4>2. l = k => i = j
        BY <2>1, <2>2
      <4> QED BY <2>3, <2>5, <4>1, <4>2
    <3>2. k < l /\ l \in k..Len(new)
      BY <1>1, <2>3, <3>1
    <3> QED BY <2>3, <3>2
  <2> QED BY <1>2, <2>3, <2>4, <2>5
<1>3. ASSUME NEW k \in 1..Len(new), new[k][1] = "user" PROVE Occurs(new[k], new) <= Occurs(new[k], old)
  <2> DEFINE x == new[k]
             A == {l \in 1..Len(new) : new[l] = x}
             B == {i \in 1..Len(old) : old[i] = x}
             f == [l \in A |-> o[l]]
  <2>1. IsFiniteSet(B)
    <3>1. IsFiniteSet(1..Len(old)) /\ B \subseteq 1..Len(old)
      BY <1>1, FS_Interval
    <3> QED BY <3>1, FS_Subset
  <2>2. \A l \in A : o[l] # 0 /\ o[l] \in B
    <3> SUFFICES ASSUME NEW l \in A PROVE o[l] # 0 /\ o[l] \in B
      OBVIOUS
    <3>1. l \in 1..Len(new) /\ new[l][1] = "user"
      BY <1>3
    <3>2. o[l] # 0 /\ o[l] \in 0..Len(old)
      BY <1>1, <3>1
    <3> QED BY <1>1, <3>1, <3>2
  <2>3. \A l, m \in A : o[l] = o[m] => l = m
    <3> SUFFICES ASSUME NEW l \in A, NEW m \in A, o[l] = o[m], l # m PROVE FALSE
      OBVIOUS
    <3>1. l \in 1..Len(new) /\ m \in 1..Len(new) /\ l \in Nat /\ m \in Nat /\ (l < m \/ m < l)
      OBVIOUS
    <3>2. o[l] < o[m] \/ o[m] < o[l]
      BY <1>1, <2>2, <3>1
    <3>3. o[l] \in Nat
      BY <1>1, <3>1
    <3> QED BY <3>2, <3>3
  <2> HIDE DEF A, B
  <2>4. f \in Injection(A, B)
    <3>1. f \in [A -> B]
      BY <2>2
    <3>2. \A l, m \in A : f[l] = f[m] => l = m
      BY <2>3
    <3> HIDE DEF f
    <3> QED BY <3>1, <3>2 DEF Injection, IsInjective
  <2>5. Cardinality(A) <= Cardinality(B)
    BY <2>1, <2>4, FS_Injection
  <2> QED BY <2>5 DEF Occurs, A, B
<1> QED BY <1>2, <1>3 DEF LinesStay

LEMMA RewrittenLinesStay ==
    ASSUME NEW L, NEW old \in Seq(L), NEW prefixes, IsFiniteSet(prefixes), ~RewriteRefused(old)
    PROVE  LinesStay(old, Rewritten(old, prefixes))
<1> DEFINE M == L \cup Ours(prefixes)
           new == Rewritten(old, prefixes)
<1>1. old \in Seq(M) /\ Ours(prefixes) \subseteq M
  <2>1. L \subseteq M /\ Ours(prefixes) \subseteq M
    OBVIOUS
  <2> HIDE DEF M
  <2> QED BY <2>1
<1> HIDE DEF M
<1>2. /\ new \in Seq(M)
      /\ \E o : Traces(o, new, old, Ours(prefixes)) /\ (Apart(old) => UsersCome(o, old))
  BY <1>1, RewrittenTraces
<1>3. \A line \in Ours(prefixes) : line[1] # "user"
  BY OursAre
<1> HIDE DEF new
<1>4. LinesStay(old, new)
  BY <1>1, <1>2, <1>3, TracedLinesStay
<1> QED BY <1>4 DEF new

\* All lines of a text.
LEMMA KeepAll ==
    ASSUME NEW L, NEW text \in Seq(L), NEW indices, 1..Len(text) \subseteq indices
    PROVE  Keep(text, indices) = text
<1> DEFINE n == Len(text)
           all == 1..n
<1>1. n \in Nat /\ indices \cap DOMAIN text = all
  OBVIOUS
<1>2. IsFiniteSet(all) /\ Cardinality(all) = n /\ all \in SUBSET Nat
  BY <1>1, FS_Interval, SMTT(40)
<1>3. ASSUME NEW k \in all PROVE Nth(all, k) = k
  <2>1. {m \in all : m <= k} = 1..k /\ k \in Nat
    BY <1>1
  <2>2. Cardinality(1..k) = k
    BY <2>1, FS_Interval
  <2>3. Place(all, k) = k
    BY <2>1, <2>2 DEF Place
  <2> HIDE DEF all
  <2> QED BY <1>2, <2>3, PlaceIs
<1>4. Keep(text, indices) = [k \in 1..Cardinality(all) |-> text[Nth(all, k)]]
  BY <1>1 DEF Keep
<1>5. Keep(text, indices) = [k \in 1..n |-> text[k]]
  BY <1>2, <1>3, <1>4
<1> HIDE DEF all
<1>6. text = [k \in 1..n |-> text[k]]
  OBVIOUS
<1> QED BY <1>5, <1>6

\* One line is taken out.
LEMMA RemoveIs ==
    ASSUME NEW L, NEW text \in Seq(L), NEW i \in 1..Len(text)
    PROVE  LET new == RemoveAt(text, i) IN
           /\ new \in Seq(L) /\ Len(text) \in Nat /\ Len(new) = Len(text) - 1
           /\ \A k \in 1..Len(new) : new[k] = IF k < i THEN text[k] ELSE text[k + 1]
<1> DEFINE n == Len(text)
           x == SubSeq(text, 1, i - 1)
           y == SubSeq(text, i + 1, n)
           new == x \o y
<1>1. n \in Nat /\ i \in Nat /\ 1 <= i /\ i <= n
  OBVIOUS
<1>2. /\ x \in Seq(L) /\ Len(x) = i - 1 /\ \A k \in 1..(i - 1) : x[k] = text[k]
      /\ y \in Seq(L) /\ Len(y) = n - i /\ \A k \in 1..(n - i) : y[k] = text[k + i]
  BY <1>1
<1>3. RemoveAt(text, i) = new
  BY DEF RemoveAt
<1> HIDE DEF x, y, n
<1>4. /\ new \in Seq(L) /\ Len(new) = Len(x) + Len(y)
      /\ \A k \in 1..Len(x) : new[k] = x[k]
      /\ \A k \in (Len(x) + 1)..(Len(x) + Len(y)) : new[k] = y[k - Len(x)]
  <2>1. x \in Seq(L) /\ y \in Seq(L)
    BY <1>2
  <2> QED BY <2>1, JoinIs
<1> HIDE DEF new
<1>5. Len(new) = n - 1
  BY <1>1, <1>2, <1>4
<1>6. ASSUME NEW k \in 1..(n - 1) PROVE new[k] = IF k < i THEN text[k] ELSE text[k + 1]
  <2>1. CASE k < i
    BY <1>1, <1>2, <1>4, <2>1
  <2>2. CASE ~(k < i)
    <3>1. k \in (Len(x) + 1)..(Len(x) + Len(y)) /\ k - Len(x) = k - (i - 1) /\ k - (i - 1) \in 1..(n - i)
      BY <1>1, <1>2, <2>2
    <3>2. (k - (i - 1)) + i = k + 1
      BY <1>1
    <3> QED BY <1>2, <1>4, <2>2, <3>1, <3>2
  <2> QED BY <2>1, <2>2
<1> QED BY <1>1, <1>3, <1>4, <1>5, <1>6 DEF n

\* The default model is there, and read as such: no header is before it.
HasDefault(text) == \E i \in 1..Len(text) : text[i][1] = "model" /\ \A j \in 1..i : ~IsHeader(text[j])

\* A text that has it is left as it is.
LEMMA DefaultStays ==
    ASSUME NEW L, NEW text \in Seq(L), HasDefault(text)
    PROVE  EnsureDefaultModel(text) = text
<1> DEFINE root == NextHeader(text, 0)
           hits == {j \in (0 + 1)..Len(text) : IsHeader(text[j])}
<1>1. PICK i \in 1..Len(text) : text[i][1] = "model" /\ \A j \in 1..i : ~IsHeader(text[j])
  BY DEF HasDefault
<1>2. Len(text) \in Nat /\ i \in Nat /\ i <= Len(text) /\ 1 <= i
  OBVIOUS
<1>3. root = IF hits = {} THEN Len(text) + 1 ELSE Min(hits)
  BY DEF NextHeader
<1>4. hits # {} => Min(hits) \in hits
  <2>1. hits \in SUBSET Nat
    BY <1>2
  <2> HIDE DEF hits
  <2> QED BY <2>1, MinIs
<1>5. i \in 1..(root - 1)
  <2>1. CASE hits = {}
    BY <1>2, <1>3, <2>1
  <2>2. CASE hits # {}
    <3>1. root \in 1..Len(text) /\ IsHeader(text[root])
      BY <1>3, <1>4, <2>2
    <3>2. ~(root <= i)
      BY <1>1, <1>2, <3>1
    <3> QED BY <1>2, <3>1, <3>2
  <2> QED BY <2>1, <2>2
<1> QED BY <1>1, <1>5 DEF EnsureDefaultModel

\* Afterwards every text has it.
LEMMA DefaultIsThere ==
    ASSUME NEW L, NEW text \in Seq(L), Line("model", DefaultModel) \in L
    PROVE  HasDefault(EnsureDefaultModel(text))
<1> DEFINE root == NextHeader(text, 0)
           line == Line("model", DefaultModel)
           x == SubSeq(text, 1, root - 1)
           y == SubSeq(text, root, Len(text))
<1>1. Len(text) \in Nat /\ root \in 1..(Len(text) + 1) /\ \A j \in 1..(root - 1) : ~IsHeader(text[j])
  <2>1. 0 \in 0..Len(text) /\ 0 + 1 = 1
    OBVIOUS
  <2>2. NextHeader(text, 0) \in (0 + 1)..(Len(text) + 1) /\ \A j \in (0 + 1)..(NextHeader(text, 0) - 1) : ~IsHeader(text[j])
    BY <2>1, NextHeaderIs
  <2> QED BY <2>2
<1> HIDE DEF root
<1>2. CASE \E i \in 1..(root - 1) : text[i][1] = "model"
  <2>1. PICK i \in 1..(root - 1) : text[i][1] = "model"
    BY <1>2
  <2>2. i \in 1..Len(text) /\ \A j \in 1..i : ~IsHeader(text[j])
    BY <1>1
  <2>3. EnsureDefaultModel(text) = text
    BY <1>2 DEF EnsureDefaultModel, root
  <2> QED BY <2>1, <2>2, <2>3 DEF HasDefault
<1>3. CASE ~\E i \in 1..(root - 1) : text[i][1] = "model"
  <2> DEFINE new == (x \o <<line>>) \o y
  <2>1. EnsureDefaultModel(text) = new
    BY <1>3 DEF EnsureDefaultModel, InsertAt, root
  <2>2. x \in Seq(L) /\ y \in Seq(L) /\ Len(x) = root - 1 /\ \A j \in 1..(root - 1) : x[j] = text[j]
    BY <1>1
  <2>3. <<line>> \in Seq(L) /\ Len(<<line>>) = 1 /\ <<line>>[1] = line
    OBVIOUS
  <2> DEFINE s == <<line>>
  <2> HIDE DEF x, y, line, s
  <2>4. /\ x \o s \in Seq(L) /\ Len(x \o s) = Len(x) + Len(s)
        /\ \A k \in 1..Len(x) : (x \o s)[k] = x[k]
        /\ \A k \in (Len(x) + 1)..(Len(x) + Len(s)) : (x \o s)[k] = s[k - Len(x)]
    <3>1. x \in Seq(L) /\ s \in Seq(L)
      BY <2>2, <2>3 DEF s
    <3> QED BY <3>1, JoinIs
  <2> DEFINE w == x \o s
  <2>5. w \in Seq(L) /\ Len(w) = root /\ w[root] = line /\ \A k \in 1..(root - 1) : w[k] = text[k]
    <3>1. Len(s) = 1 /\ s[1] = line
      BY <2>3 DEF s
    <3>2. root \in (Len(x) + 1)..(Len(x) + Len(s)) /\ root - Len(x) = 1
      BY <1>1, <2>2, <3>1
    <3> QED BY <1>1, <2>2, <2>4, <3>1, <3>2
  <2> HIDE DEF w
  <2>6. /\ w \o y \in Seq(L) /\ Len(w \o y) = Len(w) + Len(y) /\ Len(y) \in Nat
        /\ \A k \in 1..Len(w) : (w \o y)[k] = w[k]
    BY <2>2, <2>5, JoinIs
  <2>7. new = w \o y
    BY DEF w, s
  <2> HIDE DEF new
  <2>8. root \in 1..Len(new) /\ new[root] = line /\ \A j \in 1..(root - 1) : new[j] = text[j]
    BY <1>1, <2>5, <2>6, <2>7
  <2>9. line[1] = "model" /\ ~IsHeader(line)
    BY DEF line, Line, IsHeader
  <2>10. \A j \in 1..root : ~IsHeader(new[j])
    <3> SUFFICES ASSUME NEW j \in 1..root PROVE ~IsHeader(new[j])
      OBVIOUS
    <3>1. j = root \/ j \in 1..(root - 1)
      BY <1>1
    <3>2. CASE j = root
      BY <2>8, <2>9, <3>2
    <3>3. CASE j \in 1..(root - 1)
      <4>1. new[j] = text[j] /\ ~IsHeader(text[j])
        BY <1>1, <2>8, <3>3
      <4> QED BY <4>1
    <3> QED BY <3>1, <3>2, <3>3
  <2> QED BY <2>1, <2>8, <2>9, <2>10 DEF HasDefault
<1> QED BY <1>2, <1>3

\* What comes after it does not matter.
LEMMA DefaultLonger ==
    ASSUME NEW L, NEW text \in Seq(L), NEW more \in Seq(L), HasDefault(text)
    PROVE  HasDefault(text \o more)
<1>1. PICK i \in 1..Len(text) : text[i][1] = "model" /\ \A j \in 1..i : ~IsHeader(text[j])
  BY DEF HasDefault
<1>2. /\ Len(text) \in Nat /\ Len(more) \in Nat /\ Len(text \o more) = Len(text) + Len(more)
      /\ \A k \in 1..Len(text) : (text \o more)[k] = text[k]
  BY JoinIs
<1>3. i \in 1..Len(text \o more) /\ \A j \in 1..i : j \in 1..Len(text)
  BY <1>2
<1>4. (text \o more)[i][1] = "model" /\ \A j \in 1..i : ~IsHeader((text \o more)[j])
  BY <1>1, <1>2, <1>3
<1> QED BY <1>3, <1>4 DEF HasDefault

\* A text without a line that is neither it nor a header.
LEMMA DefaultWithout ==
    ASSUME NEW L, NEW text \in Seq(L), NEW e \in 1..Len(text), text[e][1] # "model", HasDefault(text)
    PROVE  HasDefault(RemoveAt(text, e))
<1> DEFINE new == RemoveAt(text, e)
<1>1. PICK i \in 1..Len(text) : text[i][1] = "model" /\ \A j \in 1..i : ~IsHeader(text[j])
  BY DEF HasDefault
<1>2. /\ Len(text) \in Nat /\ Len(new) = Len(text) - 1
      /\ \A k \in 1..Len(new) : new[k] = IF k < e THEN text[k] ELSE text[k + 1]
  BY RemoveIs
<1> HIDE DEF new
<1>3. i # e
  BY <1>1
<1> DEFINE k == IF i < e THEN i ELSE i - 1
<1>4. k \in 1..Len(new) /\ new[k] = text[i] /\ k <= i
  BY <1>2, <1>3
<1>5. \A j \in 1..k : ~IsHeader(new[j])
  <2> SUFFICES ASSUME NEW j \in 1..k PROVE ~IsHeader(new[j])
    OBVIOUS
  <2>1. j \in 1..Len(new) /\ j \in Nat
    BY <1>2, <1>4
  <2>2. CASE j < e
    <3>1. new[j] = text[j] /\ j \in 1..i
      BY <1>2, <1>4, <2>1, <2>2
    <3> QED BY <1>1, <3>1
  <2>3. CASE ~(j < e)
    <3>1. new[j] = text[j + 1] /\ j + 1 \in 1..i
      <4>1. ~(i < e) /\ k = i - 1 /\ e \in Nat
        BY <1>2, <2>1, <2>3
      <4> HIDE DEF k
      <4> QED BY <1>2, <2>1, <2>3, <4>1
    <3> QED BY <1>1, <3>1
  <2> QED BY <2>2, <2>3
<1> QED BY <1>1, <1>4, <1>5 DEF HasDefault, new

LEMMA SameSeq ==
    ASSUME NEW L, NEW x \in Seq(L), NEW y \in Seq(L), Len(x) = Len(y), \A k \in 1..Len(x) : x[k] = y[k]
    PROVE  x = y
<1>1. x = [k \in 1..Len(x) |-> x[k]] /\ y = [k \in 1..Len(y) |-> y[k]]
  OBVIOUS
<1> QED BY <1>1

\* What is where when t is three texts, one after the other.
Joined(t, x, y, z) ==
    /\ Len(t) = Len(x) + Len(y) + Len(z)
    /\ \A k \in 1..Len(x) : t[k] = x[k]
    /\ \A k \in 1..Len(y) : t[Len(x) + k] = y[k]
    /\ \A k \in 1..Len(z) : t[Len(x) + Len(y) + k] = z[k]
    /\ SubSeq(t, 1, Len(x)) = x
    /\ SubSeq(t, Len(x) + 1, Len(x) + Len(y)) = y
    /\ SubSeq(t, Len(x) + Len(y) + 1, Len(t)) = z

LEMMA JoinThree ==
    ASSUME NEW L, NEW x \in Seq(L), NEW y \in Seq(L), NEW z \in Seq(L)
    PROVE  (x \o y) \o z \in Seq(L) /\ Joined((x \o y) \o z, x, y, z)
<1> DEFINE w == x \o y
           t == w \o z
           a == Len(x)
           b == Len(y)
           c == Len(z)
<1>1. /\ w \in Seq(L) /\ a \in Nat /\ b \in Nat /\ Len(w) = a + b
      /\ \A k \in 1..a : w[k] = x[k]
      /\ \A k \in (a + 1)..(a + b) : w[k] = y[k - a]
  BY JoinIs
<1> HIDE DEF w
<1>2. /\ t \in Seq(L) /\ c \in Nat /\ Len(t) = Len(w) + c
      /\ \A k \in 1..Len(w) : t[k] = w[k]
      /\ \A k \in (Len(w) + 1)..(Len(w) + c) : t[k] = z[k - Len(w)]
  <2>1. /\ w \o z \in Seq(L) /\ Len(z) \in Nat /\ Len(w \o z) = Len(w) + Len(z)
        /\ \A k \in 1..Len(w) : (w \o z)[k] = w[k]
        /\ \A k \in (Len(w) + 1)..(Len(w) + Len(z)) : (w \o z)[k] = z[k - Len(w)]
    <3>1. w \in Seq(L) /\ z \in Seq(L)
      BY <1>1
    <3> QED BY <3>1, JoinIs
  <2> QED BY <2>1
<1> HIDE DEF t, a, b, c
<1>3. Len(t) = a + b + c
  BY <1>1, <1>2
<1>4. \A k \in 1..a : t[k] = x[k]
  BY <1>1, <1>2
<1>5. \A k \in 1..b : t[a + k] = y[k]
  <2> SUFFICES ASSUME NEW k \in 1..b PROVE t[a + k] = y[k]
    OBVIOUS
  <2>1. a + k \in (a + 1)..(a + b) /\ (a + k) - a = k /\ a + k \in 1..(a + b)
    BY <1>1
  <2> QED BY <1>1, <1>2, <2>1
<1>6. \A k \in 1..c : t[a + b + k] = z[k]
  <2> SUFFICES ASSUME NEW k \in 1..c PROVE t[a + b + k] = z[k]
    OBVIOUS
  <2>1. a + b + k \in (Len(w) + 1)..(Len(w) + c) /\ (a + b + k) - Len(w) = k
    BY <1>1, <1>2
  <2> QED BY <1>2, <2>1
<1>7. SubSeq(t, 1, a) = x
  <2>1. SubSeq(t, 1, a) \in Seq(L) /\ Len(SubSeq(t, 1, a)) = a /\ \A k \in 1..a : SubSeq(t, 1, a)[k] = t[k]
    BY <1>1, <1>2, <1>3
  <2> QED BY <1>4, <2>1, SameSeq DEF a
<1>8. SubSeq(t, a + 1, a + b) = y
  <2>1. /\ SubSeq(t, a + 1, a + b) \in Seq(L) /\ Len(SubSeq(t, a + 1, a + b)) = b
        /\ \A k \in 1..b : SubSeq(t, a + 1, a + b)[k] = t[a + k]
    BY <1>1, <1>2, <1>3
  <2> QED BY <1>5, <2>1, SameSeq DEF b
<1>9. SubSeq(t, a + b + 1, Len(t)) = z
  <2> DEFINE n == a + b
  <2>1. n \in Nat /\ Len(t) = n + c
    BY <1>1, <1>3
  <2> HIDE DEF n
  <2>2. t \in Seq(L) /\ c \in Nat
    BY <1>2
  <2>3. /\ SubSeq(t, n + 1, n + c) \in Seq(L) /\ Len(SubSeq(t, n + 1, n + c)) = c
        /\ \A k \in 1..c : SubSeq(t, n + 1, n + c)[k] = t[n + k]
    BY <2>1, <2>2
  <2>4. \A k \in 1..c : t[n + k] = z[k]
    BY <1>6 DEF n
  <2>5. SubSeq(t, n + 1, n + c) = z
    BY <2>3, <2>4, SameSeq DEF c
  <2> QED BY <2>1, <2>5 DEF n
<1>10. Joined(t, x, y, z)
  BY <1>3, <1>4, <1>5, <1>6, <1>7, <1>8, <1>9 DEF Joined, a, b, c
<1> QED BY <1>2, <1>10 DEF t, w

LEMMA FindFirst ==
    ASSUME NEW L, NEW text \in Seq(L), NEW lines, NEW i \in 1..Len(text), text[i] \in lines,
           \A j \in 1..(i - 1) : text[j] \notin lines
    PROVE  Find(text, lines, 1) = i
<1> DEFINE found == Find(text, lines, 1)
<1>1. /\ found = 0 => \A j \in 1..Len(text) : text[j] \notin lines
      /\ found # 0 => found \in 1..Len(text) /\ text[found] \in lines
      /\ \A j \in 1..(found - 1) : text[j] \notin lines
  <2>1. 1 \in Nat \ {0}
    OBVIOUS
  <2> QED BY <2>1, FindIs, FindLeast
<1> HIDE DEF found
<1>2. found # 0 /\ found \in 1..Len(text) /\ Len(text) \in Nat
  BY <1>1
<1>3. ~(found < i) /\ ~(i < found)
  BY <1>1, <1>2
<1> QED BY <1>2, <1>3 DEF found

LEMMA NextHeaderFirst ==
    ASSUME NEW L, NEW text \in Seq(L), NEW i \in 0..Len(text), NEW n \in (i + 1)..(Len(text) + 1),
           \A j \in (i + 1)..(n - 1) : ~IsHeader(text[j]), n # Len(text) + 1 => IsHeader(text[n])
    PROVE  NextHeader(text, i) = n
<1> DEFINE hits == {j \in (i + 1)..Len(text) : IsHeader(text[j])}
<1>1. Len(text) \in Nat /\ i \in Nat /\ n \in Nat /\ hits \in SUBSET Nat
  OBVIOUS
<1>2. NextHeader(text, i) = IF hits = {} THEN Len(text) + 1 ELSE Min(hits)
  BY DEF NextHeader
<1>3. hits # {} => Min(hits) \in hits /\ \A k \in hits : Min(hits) <= k
  <2> HIDE DEF hits
  <2> QED BY <1>1, MinIs
<1>4. \A j \in hits : n <= j
  <2> SUFFICES ASSUME NEW j \in hits, ~(n <= j) PROVE FALSE
    OBVIOUS
  <2>1. j \in (i + 1)..(n - 1) /\ IsHeader(text[j])
    BY <1>1
  <2> QED BY <2>1
<1>5. CASE n = Len(text) + 1
  <2>1. hits = {}
    <3> SUFFICES ASSUME NEW j \in hits PROVE FALSE
      OBVIOUS
    <3> QED BY <1>1, <1>4, <1>5
  <2> QED BY <1>2, <1>5, <2>1
<1>6. CASE n # Len(text) + 1
  <2>1. n \in hits
    BY <1>1, <1>6
  <2>2. Min(hits) = n
    <3>1. Min(hits) \in Nat /\ Min(hits) <= n /\ n <= Min(hits)
      <4> HIDE DEF hits
      <4> QED BY <1>1, <1>3, <1>4, <2>1
    <3> HIDE DEF hits
    <3> QED BY <1>1, <3>1
  <2> QED BY <1>2, <2>1, <2>2
<1> QED BY <1>5, <1>6

\* The next header is one, or the end.
LEMMA NextHeaderIsOne ==
    ASSUME NEW L, NEW text \in Seq(L), NEW i \in 0..Len(text), NextHeader(text, i) # Len(text) + 1
    PROVE  IsHeader(text[NextHeader(text, i)])
<1> DEFINE hits == {j \in (i + 1)..Len(text) : IsHeader(text[j])}
<1>1. hits \in SUBSET Nat
  OBVIOUS
<1>2. NextHeader(text, i) = IF hits = {} THEN Len(text) + 1 ELSE Min(hits)
  BY DEF NextHeader
<1>3. Min(hits) \in hits
  <2>1. hits # {}
    BY <1>2
  <2> HIDE DEF hits
  <2> QED BY <1>1, <2>1, MinIs
<1> QED BY <1>2, <1>3

LEMMA KeepOnly ==
    ASSUME NEW L, NEW text \in Seq(L), NEW indices, NEW k \in 1..Len(Keep(text, indices))
    PROVE  \E i \in indices \cap 1..Len(text) : Keep(text, indices)[k] = text[i]
<1> DEFINE kept == indices \cap DOMAIN text
           n == Cardinality(kept)
<1>1. Len(text) \in Nat /\ kept \in SUBSET (1..Len(text)) /\ kept = indices \cap 1..Len(text)
  OBVIOUS
<1>2. Keep(text, indices) = [l \in 1..n |-> text[Nth(kept, l)]]
  BY DEF Keep
<1> HIDE DEF kept
<1>3. n \in Nat
  BY <1>1, PlaceAppend
<1>4. Len(Keep(text, indices)) = n
  BY <1>2, <1>3
<1>5. Nth(kept, k) \in kept /\ Keep(text, indices)[k] = text[Nth(kept, k)]
  BY <1>1, <1>2, <1>4, NthIs
<1> QED BY <1>1, <1>5

LEMMA InsertIs ==
    ASSUME NEW L, NEW text \in Seq(L), NEW line \in L, NEW i \in 1..(Len(text) + 1)
    PROVE  LET new == InsertAt(text, i, line) IN
           /\ i \in 1..Len(new) /\ new[i] = line
           /\ \A k \in 1..Len(new) : new[k] = line \/ \E j \in 1..Len(text) : new[k] = text[j]
<1> DEFINE new == InsertAt(text, i, line)
<1>1. PICK o : Traces(o, new, text, {line}) /\ Kept(o, 1..Len(text))
  <2>1. line \in {line}
    OBVIOUS
  <2> QED BY <2>1, InsertTraces
<1>2. Len(text) \in Nat
  OBVIOUS
<1>3. \A k \in 1..Len(new) : new[k] = line \/ \E j \in 1..Len(text) : new[k] = text[j]
  <2> HIDE DEF new
  <2>1. /\ o \in [1..Len(new) -> 0..Len(text)]
        /\ \A k \in 1..Len(new) : IF o[k] = 0 THEN new[k] \in {line} ELSE new[k] = text[o[k]]
    BY <1>1 DEF Traces
  <2> QED BY <1>2, <2>1
<1> DEFINE x == SubSeq(text, 1, i - 1)
           y == <<line>>
           z == SubSeq(text, i, Len(text))
<1>4. x \in Seq(L) /\ y \in Seq(L) /\ z \in Seq(L) /\ Len(x) = i - 1 /\ Len(y) = 1 /\ y[1] = line /\ Len(z) \in Nat
  OBVIOUS
<1>5. new = (x \o y) \o z
  BY DEF InsertAt
<1> HIDE DEF x, y, z, new
<1>6. /\ Len(new) = Len(x) + Len(y) + Len(z)
      /\ \A k \in 1..Len(y) : new[Len(x) + k] = y[k]
  <2>1. Joined((x \o y) \o z, x, y, z)
    BY <1>4, JoinThree
  <2>2. Joined(new, x, y, z)
    BY <1>5, <2>1
  <2> QED BY <2>2 DEF Joined
<1>7. Len(new) = i + Len(z) /\ new[i] = line
  <2>1. i \in Nat /\ 1 \in 1..Len(y) /\ (i - 1) + 1 = i
    BY <1>4
  <2> QED BY <1>4, <1>6, <2>1
<1>8. i \in 1..Len(new)
  BY <1>4, <1>7
<1> QED BY <1>3, <1>7, <1>8 DEF new

\* Where the table with the bearer token has its header and its last line.
TokenHeader(text) == Find(text, {Line("table", Claude)}, 1)
TokenLast(text) == NextHeader(text, TokenHeader(text)) - 1

\* What takes the place of its lines.
Mended(b) ==
    /\ \A k \in 1..Len(b) : ~IsHeader(b[k]) /\ b[k][1] # "env_key"
    /\ \E k \in 1..Len(b) : b[k][1] = "bearer"

\* The lines of the table, with the token.
WithToken(table) ==
    LET body == Keep(table, {i \in DOMAIN table : table[i][1] # "env_key"})
        wire == Find(body, {Line("wire_api", Claude)}, 1)
        place == IF wire = 0 THEN Len(body) + 1 ELSE wire
    IN IF \E i \in 1..Len(body) : body[i][1] = "bearer" THEN body
       ELSE InsertAt(body, place, Line("bearer", Claude))

LEMMA EnsureBearerIs ==
    ASSUME NEW text
    PROVE  EnsureBearer(text) =
              IF TokenHeader(text) = 0 THEN text
              ELSE (SubSeq(text, 1, TokenHeader(text))
                        \o WithToken(SubSeq(text, TokenHeader(text) + 1, TokenLast(text))))
                    \o SubSeq(text, TokenLast(text) + 1, Len(text))
BY DEF EnsureBearer, TokenHeader, TokenLast, WithToken

LEMMA TokenTableIs ==
    ASSUME NEW L, NEW text \in Seq(L), TokenHeader(text) # 0
    PROVE  /\ TokenHeader(text) \in 1..Len(text) /\ text[TokenHeader(text)] = Line("table", Claude)
           /\ \A j \in 1..(TokenHeader(text) - 1) : text[j] # Line("table", Claude)
           /\ TokenLast(text) \in TokenHeader(text)..Len(text)
           /\ \A j \in (TokenHeader(text) + 1)..TokenLast(text) : ~IsHeader(text[j])
           /\ TokenLast(text) # Len(text) => IsHeader(text[TokenLast(text) + 1])
<1> DEFINE h == TokenHeader(text)
           n == NextHeader(text, h)
<1>1. /\ h \in 1..Len(text) /\ text[h] \in {Line("table", Claude)} /\ Len(text) \in Nat
      /\ \A j \in 1..(h - 1) : text[j] \notin {Line("table", Claude)}
  <2>1. 1 \in Nat \ {0}
    OBVIOUS
  <2> QED BY <2>1, FindIs, FindLeast DEF TokenHeader
<1> HIDE DEF h
<1>2. h \in 0..Len(text)
  BY <1>1
<1>3. n \in (h + 1)..(Len(text) + 1) /\ \A j \in (h + 1)..(n - 1) : ~IsHeader(text[j])
  BY <1>2, NextHeaderIs
<1>4. n # Len(text) + 1 => IsHeader(text[n])
  BY <1>2, NextHeaderIsOne
<1> HIDE DEF n
<1>5. n - 1 \in h..Len(text) /\ (n - 1) + 1 = n
  BY <1>1, <1>3
<1> QED BY <1>1, <1>3, <1>4, <1>5 DEF TokenLast, h, n

LEMMA BearerIs ==
    ASSUME NEW L, NEW text \in Seq(L), Line("bearer", Claude) \in L, TokenHeader(text) # 0
    PROVE  \E b \in Seq(L) : /\ Mended(b)
                             /\ EnsureBearer(text) = (SubSeq(text, 1, TokenHeader(text)) \o b)
                                                         \o SubSeq(text, TokenLast(text) + 1, Len(text))
<1> DEFINE header == TokenHeader(text)
           last == TokenLast(text)
           table == SubSeq(text, header + 1, last)
           plain == {i \in DOMAIN table : table[i][1] # "env_key"}
           body == Keep(table, plain)
           wire == Find(body, {Line("wire_api", Claude)}, 1)
           place == IF wire = 0 THEN Len(body) + 1 ELSE wire
           line == Line("bearer", Claude)
           b == IF \E i \in 1..Len(body) : body[i][1] = "bearer" THEN body ELSE InsertAt(body, place, line)
<1>1. EnsureBearer(text) = (SubSeq(text, 1, header) \o b) \o SubSeq(text, last + 1, Len(text))
  <2>1. WithToken(table) = b
    BY DEF WithToken
  <2> HIDE DEF b
  <2> QED BY <2>1, EnsureBearerIs
<1>2. /\ header \in 1..Len(text) /\ last \in header..Len(text) /\ Len(text) \in Nat
      /\ \A j \in (header + 1)..last : ~IsHeader(text[j])
  BY TokenTableIs
<1> HIDE DEF header, last
<1>3. table \in Seq(L) /\ Len(table) = last - header /\ \A k \in 1..(last - header) : table[k] = text[header + k]
  BY <1>2
<1>4. \A k \in 1..Len(table) : ~IsHeader(table[k])
  <2> SUFFICES ASSUME NEW k \in 1..Len(table) PROVE ~IsHeader(table[k])
    OBVIOUS
  <2>1. header + k \in (header + 1)..last /\ k \in 1..(last - header)
    BY <1>2, <1>3
  <2>2. table[k] = text[header + k]
    BY <1>3, <2>1
  <2> HIDE DEF table
  <2> QED BY <1>2, <2>1, <2>2
<1> HIDE DEF table
<1>5. body \in Seq(L) /\ \A k \in 1..Len(body) : ~IsHeader(body[k]) /\ body[k][1] # "env_key"
  <2>1. body \in Seq(L)
    <3> HIDE DEF plain
    <3> QED BY <1>3, KeepInSeq
  <2>2. ASSUME NEW k \in 1..Len(body) PROVE ~IsHeader(body[k]) /\ body[k][1] # "env_key"
    <3>1. PICK i \in plain \cap 1..Len(table) : body[k] = table[i]
      <4> HIDE DEF plain
      <4> QED BY <1>3, KeepOnly
    <3>2. i \in 1..Len(table) /\ table[i][1] # "env_key"
      OBVIOUS
    <3> HIDE DEF body
    <3> QED BY <1>4, <3>1, <3>2
  <2> QED BY <2>1, <2>2
<1> HIDE DEF body, line
<1>6. b \in Seq(L) /\ Mended(b)
  <2>1. CASE \E i \in 1..Len(body) : body[i][1] = "bearer"
    BY <1>5, <2>1 DEF Mended
  <2>2. CASE ~\E i \in 1..Len(body) : body[i][1] = "bearer"
    <3> DEFINE new == InsertAt(body, place, line)
    <3>1. place \in 1..(Len(body) + 1)
      <4>1. wire \in Nat /\ (wire # 0 => wire \in 1..Len(body)) /\ Len(body) \in Nat
        <5>1. 1 \in Nat \ {0}
          OBVIOUS
        <5> QED BY <1>5, <5>1, FindIs
      <4> HIDE DEF wire
      <4> QED BY <4>1
    <3> HIDE DEF place
    <3>2. new \in Seq(L)
      BY <1>5, <3>1, InsertInSeq DEF line
    <3>3. /\ place \in 1..Len(new) /\ new[place] = line
          /\ \A k \in 1..Len(new) : new[k] = line \/ \E j \in 1..Len(body) : new[k] = body[j]
      BY <1>5, <3>1, InsertIs DEF line
    <3>4. line[1] = "bearer" /\ ~IsHeader(line)
      BY DEF line, Line, IsHeader
    <3>5. b = new
      BY <2>2
    <3> HIDE DEF new, b
    <3>6. \A k \in 1..Len(new) : ~IsHeader(new[k]) /\ new[k][1] # "env_key"
      <4> SUFFICES ASSUME NEW k \in 1..Len(new) PROVE ~IsHeader(new[k]) /\ new[k][1] # "env_key"
        OBVIOUS
      <4>1. CASE new[k] = line
        BY <3>4, <4>1
      <4>2. CASE \E j \in 1..Len(body) : new[k] = body[j]
        <5>1. PICK j \in 1..Len(body) : new[k] = body[j]
          BY <4>2
        <5>2. ~IsHeader(body[j]) /\ body[j][1] # "env_key"
          BY <1>5
        <5> QED BY <5>1, <5>2
      <4> QED BY <3>3, <4>1, <4>2
    <3>7. \E k \in 1..Len(new) : new[k][1] = "bearer"
      BY <3>3, <3>4
    <3> QED BY <3>2, <3>5, <3>6, <3>7 DEF Mended
  <2> QED BY <2>1, <2>2
<1> HIDE DEF b
<1> QED BY <1>1, <1>6 DEF header, last

\* A table that was mended needs no mending, and what is before it is as it was.
LEMMA EnsureBearerAgain ==
    ASSUME NEW L, NEW text \in Seq(L), Line("bearer", Claude) \in L
    PROVE  /\ EnsureBearer(EnsureBearer(text)) = EnsureBearer(text)
           /\ HasDefault(text) => HasDefault(EnsureBearer(text))
<1> DEFINE h == TokenHeader(text)
           l == TokenLast(text)
           x == SubSeq(text, 1, h)
           z == SubSeq(text, l + 1, Len(text))
           new == EnsureBearer(text)
<1>1. CASE h = 0
  BY <1>1 DEF EnsureBearer, TokenHeader
<1>2. CASE h # 0
  <2>1. /\ h \in 1..Len(text) /\ text[h] = Line("table", Claude) /\ Len(text) \in Nat
        /\ \A j \in 1..(h - 1) : text[j] # Line("table", Claude)
        /\ l \in h..Len(text) /\ (l # Len(text) => IsHeader(text[l + 1]))
    BY <1>2, TokenTableIs
  <2>2. PICK b \in Seq(L) : Mended(b) /\ new = (x \o b) \o z
    BY <1>2, BearerIs
  <2> HIDE DEF h, l, new
  <2> DEFINE m == Len(b)
  <2>3. /\ x \in Seq(L) /\ Len(x) = h /\ \A k \in 1..h : x[k] = text[k]
        /\ z \in Seq(L) /\ Len(z) = Len(text) - l /\ \A k \in 1..Len(z) : z[k] = text[l + k]
        /\ m \in Nat
    BY <2>1
  <2> HIDE DEF x, z
  <2>4. new \in Seq(L) /\ Joined(new, x, b, z)
    <3>1. (x \o b) \o z \in Seq(L) /\ Joined((x \o b) \o z, x, b, z)
      BY <2>3, JoinThree
    <3> QED BY <2>2, <3>1
  <2>5. /\ Len(new) = h + m + Len(z) /\ Len(z) \in Nat /\ h \in Nat
        /\ \A k \in 1..h : new[k] = text[k]
        /\ \A k \in 1..m : new[h + k] = b[k]
        /\ \A k \in 1..Len(z) : new[h + m + k] = z[k]
        /\ SubSeq(new, 1, h) = x /\ SubSeq(new, h + 1, h + m) = b /\ SubSeq(new, h + m + 1, Len(new)) = z
    <3>1. /\ Len(new) = Len(x) + m + Len(z)
          /\ \A k \in 1..Len(x) : new[k] = x[k]
          /\ \A k \in 1..m : new[Len(x) + k] = b[k]
          /\ \A k \in 1..Len(z) : new[Len(x) + m + k] = z[k]
          /\ SubSeq(new, 1, Len(x)) = x /\ SubSeq(new, Len(x) + 1, Len(x) + m) = b
          /\ SubSeq(new, Len(x) + m + 1, Len(new)) = z
      BY <2>4 DEF Joined
    <3>2. Len(z) \in Nat /\ h \in Nat
      BY <2>1, <2>3
    <3> HIDE DEF m
    <3> QED BY <2>3, <3>1, <3>2
  <2>6. TokenHeader(new) = h
    <3>1. h \in 1..Len(new) /\ new[h] \in {Line("table", Claude)}
      BY <2>1, <2>3, <2>5
    <3>2. \A j \in 1..(h - 1) : new[j] \notin {Line("table", Claude)}
      <4> SUFFICES ASSUME NEW j \in 1..(h - 1) PROVE new[j] \notin {Line("table", Claude)}
        OBVIOUS
      <4>1. j \in 1..h
        BY <2>5
      <4>2. new[j] = text[j]
        BY <2>5, <4>1
      <4> QED BY <2>1, <4>2
    <3> QED BY <2>4, <3>1, <3>2, FindFirst DEF TokenHeader
  <2>7. NextHeader(new, h) = h + m + 1
    <3>1. h \in 0..Len(new) /\ h + m + 1 \in (h + 1)..(Len(new) + 1)
      BY <2>3, <2>5, SMTT(40)
    <3>2. ASSUME NEW j \in (h + 1)..((h + m + 1) - 1) PROVE ~IsHeader(new[j])
      <4>1. j - h \in 1..m /\ h + (j - h) = j
        BY <2>3, <2>5
      <4>2. new[j] = b[j - h]
        BY <2>5, <4>1
      <4> QED BY <2>2, <4>1, <4>2 DEF Mended
    <3>3. ASSUME h + m + 1 # Len(new) + 1 PROVE IsHeader(new[h + m + 1])
      <4>1. Len(z) # 0 /\ 1 \in 1..Len(z) /\ l # Len(text)
        BY <2>1, <2>3, <2>5, <3>3, SMTT(40)
      <4>2. new[h + m + 1] = text[l + 1]
        BY <2>3, <2>5, <4>1
      <4> QED BY <2>1, <4>1, <4>2
    <3> DEFINE n == h + m + 1
    <3>4. n \in (h + 1)..(Len(new) + 1) /\ (\A j \in (h + 1)..(n - 1) : ~IsHeader(new[j])) /\ (n # Len(new) + 1 => IsHeader(new[n]))
      BY <3>1, <3>2, <3>3
    <3> HIDE DEF n, m
    <3>5. NextHeader(new, h) = n
      BY <2>4, <3>1, <3>4, NextHeaderFirst
    <3> QED BY <3>5 DEF n
  <2>8. TokenLast(new) = h + m
    BY <2>3, <2>5, <2>6, <2>7 DEF TokenLast
  <2>9. EnsureBearer(new) = new
    <3> DEFINE plain == {i \in DOMAIN b : b[i][1] # "env_key"}
    <3>1. Keep(b, plain) = b
      <4>1. 1..Len(b) \subseteq plain
        BY <2>2 DEF Mended
      <4> HIDE DEF plain
      <4> QED BY <4>1, KeepAll
    <3>2. \E i \in 1..Len(b) : b[i][1] = "bearer"
      BY <2>2 DEF Mended
    <3>3. WithToken(b) = b
      BY <3>1, <3>2 DEF WithToken
    <3> HIDE DEF m
    <3>4. EnsureBearer(new) = (SubSeq(new, 1, h) \o WithToken(SubSeq(new, h + 1, h + m))) \o SubSeq(new, h + m + 1, Len(new))
      BY <1>2, <2>6, <2>8, EnsureBearerIs
    <3> QED BY <2>2, <2>5, <3>3, <3>4
  <2>10. ASSUME HasDefault(text) PROVE HasDefault(new)
    <3>1. PICK i \in 1..Len(text) : text[i][1] = "model" /\ \A j \in 1..i : ~IsHeader(text[j])
      BY <2>10 DEF HasDefault
    <3>2. IsHeader(text[h])
      BY <2>1 DEF IsHeader, Line
    <3>3. i < h
      BY <2>1, <3>1, <3>2
    <3>4. i \in 1..Len(new) /\ \A j \in 1..i : j \in 1..h
      BY <2>1, <2>3, <2>5, <3>3
    <3>5. new[i] = text[i] /\ \A j \in 1..i : new[j] = text[j]
      <4>1. i \in 1..i
        OBVIOUS
      <4> QED BY <2>5, <3>4, <4>1
    <3> QED BY <3>1, <3>4, <3>5 DEF HasDefault
  <2> QED BY <2>9, <2>10 DEF new
<1> QED BY <1>1, <1>2

\* What older versions wrote between sentinels is not in the text, and no overlay.
Tidy(text) == \A i \in 1..Len(text) : text[i][1] # "overlay" /\ (text[i][1] = "begin" => text[i][2] = "gateway")

\* The end that a lost block may have left.
ProfilesEnd == Line("end", "profiles")
NoEnd(text) == \A i \in 1..Len(text) : text[i] # ProfilesEnd
OneEnd(text) == \A i, j \in 1..Len(text) : text[i] = ProfilesEnd /\ text[j] = ProfilesEnd => i = j

\* All there is to take away is that end.
LEMMA StripClean ==
    ASSUME NEW L, NEW text \in Seq(L), Tidy(text)
    PROVE  /\ StripBlock(text, "catalog") = text /\ StripBlock(text, "nux") = text
           /\ StripBlock(text, "profiles") = StripLoneEnd(text, "profiles")
<1>1. ASSUME NEW b \in Blocks PROVE BlockStart(text, b) = 0
  <2> SUFFICES ASSUME BlockStart(text, b) # 0 PROVE FALSE
    OBVIOUS
  <2> DEFINE i == Find(text, {Line("begin", b)}, 1)
  <2>1. i \in 1..Len(text) /\ text[i] = Line("begin", b)
    <3>1. 1 \in Nat \ {0}
      OBVIOUS
    <3>2. Find(text, {Line("begin", b)}, 1) # 0 =>
            /\ Find(text, {Line("begin", b)}, 1) \in 1..Len(text)
            /\ text[Find(text, {Line("begin", b)}, 1)] \in {Line("begin", b)}
      BY <3>1, FindIs
    <3> QED BY <3>2 DEF BlockStart
  <2> HIDE DEF i
  <2> QED BY <2>1 DEF Tidy, Line, Blocks
<1>2. StripOverlays(text) = text
  <2> DEFINE left == {i \in 1..Len(text) : ~\E j \in 1..i : text[j][1] = "overlay" /\ NextHeader(text, j) > i}
  <2>1. 1..Len(text) \subseteq left
    <3> SUFFICES ASSUME NEW i \in 1..Len(text), NEW j \in 1..i, text[j][1] = "overlay" PROVE FALSE
      OBVIOUS
    <3>1. j \in 1..Len(text)
      OBVIOUS
    <3> QED BY <3>1 DEF Tidy
  <2>2. StripOverlays(text) = Keep(text, left)
    BY DEF StripOverlays
  <2> HIDE DEF left
  <2> QED BY <2>1, <2>2, KeepAll
<1>3. "catalog" \in Blocks /\ "nux" \in Blocks /\ "profiles" \in Blocks
  BY DEF Blocks
<1> QED BY <1>1, <1>2, <1>3 DEF StripBlock

LEMMA StripEnd ==
    ASSUME NEW L, NEW text \in Seq(L), OneEnd(text)
    PROVE  LET new == StripLoneEnd(text, "profiles") IN
           /\ new \in Seq(L) /\ NoEnd(new)
           /\ NoEnd(text) => new = text
           /\ Tidy(text) => Tidy(new)
           /\ HasDefault(text) => HasDefault(new)
<1> DEFINE i == Find(text, {ProfilesEnd}, 1)
           new == StripLoneEnd(text, "profiles")
<1>1. new = IF i = 0 THEN text ELSE RemoveAt(text, i)
  BY DEF StripLoneEnd, ProfilesEnd
<1>2. /\ i = 0 => \A j \in 1..Len(text) : text[j] \notin {ProfilesEnd}
      /\ i # 0 => i \in 1..Len(text) /\ text[i] \in {ProfilesEnd}
  <2>1. 1 \in Nat \ {0}
    OBVIOUS
  <2> QED BY <2>1, FindIs
<1> HIDE DEF i
<1>3. CASE i = 0
  BY <1>1, <1>2, <1>3 DEF NoEnd
<1>4. CASE i # 0
  <2>1. i \in 1..Len(text) /\ text[i] = ProfilesEnd /\ new = RemoveAt(text, i) /\ ~NoEnd(text)
    BY <1>1, <1>2, <1>4 DEF NoEnd
  <2> HIDE DEF new
  <2>2. /\ new \in Seq(L) /\ Len(text) \in Nat /\ Len(new) = Len(text) - 1
        /\ \A k \in 1..Len(new) : new[k] = IF k < i THEN text[k] ELSE text[k + 1]
    BY <2>1, RemoveIs
  <2>3. \A k \in 1..Len(new) : \E j \in 1..Len(text) : j # i /\ new[k] = text[j]
    <3> SUFFICES ASSUME NEW k \in 1..Len(new) PROVE \E j \in 1..Len(text) : j # i /\ new[k] = text[j]
      OBVIOUS
    <3>1. CASE k < i
      <4>1. k \in 1..Len(text) /\ k # i /\ new[k] = text[k]
        BY <2>2, <3>1
      <4> QED BY <4>1
    <3>2. CASE ~(k < i)
      <4>1. k + 1 \in 1..Len(text) /\ k + 1 # i /\ new[k] = text[k + 1]
        BY <2>1, <2>2, <3>2
      <4> QED BY <4>1
    <3> QED BY <3>1, <3>2
  <2>4. NoEnd(new)
    BY <2>1, <2>3 DEF NoEnd, OneEnd
  <2>5. Tidy(text) => Tidy(new)
    <3> SUFFICES ASSUME Tidy(text), NEW k \in 1..Len(new)
                 PROVE  new[k][1] # "overlay" /\ (new[k][1] = "begin" => new[k][2] = "gateway")
      BY DEF Tidy
    <3>1. PICK j \in 1..Len(text) : new[k] = text[j]
      BY <2>3
    <3> QED BY <3>1 DEF Tidy
  <2>6. text[i][1] # "model"
    BY <2>1 DEF ProfilesEnd, Line
  <2>7. HasDefault(text) => HasDefault(new)
    BY <2>1, <2>6, DefaultWithout
  <2> QED BY <2>1, <2>2, <2>4, <2>5, <2>7 DEF new
<1> QED BY <1>3, <1>4

\* What is added is neither.
LEMMA OursAreClean ==
    ASSUME NEW old, NEW new, NEW prefixes, NEW o, Len(old) \in Nat, Len(new) \in Nat, Traces(o, new, old, Ours(prefixes))
    PROVE  /\ Tidy(old) => Tidy(new)
           /\ NoEnd(old) => NoEnd(new)
           /\ OneEnd(old) => OneEnd(new)
<1>1. /\ o \in [1..Len(new) -> 0..Len(old)]
      /\ \A k \in 1..Len(new) : IF o[k] = 0 THEN new[k] \in Ours(prefixes) ELSE new[k] = old[o[k]]
      /\ \A k, l \in 1..Len(new) : k < l /\ o[k] # 0 /\ o[l] # 0 => o[k] < o[l]
  BY DEF Traces
<1>2. \A k \in 1..Len(new) : new[k] \in Ours(prefixes) \/ (o[k] \in 1..Len(old) /\ new[k] = old[o[k]] /\ o[k] # 0)
  BY <1>1
<1>3. \A line \in Ours(prefixes) : line[1] # "overlay" /\ (line[1] = "begin" => line[2] = "gateway")
  BY OursAre
<1>4. ProfilesEnd \notin Ours(prefixes)
  BY DEF ProfilesEnd, Ours, Added, Line
<1>5. ASSUME Tidy(old) PROVE Tidy(new)
  <2> SUFFICES ASSUME NEW k \in 1..Len(new)
               PROVE  new[k][1] # "overlay" /\ (new[k][1] = "begin" => new[k][2] = "gateway")
    BY DEF Tidy
  <2>1. CASE new[k] \in Ours(prefixes)
    BY <1>3, <2>1
  <2>2. CASE o[k] \in 1..Len(old) /\ new[k] = old[o[k]]
    BY <1>5, <2>2 DEF Tidy
  <2> QED BY <1>2, <2>1, <2>2
<1>6. ASSUME NoEnd(old) PROVE NoEnd(new)
  <2> SUFFICES ASSUME NEW k \in 1..Len(new), new[k] = ProfilesEnd PROVE FALSE
    BY DEF NoEnd
  <2>1. o[k] \in 1..Len(old) /\ old[o[k]] = ProfilesEnd
    BY <1>2, <1>4
  <2> QED BY <1>6, <2>1 DEF NoEnd
<1>7. ASSUME OneEnd(old) PROVE OneEnd(new)
  <2> SUFFICES ASSUME NEW k \in 1..Len(new), NEW l \in 1..Len(new), new[k] = ProfilesEnd, new[l] = ProfilesEnd PROVE k = l
    BY DEF OneEnd
  <2>1. /\ o[k] \in 1..Len(old) /\ old[o[k]] = ProfilesEnd /\ o[k] # 0
        /\ o[l] \in 1..Len(old) /\ old[o[l]] = ProfilesEnd /\ o[l] # 0
    BY <1>2, <1>4
  <2>2. o[k] = o[l]
    BY <1>7, <2>1 DEF OneEnd
  <2>3. ~(k < l) /\ ~(l < k)
    <3>1. o[k] \in Nat
      BY <2>1
    <3> QED BY <1>1, <2>1, <2>2, <3>1
  <2>4. k \in Nat /\ l \in Nat
    OBVIOUS
  <2> QED BY <2>3, <2>4
<1> QED BY <1>5, <1>6, <1>7

\* The tables, once there, stay, and so does the default model.
LEMMA EnsureTablesAgain ==
    ASSUME NEW L, NEW text \in Seq(L), NEW prefixes, IsFiniteSet(prefixes), Added(prefixes) \subseteq L
    PROVE  /\ EnsureTables(EnsureTables(text, prefixes), prefixes) = EnsureTables(text, prefixes)
           /\ HasDefault(text) => HasDefault(EnsureTables(text, prefixes))
<1> DEFINE without == {p \in prefixes : ~HasTable(text, p)}
           missing == SetToSeq(without)
           tables == FlattenSeq([i \in 1..Len(missing) |-> ProviderTable(missing[i])])
           begin == <<Line("begin", "gateway")>>
           end == <<Line("end", "gateway")>>
           more == IF missing = <<>> THEN text ELSE ((text \o begin) \o tables) \o end
           new == EnsureTables(text, prefixes)
<1>1. new = EnsureBearer(more)
  BY DEF EnsureTables
<1>2. tables \in Seq(L) /\ begin \in Seq(L) /\ end \in Seq(L) /\ Line("bearer", Claude) \in L
  <2>1. IsFiniteSet(without) /\ without \in SUBSET prefixes
    BY FS_Subset
  <2> HIDE DEF without
  <2>2. tables \in Seq(Added(prefixes))
    BY <2>1, TablesAre
  <2>3. Line("begin", "gateway") \in L /\ Line("end", "gateway") \in L /\ Line("bearer", Claude) \in L
    BY DEF Added
  <2> HIDE DEF tables
  <2> QED BY <2>2, <2>3
<1> HIDE DEF tables, begin, end, missing
<1>3. more \in Seq(L) /\ (HasDefault(text) => HasDefault(more))
  <2> DEFINE x == text \o begin
             y == x \o tables
             z == y \o end
  <2>1. x \in Seq(L) /\ (HasDefault(text) => HasDefault(x))
    BY <1>2, DefaultLonger
  <2> HIDE DEF x
  <2>2. y \in Seq(L) /\ (HasDefault(x) => HasDefault(y))
    BY <1>2, <2>1, DefaultLonger
  <2> HIDE DEF y
  <2>3. z \in Seq(L) /\ (HasDefault(y) => HasDefault(z))
    BY <1>2, <2>2, DefaultLonger
  <2>4. more \in {text, z}
    BY DEF x, y
  <2> HIDE DEF z, more
  <2> QED BY <2>1, <2>2, <2>3, <2>4
<1> HIDE DEF more, new
<1>4. EnsureBearer(new) = new /\ (HasDefault(more) => HasDefault(new))
  BY <1>1, <1>2, <1>3, EnsureBearerAgain
<1>5. \A p \in prefixes : HasTable(new, p)
  BY EnsureTablesIs DEF new
<1>6. EnsureTables(new, prefixes) = EnsureBearer(new)
  <2>1. {p \in prefixes : ~HasTable(new, p)} = {}
    BY <1>5
  <2>2. SetToSeq({}) = <<>>
    <3>1. IsFiniteSet({}) /\ Cardinality({}) = 0
      BY FS_EmptySet
    <3>2. SetToSeq({}) \in Seq({}) /\ Len(SetToSeq({})) = 0
      BY <3>1, SetToSeqIs
    <3> QED BY <3>2
  <2>3. SetToSeq({p \in prefixes : ~HasTable(new, p)}) = <<>>
    BY <2>1, <2>2
  <2> QED BY <2>3 DEF EnsureTables
<1> QED BY <1>3, <1>4, <1>6 DEF new

\* A text that older versions left nothing in is rewritten once.
LEMMA RewrittenAgain ==
    ASSUME NEW L, NEW old \in Seq(L), NEW prefixes, IsFiniteSet(prefixes), ~RewriteRefused(old), ~Legacy(old)
    PROVE  Rewritten(Rewritten(old, prefixes), prefixes) = Rewritten(old, prefixes)
<1> DEFINE M == L \cup Ours(prefixes)
           t1 == EnsureDefaultModel(old)
           y == StripLoneEnd(t1, "profiles")
           z == EnsureTables(y, prefixes)
<1>1. old \in Seq(M) /\ Ours(prefixes) \subseteq M
  <2>1. L \subseteq M /\ Ours(prefixes) \subseteq M
    OBVIOUS
  <2> HIDE DEF M
  <2> QED BY <2>1
<1> HIDE DEF M
<1>2. /\ Line("model", DefaultModel) \in M /\ Added(prefixes) \subseteq M /\ Line("model", DefaultModel) \in Ours(prefixes)
      /\ Len(old) \in Nat
  BY <1>1 DEF Ours
<1>3. Tidy(old)
  BY DEF Legacy, Tidy
<1>4. OneEnd(old)
  <2> SUFFICES ASSUME NEW i \in 1..Len(old), NEW j \in 1..Len(old), old[i] = ProfilesEnd, old[j] = ProfilesEnd PROVE i = j
    BY DEF OneEnd
  <2>1. \A k, l \in 1..Len(old) : old[k] = ProfilesEnd /\ old[l] = old[k] => l \notin 1..(k - 1)
    BY DEF Legacy, ProfilesEnd
  <2>2. ~(i < j) /\ ~(j < i)
    <3>1. i < j => i \in 1..(j - 1)
      OBVIOUS
    <3>2. j < i => j \in 1..(i - 1)
      OBVIOUS
    <3> QED BY <2>1, <3>1, <3>2
  <2>3. i \in Nat /\ j \in Nat
    OBVIOUS
  <2> QED BY <2>2, <2>3
<1>5. t1 \in Seq(M) /\ HasDefault(t1)
  BY <1>1, <1>2, EnsureDefaultModelInSeq, DefaultIsThere
<1>6. Tidy(t1) /\ OneEnd(t1)
  <2>1. PICK o : Traces(o, t1, old, Ours(prefixes)) /\ Kept(o, 1..Len(old))
    BY <1>1, <1>2, EnsureDefaultModelTraces
  <2> HIDE DEF t1
  <2>2. Len(t1) \in Nat
    BY <1>5
  <2> QED BY <1>2, <1>3, <1>4, <2>1, <2>2, OursAreClean
<1>7. Stripped(old) = y
  <2>1. Stripped(old) = StripBlock(StripBlock(StripBlock(t1, "catalog"), "nux"), "profiles")
    BY DEF Stripped
  <2> HIDE DEF t1
  <2>2. StripBlock(t1, "catalog") = t1 /\ StripBlock(t1, "nux") = t1 /\ StripBlock(t1, "profiles") = y
    BY <1>5, <1>6, StripClean
  <2> QED BY <2>1, <2>2
<1> HIDE DEF t1
<1>8. y \in Seq(M) /\ NoEnd(y) /\ Tidy(y) /\ HasDefault(y)
  BY <1>5, <1>6, StripEnd
<1> HIDE DEF y
<1>9. z \in Seq(M) /\ HasDefault(z) /\ EnsureTables(z, prefixes) = z
  BY <1>2, <1>8, EnsureTablesIs, EnsureTablesAgain
<1>10. NoEnd(z) /\ Tidy(z)
  <2>1. PICK o : Traces(o, z, y, Ours(prefixes)) /\ Kept(o, Plain(y))
    BY <1>1, <1>8, EnsureTablesTraces
  <2> HIDE DEF z
  <2>2. Len(y) \in Nat /\ Len(z) \in Nat
    BY <1>8, <1>9
  <2> QED BY <1>8, <2>1, <2>2, OursAreClean
<1>11. Rewritten(old, prefixes) = z
  BY <1>7 DEF Rewritten
<1> HIDE DEF z
<1>12. Stripped(z) = z
  <2>1. EnsureDefaultModel(z) = z
    BY <1>9, DefaultStays
  <2>2. StripBlock(z, "catalog") = z /\ StripBlock(z, "nux") = z /\ StripBlock(z, "profiles") = StripLoneEnd(z, "profiles")
    BY <1>9, <1>10, StripClean
  <2>3. OneEnd(z)
    BY <1>10 DEF OneEnd, NoEnd
  <2>4. StripLoneEnd(z, "profiles") = z
    BY <1>9, <1>10, <2>3, StripEnd
  <2> QED BY <2>1, <2>2, <2>4 DEF Stripped
<1>13. Rewritten(z, prefixes) = z
  BY <1>9, <1>12 DEF Rewritten
<1> QED BY <1>11, <1>13

-----------------------------------------------------------------------------
(***************************************************************************)
(* What the clients find after a run: Claude Code's settings and launchers *)
(* (Itself), and the profiles and tables Codex needs (Works).  Both are    *)
(* true of what is staged; that config.toml is a text at all is part of    *)
(* the invariant.                                                          *)
(***************************************************************************)

\* ClaudeIsItself, of the files T made from S.
Itself(S, T) ==
    /\ \A l \in Launchers :
          /\ Launcher(l) \in DOMAIN T
          /\ LET real == T[Launcher(l)].says[2] IN real[1] = "launcher" => ~Managed(T, real)
    /\ Settings \in DOMAIN T =>
         LET old == S[Settings].says
             new == T[Settings].says
         IN /\ \A key \in {"base", "token"} : ~Has(new, key, "reverso")
            /\ "headers" \in DOMAIN new => "reverso" \notin new["headers"]
            /\ Has(old, "base", "reverso") => {"small", "discovery"} \cap DOMAIN new = {}
            /\ \A key \in DOMAIN old \ {"headers", "marker"} : old[key] = "user" =>
                  \/ Has(new, key, "user")
                  \/ key \in {"small", "discovery"} /\ Has(old, "base", "reverso")
                  \/ key = "discovery" /\ "headers" \in DOMAIN old /\ "reverso" \in old["headers"]

\* The claude that is found is no launcher of the sync's.
LEMMA RealClaudeIs ==
    ASSUME NEW S, NEW path \in PathEntries, RealClaude(S, path) # None
    PROVE  LET c == RealClaude(S, path) IN c[1] = "launcher" => c \in DOMAIN S /\ ~Managed(S, c)
<1> DEFINE usable == {i \in DOMAIN path : path[i][1] = "launcher" => path[i] \in DOMAIN S /\ ~Managed(S, path[i])}
<1>1. path \in Seq(Range(path))
  BY FilesOK
<1>2. usable \in SUBSET Nat
  BY <1>1
<1>3. RealClaude(S, path) = IF usable = {} THEN None ELSE path[Min(usable)]
  BY DEF RealClaude
<1>4. usable # {}
  BY <1>3
<1>5. Min(usable) \in usable
  <2> HIDE DEF usable
  <2> QED BY <1>2, <1>4, MinIs
<1> QED BY <1>3, <1>4, <1>5

\* Of the settings nothing is left that goes through the gateway, and the user's keys are.
LEMMA RepairedIs ==
    ASSUME NEW old
    PROVE  LET new == Repaired(old)
           IN /\ \A key \in {"base", "token"} : ~Has(new, key, "reverso")
              /\ "headers" \in DOMAIN new => "reverso" \notin new["headers"]
              /\ Has(old, "base", "reverso") => {"small", "discovery"} \cap DOMAIN new = {}
              /\ \A key \in DOMAIN old \ {"headers", "marker"} : old[key] = "user" =>
                    \/ Has(new, key, "user")
                    \/ key \in {"small", "discovery"} /\ Has(old, "base", "reverso")
                    \/ key = "discovery" /\ "headers" \in DOMAIN old /\ "reverso" \in old["headers"]
<1> DEFINE routed == Has(old, "base", "reverso")
           tagged == "headers" \in DOMAIN old /\ "reverso" \in old["headers"]
           gone == {key \in DOMAIN old :
                      \/ key \in {"base", "small"} /\ routed
                      \/ key = "token" /\ old[key] = "reverso"
                      \/ key = "discovery" /\ (routed \/ tagged)
                      \/ key = "headers" /\ old[key] = {"reverso"}
                      \/ key = "marker"
                      \/ key = "model" /\ "marker" \in DOMAIN old /\ old[key] = "broken"}
           new == Repaired(old)
<1>1. /\ DOMAIN new = DOMAIN old \ gone
      /\ \A key \in DOMAIN new : new[key] = IF key = "headers" THEN old[key] \ {"reverso"} ELSE old[key]
  BY DEF Repaired
<1> HIDE DEF new
<1>2. \A key \in {"base", "token"} : ~Has(new, key, "reverso")
  BY <1>1 DEF Has
<1>3. "headers" \in DOMAIN new => "reverso" \notin new["headers"]
  BY <1>1
<1>4. routed => {"small", "discovery"} \cap DOMAIN new = {}
  BY <1>1
<1>5. ASSUME NEW key \in DOMAIN old \ {"headers", "marker"}, old[key] = "user"
      PROVE  \/ Has(new, key, "user")
             \/ key \in {"small", "discovery"} /\ routed
             \/ key = "discovery" /\ tagged
  <2>1. CASE key \notin gone
    BY <1>1, <1>5, <2>1 DEF Has
  <2>2. CASE key \in gone
    BY <1>5, <2>2 DEF Has
  <2> QED BY <2>1, <2>2
<1> QED BY <1>2, <1>3, <1>4, <1>5 DEF new

LEMMA ClaudeStagedIs ==
    ASSUME second \in Nat, NEW S, Fine(S, second), NEW path \in PathEntries, ~ClaudeRefused(S, path)
    PROVE  Itself(S, ClaudeStaged(S, path)) /\ Same(S, ClaudeStaged(S, path), Config)
<1> DEFINE c == RealClaude(S, path)
           launchers == [x \in {Launcher(l) : l \in Launchers} |-> LauncherFile(x[2], c)]
           repaired == File("user", Repaired(S[Settings].says), FALSE)
           y == FreeName(S, "backup", Settings)
           settings == IF Settings \notin DOMAIN S \/ S[Settings] = repaired THEN <<>>
                       ELSE [x \in {Settings, y} |-> IF x = Settings THEN repaired ELSE S[Settings]]
           tidied == Patch(S, {}, settings)
           final == ClaudeStaged(S, path)
<1>1. final = Patch(tidied, {}, launchers)
  BY DEF ClaudeStaged
<1>2. /\ \A x \in DOMAIN launchers : x[1] = "launcher" /\ \E l \in Launchers : x = Launcher(l)
      /\ \A l \in Launchers : Launcher(l) \in DOMAIN launchers /\ launchers[Launcher(l)].says[2] = c
  BY DEF Launcher, LauncherFile, File
<1>3. /\ y[1] = "backup" /\ y \notin DOMAIN S
      /\ Settings[1] = "settings" /\ Config[1] = "config"
  <2>1. y \notin DOMAIN S /\ \E n \in Nat : y = <<"backup", Settings, second, n>>
    BY FreeNameIs DEF Fine
  <2>2. Settings[1] = "settings" /\ Config[1] = "config"
    BY DEF Settings, Config
  <2> HIDE DEF y
  <2> QED BY <2>1, <2>2
<1> HIDE DEF y
<1>4. \/ DOMAIN settings = {} /\ (Settings \in DOMAIN S => S[Settings] = repaired)
      \/ DOMAIN settings = {Settings, y} /\ settings[Settings] = repaired /\ Settings \in DOMAIN S
  <2>1. DOMAIN <<>> = {} /\ Settings # y
    BY <1>3
  <2> QED BY <2>1
<1>5. repaired.says = Repaired(S[Settings].says)
  BY DEF File
<1> HIDE DEF settings, launchers, repaired
<1>6. Patched(tidied, S, {}, settings) /\ Patched(final, tidied, {}, launchers)
  BY <1>1, PatchIs
<1> HIDE DEF tidied, final
<1>7. Same(S, final, Config)
  BY <1>2, <1>3, <1>4, <1>6 DEF Patched, Same
<1>8. Settings \in DOMAIN final => Settings \in DOMAIN S /\ final[Settings] = repaired
  <2>1. Same(tidied, final, Settings)
    BY <1>2, <1>3, <1>6 DEF Patched
  <2>2. Settings \in DOMAIN tidied => Settings \in DOMAIN S /\ tidied[Settings] = repaired
    <3>1. CASE DOMAIN settings = {}
      BY <1>4, <1>6, <3>1 DEF Patched, Same
    <3>2. CASE DOMAIN settings # {}
      BY <1>4, <1>6, <3>2 DEF Patched
    <3> QED BY <3>1, <3>2
  <2> QED BY <2>1, <2>2 DEF Same
<1>9. c # None /\ \A l \in Launchers : Launcher(l) \in DOMAIN S => Managed(S, Launcher(l))
  BY DEF ClaudeRefused
<1>10. c[1] = "launcher" => c \in DOMAIN S /\ ~Managed(S, c)
  BY <1>9, RealClaudeIs
<1> HIDE DEF c
<1>11. c[1] = "launcher" => ~Managed(final, c)
  <2> SUFFICES ASSUME c[1] = "launcher" PROVE ~Managed(final, c)
    OBVIOUS
  <2>1. c \notin DOMAIN launchers
    BY <1>2, <1>9, <1>10
  <2>2. c \notin DOMAIN settings
    BY <1>3, <1>4
  <2>3. Same(S, final, c)
    BY <1>6, <2>1, <2>2 DEF Patched, Same
  <2> QED BY <1>10, <2>3 DEF Same, Managed
<1>12. \A l \in Launchers : Launcher(l) \in DOMAIN final /\ final[Launcher(l)].says[2] = c
  BY <1>2, <1>6 DEF Patched
<1>13. Itself(S, final)
  BY <1>5, <1>8, <1>11, <1>12, RepairedIs DEF Itself
<1> QED BY <1>7, <1>13 DEF final

\* config.toml is a text, if it is a file.
IsText(S) == Config \in DOMAIN S /\ ~IsLink(S, Config) => \E L : S[Config].says \in Seq(L)

\* ProfilesWork, of the files T.
Works(offered, T) ==
    \A p \in Live(offered) :
        /\ Catalog(p) \in DOMAIN T /\ Canon(p) \in DOMAIN T
        /\ \E i \in DOMAIN T[Catalog(p)].says : T[Catalog(p)].says[i] = T[Canon(p)].says
        /\ HasTable(Text(T), p)

LEMMA CodexStagedIs ==
    ASSUME second \in Nat, NEW S, Fine(S, second), IsText(S), NEW offered, DOMAIN offered \subseteq Routed,
           \A p \in DOMAIN offered : offered[p] \in Offers, NEW single \in BOOLEAN, ~CodexRefused(S, offered, single)
    PROVE  /\ IsText(CodexStaged(S, offered, single))
           /\ ~single => /\ Works(offered, CodexStaged(S, offered, single))
                         /\ LinesStay(Text(S), Text(CodexStaged(S, offered, single)))
<1> DEFINE T == CodexStaged(S, offered, single)
           prefixes == DOMAIN offered
           text == Rewritten(Text(S), prefixes)
<1>1. (\A p \in Live(offered) : Served(T, offered, p)) /\ TextIs(S, T, offered, single)
  BY CodexKeeps
<1> HIDE DEF T
<1>2. \/ Same(S, T, Config) /\ (single \/ text = Text(S))
      \/ ~single /\ Config \in DOMAIN T /\ T[Config] = File("user", text, FALSE)
  BY <1>1 DEF TextIs
<1>3. ASSUME ~single
      PROVE  /\ \E M : text \in Seq(M)
             /\ \A p \in prefixes : HasTable(text, p)
             /\ LinesStay(Text(S), text)
  <2>1. ~IsLink(S, Config) /\ ~RewriteRefused(Text(S))
    BY <1>3 DEF CodexRefused, FilesRefused, IsLink
  <2>2. \E L : Text(S) \in Seq(L)
    <3>1. <<>> \in Seq({})
      OBVIOUS
    <3> QED BY <2>1, <3>1 DEF IsText, Text
  <2>3. PICK L : Text(S) \in Seq(L)
    BY <2>2
  <2>4. IsFiniteSet(prefixes)
    BY FilesOK, FS_Subset
  <2> DEFINE old == Text(S)
  <2> HIDE DEF old
  <2>5. old \in Seq(L) /\ ~RewriteRefused(old)
    BY <2>1, <2>3 DEF old
  <2>6. /\ \E M : Rewritten(old, prefixes) \in Seq(M)
        /\ \A p \in prefixes : HasTable(Rewritten(old, prefixes), p)
    <3> HIDE DEF prefixes
    <3> QED BY <2>4, <2>5, RewrittenIs
  <2>7. LinesStay(old, Rewritten(old, prefixes))
    <3> HIDE DEF prefixes
    <3> QED BY <2>4, <2>5, RewrittenLinesStay
  <2> QED BY <2>6, <2>7 DEF old
<1> HIDE DEF text
<1>4. IsText(T)
  <2>1. CASE Same(S, T, Config)
    BY <2>1 DEF IsText, IsLink, Same
  <2>2. CASE ~single /\ T[Config] = File("user", text, FALSE)
    BY <1>3, <2>2 DEF IsText, File
  <2> QED BY <1>2, <2>1, <2>2
<1>5. ASSUME ~single PROVE Text(T) = text
  <2>1. CASE Same(S, T, Config) /\ text = Text(S)
    BY <2>1 DEF Same, Text
  <2>2. CASE Config \in DOMAIN T /\ T[Config] = File("user", text, FALSE)
    BY <2>2 DEF Text, File
  <2> QED BY <1>2, <1>5, <2>1, <2>2
<1>6. ASSUME ~single, NEW p \in Live(offered)
      PROVE  /\ Catalog(p) \in DOMAIN T /\ Canon(p) \in DOMAIN T
             /\ \E i \in DOMAIN T[Catalog(p)].says : T[Catalog(p)].says[i] = T[Canon(p)].says
             /\ HasTable(Text(T), p)
  <2>1. /\ Catalog(p) \in DOMAIN T /\ T[Catalog(p)].says = offered[p]
        /\ Canon(p) \in DOMAIN T /\ T[Canon(p)].says = offered[p][1]
    <3>1. Served(T, offered, p)
      BY <1>1
    <3>2. CatalogFile(offered, p).says = offered[p] /\ ProfileFile(offered, p).says = offered[p][1]
      BY DEF CatalogFile, ProfileFile, File
    <3> QED BY <3>1, <3>2 DEF Served
  <2>2. p \in DOMAIN offered /\ offered[p] # <<>>
    BY DEF Live
  <2>3. offered[p] \in Seq(Range(offered[p]))
    BY <2>2, FilesOK
  <2>4. 1 \in DOMAIN offered[p]
    <3> DEFINE models == offered[p]
               all == Range(models)
    <3>1. models \in Seq(all) /\ models # <<>>
      BY <2>2, <2>3
    <3> HIDE DEF models, all
    <3>2. 1 \in DOMAIN models
      BY <3>1
    <3> QED BY <3>2 DEF models
  <2> QED BY <1>3, <1>5, <1>6, <2>1, <2>2, <2>4
<1>7. ~single => Works(offered, T)
  BY <1>6 DEF Works
<1>8. ~single => LinesStay(Text(S), Text(T))
  BY <1>3, <1>5
<1> QED BY <1>4, <1>7, <1>8 DEF T

\* What a run is about to leave, or has left, is as the clients need it.
ClientOK(r) ==
    /\ r.phase # "idle" => IsText(r.seen)
    /\ r.phase \in {"writing", "done"} =>
          /\ IsText(r.staged)
          /\ r.mode = "claude" => Itself(r.seen, r.staged)
          /\ r.mode = "codex" => Works(r.input, r.staged) /\ LinesStay(Text(r.seen), Text(r.staged))

ClientInv == KeepInv /\ IsText(disk) /\ ClientOK(run)

LEMMA DiscoveredAreOffers == \A offered \in Discovered : \A p \in DOMAIN offered : offered[p] \in Offers
<1> SUFFICES ASSUME NEW offered \in Discovered, NEW p \in DOMAIN offered PROVE offered[p] \in Offers
  OBVIOUS
<1>1. PICK exposed : offered \in [exposed -> Offers]
  BY DEF Discovered
<1> QED BY <1>1

LEMMA IdleWorks == ASSUME run' = Idle PROVE ClientOK(run')
BY DEF ClientOK, Idle

LEMMA StagedWorks ==
    ASSUME ClientInv, StageCodex \/ StageClaude
    PROVE  IsText(disk)' /\ ClientOK(run')
<1>0. /\ second \in Nat /\ run.phase = "staging" /\ Fine(run.seen, second) /\ IsText(run.seen) /\ RunIs(run)
      /\ IsText(disk)
  BY DEF StageCodex, StageClaude, ClientInv, KeepInv, KeepOK, ClientOK
<1>1. disk' = disk
  BY DEF StageCodex, StageClaude, Stage, Refused
<1>2. ASSUME NEW input, NEW refused, NEW staged, Stage(input, refused, staged),
             IsText(staged), run.mode = "claude" => Itself(run.seen, staged),
             run.mode = "codex" => Works(input, staged) /\ LinesStay(Text(run.seen), Text(staged))
      PROVE  ClientOK(run')
  <2>1. CASE refused
    BY <1>2, <2>1, IdleWorks DEF Stage, Refused
  <2>2. CASE ~refused
    <3>1. run' = [mode |-> run.mode, phase |-> "writing", seen |-> run.seen, staged |-> staged,
                  input |-> input, written |-> run.written, calm |-> run.calm]
      BY <1>0, <1>2, <2>2 DEF Stage, RunIs
    <3>2. /\ run'.mode = run.mode /\ run'.phase = "writing" /\ run'.seen = run.seen
          /\ run'.staged = staged /\ run'.input = input
      BY <3>1
    <3> QED BY <1>0, <1>2, <3>2 DEF ClientOK
  <2> QED BY <2>1, <2>2
<1>3. Refused => ClientOK(run')
  BY IdleWorks DEF Refused
<1>4. CASE StageCodex
  <2> DEFINE single == run.mode = "provider"
  <2>1. PICK offered \in Discovered :
          LET staged == CodexStaged(run.seen, offered, single)
          IN IF \/ \E p \in DOMAIN offered \ Optional : offered[p] = <<>>
                \/ CodexRefused(run.seen, offered, single)
             THEN Refused
             ELSE Stage(offered, Differ(run.seen, staged) \cap Differ(run.seen, disk) # {}, staged)
    BY <1>4 DEF StageCodex
  <2>2. CASE CodexRefused(run.seen, offered, single)
    BY <1>1, <1>3, <1>0, <2>1, <2>2 DEF IsText, IsLink
  <2>3. CASE ~CodexRefused(run.seen, offered, single)
    <3> DEFINE staged == CodexStaged(run.seen, offered, single)
    <3>1. DOMAIN offered \subseteq Routed /\ \A p \in DOMAIN offered : offered[p] \in Offers
      BY DiscoveredAreRouted, DiscoveredAreOffers
    <3>2. IsText(staged) /\ (~single => Works(offered, staged) /\ LinesStay(Text(run.seen), Text(staged)))
      BY <1>0, <2>3, <3>1, CodexStagedIs
    <3>3. run.mode # "claude" /\ (run.mode = "codex" => ~single)
      BY <1>4 DEF StageCodex
    <3>4. Refused \/ Stage(offered, Differ(run.seen, staged) \cap Differ(run.seen, disk) # {}, staged)
      BY <2>1
    <3> HIDE DEF staged
    <3>5. ClientOK(run')
      BY <1>2, <1>3, <3>2, <3>3, <3>4
    <3> QED BY <1>0, <1>1, <3>5 DEF IsText, IsLink
  <2> QED BY <2>2, <2>3
<1>5. CASE StageClaude
  <2>1. PICK path \in PathEntries :
          IF ClaudeRefused(run.seen, path) THEN Refused
          ELSE Stage(path, FALSE, ClaudeStaged(run.seen, path))
    BY <1>5 DEF StageClaude
  <2>2. CASE ClaudeRefused(run.seen, path)
    BY <1>0, <1>1, <1>3, <2>1, <2>2 DEF IsText, IsLink
  <2>3. CASE ~ClaudeRefused(run.seen, path)
    <3> DEFINE staged == ClaudeStaged(run.seen, path)
    <3>1. Itself(run.seen, staged) /\ Same(run.seen, staged, Config)
      BY <1>0, <2>3, ClaudeStagedIs
    <3>2. run.mode = "claude" /\ Stage(path, FALSE, staged)
      BY <1>5, <2>1, <2>3 DEF StageClaude
    <3> HIDE DEF staged
    <3>3. IsText(staged)
      BY <1>0, <3>1 DEF IsText, IsLink, Same
    <3>4. ClientOK(run')
      BY <1>2, <3>1, <3>2, <3>3
    <3> QED BY <1>0, <1>1, <3>4 DEF IsText, IsLink
  <2> QED BY <2>2, <2>3
<1> QED BY <1>4, <1>5

LEMMA WriteWorks == ASSUME ClientInv, Write PROVE IsText(disk)' /\ ClientOK(run')
<1> DEFINE n == NextPath
           new == Part(run.staged, {n})
<1>1. run.phase = "writing" /\ disk' = Patch(disk, {n}, new) /\ run' = [run EXCEPT !.written = @ \cup {n}]
  BY DEF Write
<1>2. DOMAIN new = {n} \cap DOMAIN run.staged /\ \A x \in {n} \cap DOMAIN run.staged : new[x] = run.staged[x]
  BY PartParts
<1> HIDE DEF n, new
<1>3. Patched(disk', disk, {n}, new)
  BY <1>1, PatchIs
<1>4. IsText(disk) /\ IsText(run.staged) /\ RunIs(run)
  BY <1>1 DEF ClientInv, ClientOK, KeepInv, KeepOK
<1>5. IsText(disk')
  <2>1. Same(disk, disk', Config) \/ Config \notin DOMAIN disk' \/ Same(run.staged, disk', Config)
    BY <1>2, <1>3 DEF Patched, Same
  <2> QED BY <1>4, <2>1 DEF IsText, IsLink, Same
<1>6. /\ run'.mode = run.mode /\ run'.phase = "writing" /\ run'.seen = run.seen /\ run'.staged = run.staged
      /\ run'.input = run.input
  BY <1>1, <1>4 DEF RunIs
<1>7. ClientOK(run')
  BY <1>1, <1>6 DEF ClientInv, ClientOK
<1> QED BY <1>5, <1>7 DEF IsText, IsLink

LEMMA UndoneWorks == ASSUME ClientInv, Undo \/ Kill PROVE IsText(disk)' /\ ClientOK(run')
<1>1. run' = Idle /\ run.phase = "writing"
  BY DEF Undo, Kill
<1>2. IsText(disk) /\ IsText(run.seen)
  BY <1>1 DEF ClientInv, ClientOK
<1>3. CASE Kill
  BY <1>1, <1>2, <1>3, IdleWorks DEF Kill, IsText, IsLink
<1>4. CASE Undo
  <2> DEFINE back == run.written \ Differ(run.staged, disk)
             old == Part(run.seen, back)
  <2>1. disk' = Patch(disk, back, old)
    BY <1>4 DEF Undo
  <2>2. DOMAIN old = back \cap DOMAIN run.seen /\ \A x \in back \cap DOMAIN run.seen : old[x] = run.seen[x]
    BY PartParts
  <2> HIDE DEF back, old
  <2>3. Patched(disk', disk, back, old)
    BY <2>1, PatchIs
  <2>4. Same(disk, disk', Config) \/ Config \notin DOMAIN disk' \/ Same(run.seen, disk', Config)
    BY <2>2, <2>3 DEF Patched, Same
  <2>5. IsText(disk')
    BY <1>2, <2>4 DEF IsText, IsLink, Same
  <2> QED BY <1>1, <2>5, IdleWorks DEF IsText, IsLink
<1> QED BY <1>3, <1>4

LEMMA EditWorks ==
    ASSUME ClientInv, NEW x, NEW file, Edit(x, file), x = Config => \E L : file.says \in Seq(L)
    PROVE  IsText(disk)' /\ ClientOK(run')
<1> DEFINE new == [y \in {x} |-> file]
<1>1. disk' = Patch(disk, {}, new) /\ run' = [run EXCEPT !.calm = FALSE]
  BY DEF Edit
<1>2. DOMAIN new = {x} /\ new[x] = file
  OBVIOUS
<1> HIDE DEF new
<1>3. Patched(disk', disk, {}, new)
  BY <1>1, PatchIs
<1>4. IsText(disk')
  <2>1. CASE x = Config
    BY <1>2, <1>3, <2>1 DEF Patched, IsText
  <2>2. CASE x # Config
    <3>1. Same(disk, disk', Config)
      BY <1>2, <1>3, <2>2 DEF Patched
    <3> QED BY <3>1 DEF ClientInv, IsText, IsLink, Same
  <2> QED BY <2>1, <2>2
<1>5. /\ run'.mode = run.mode /\ run'.phase = run.phase /\ run'.seen = run.seen /\ run'.staged = run.staged
      /\ run'.input = run.input
  BY <1>1 DEF ClientInv, KeepInv, KeepOK, RunIs
<1>6. ClientOK(run')
  BY <1>5 DEF ClientInv, ClientOK
<1> QED BY <1>4, <1>6 DEF IsText, IsLink

LEMMA ClientStep == ASSUME ClientInv, [FilesNext]_filesVars PROVE ClientInv'
<1>1. KeepInv'
  BY KeepStep DEF ClientInv
<1> SUFFICES IsText(disk)' /\ ClientOK(run')
  BY <1>1 DEF ClientInv
<1>2. CASE UNCHANGED filesVars
  BY <1>2 DEF filesVars, ClientInv, IsText, IsLink
<1>3. ASSUME NEW mode, Start(mode) PROVE IsText(disk)' /\ ClientOK(run')
  <2>1. disk' = disk /\ run'.phase = "staging" /\ run'.seen = disk
    BY <1>3 DEF Start, Idle
  <2> QED BY <2>1 DEF ClientInv, ClientOK, IsText, IsLink
<1>4. ASSUME Finish PROVE IsText(disk)' /\ ClientOK(run')
  <2>1. disk' = disk /\ run' = [run EXCEPT !.phase = "done"] /\ run.phase = "writing"
    BY <1>4 DEF Finish
  <2>2. /\ run'.mode = run.mode /\ run'.phase = "done" /\ run'.seen = run.seen /\ run'.staged = run.staged
        /\ run'.input = run.input
    BY <2>1 DEF ClientInv, KeepInv, KeepOK, RunIs
  <2> QED BY <2>1, <2>2 DEF ClientInv, ClientOK, IsText, IsLink
<1>5. ASSUME NEW x \in UserPaths, Edit(x, UserFile) PROVE IsText(disk)' /\ ClientOK(run')
  <2>1. x # Config
    BY UserPathKinds DEF Config
  <2> QED BY <1>5, <2>1, EditWorks
<1>6. ASSUME NEW text \in UserTexts, Edit(Config, File("user", text, FALSE)) PROVE IsText(disk)' /\ ClientOK(run')
  <2>1. File("user", text, FALSE).says \in Seq(Range(text))
    BY FilesOK DEF File
  <2> QED BY <1>6, <2>1, EditWorks
<1> QED BY <1>2, <1>3, <1>4, <1>5, <1>6, StagedWorks, WriteWorks, UndoneWorks DEF FilesNext

LEMMA ClientInvariance == FilesSpec => []ClientInv
<1>1. FilesInit => ClientInv
  <2> SUFFICES ASSUME FilesInit PROVE ClientInv
    OBVIOUS
  <2>1. IsText(disk)
    BY StartFilesOK DEF FilesInit, IsText
  <2>2. ClientOK(run)
    BY DEF FilesInit, ClientOK, Idle
  <2> QED BY <2>1, <2>2, StartKeepInv DEF ClientInv
<1>2. ClientInv /\ [FilesNext]_filesVars => ClientInv'
  BY ClientStep
<1> QED BY <1>1, <1>2, PTL DEF FilesSpec

LEMMA ProfilesWorkNow == ASSUME ClientInv PROVE ProfilesWork
<1> SUFFICES ASSUME run.phase = "done", run.calm, run.mode = "codex", NEW p \in Live(run.input)
             PROVE  /\ \E i \in DOMAIN disk[Catalog(p)].says : disk[Catalog(p)].says[i] = disk[Canon(p)].says
                    /\ HasTable(Text(disk), p)
  BY DEF ProfilesWork, Converged
<1>1. \A x : Same(disk, run.staged, x)
  BY NothingElseWas DEF ClientInv
<1>2. Works(run.input, run.staged)
  BY DEF ClientInv, ClientOK
<1>3. Text(disk) = Text(run.staged)
  BY <1>1 DEF Text, Same
<1>4. disk[Catalog(p)] = run.staged[Catalog(p)] /\ disk[Canon(p)] = run.staged[Canon(p)]
  BY <1>1, <1>2 DEF Same, Works
<1> QED BY <1>2, <1>3, <1>4 DEF Works

LEMMA ClaudeIsItselfNow == ASSUME ClientInv PROVE ClaudeIsItself
<1> SUFFICES ASSUME run.phase = "done", run.calm, run.mode = "claude" PROVE Itself(run.seen, disk)
  BY DEF ClaudeIsItself, Converged, Itself
<1>1. \A x : Same(disk, run.staged, x)
  BY NothingElseWas DEF ClientInv
<1>2. Itself(run.seen, run.staged)
  BY DEF ClientInv, ClientOK
<1>3. \A l \in Launchers : Launcher(l) \in DOMAIN disk /\ disk[Launcher(l)] = run.staged[Launcher(l)]
  BY <1>1, <1>2 DEF Same, Itself
<1>4. \A x : Managed(disk, x) <=> Managed(run.staged, x)
  BY <1>1 DEF Same, Managed
<1>5. Settings \in DOMAIN disk => Settings \in DOMAIN run.staged /\ disk[Settings] = run.staged[Settings]
  BY <1>1 DEF Same
<1> QED BY <1>2, <1>3, <1>4, <1>5 DEF Itself

\* Whatever the gateway lists and whatever state the files are in, a full run of the
\* Codex sync that nobody disturbs leaves, for each served prefix, a profile that pins
\* a model of its catalog and a provider table in config.toml
\* (_ensure_gateway_provider_tables, over every text that _strip_managed_block
\* accepts); one of Claude Code's leaves no setting that goes through the gateway,
\* every key of the user's that is not explained by it, and launchers that run the
\* claude behind them (_remove_reverso_overrides, _resolve_claude_executable).
THEOREM ClientsKeepWorking == FilesSpec => []ClientsWork
<1>1. ClientInv => ClientsWork
  BY ProfilesWorkNow, ClaudeIsItselfNow DEF ClientsWork
<1> QED BY <1>1, ClientInvariance, PTL

\* Whatever config.toml says, no full run that is about to write leaves out a line of
\* the user's, puts one elsewhere or repeats one: of blocks and overlays that older
\* versions left, and of the tables it mends, it takes its own lines alone (the module
\* docstring of codex_sync.py, over every text that it does not refuse).
THEOREM UsersLinesStay == FilesSpec => []UserLinesStay
<1>1. ClientInv => UserLinesStay
  BY DEF UserLinesStay, ClientInv, ClientOK
<1> QED BY <1>1, ClientInvariance, PTL

-----------------------------------------------------------------------------
(***************************************************************************)
(* A second run with the same answers.  What a run leaves is at rest: each *)
(* file is there as the run would write it, nothing is left that it would  *)
(* archive, and its text is the rewritten one.  Files at rest are what a   *)
(* run makes of them.                                                      *)
(***************************************************************************)

\* Files are a function of their paths.
Whole(S) == S = [x \in DOMAIN S |-> S[x]]

LEMMA PatchWhole == ASSUME NEW S, NEW gone, NEW new PROVE Whole(Patch(S, gone, new))
BY DEF Whole, Patch

\* Writing what is there changes nothing.
LEMMA PatchSame ==
    ASSUME NEW S, Whole(S), NEW new, \A x \in DOMAIN new : x \in DOMAIN S /\ S[x] = new[x]
    PROVE  Patch(S, {}, new) = S
<1>1. (DOMAIN S \ {}) \cup DOMAIN new = DOMAIN S
  OBVIOUS
<1>2. Patch(S, {}, new) = [x \in DOMAIN S |-> IF x \in DOMAIN new THEN new[x] ELSE S[x]]
  BY <1>1 DEF Patch
<1>3. [x \in DOMAIN S |-> IF x \in DOMAIN new THEN new[x] ELSE S[x]] = [x \in DOMAIN S |-> S[x]]
  OBVIOUS
<1> QED BY <1>2, <1>3 DEF Whole

\* No file, no backup; and nothing to archive, no archive.
LEMMA WithBackupsNothing ==
    ASSUME NEW S, Whole(S), NEW new, DOMAIN new = {}
    PROVE  WithBackups(S, new) = S
<1> DEFINE copies == [y \in {FreeName(S, "backup", x) : x \in DOMAIN new \cap DOMAIN S} |-> S[y[2]]]
           written == Patch(Patch(S, {}, copies), {}, new)
           gone == UNION {Rotated(written, x) : x \in DOMAIN new}
           none == <<>>
<1>1. WithBackups(S, new) = Patch(written, gone, none)
  BY DEF WithBackups
<1>2. DOMAIN copies = {} /\ gone = {} /\ DOMAIN none = {}
  OBVIOUS
<1> HIDE DEF copies, none
<1>3. written = S
  BY <1>2, PatchSame
<1> HIDE DEF written, gone
<1> QED BY <1>1, <1>2, <1>3, PatchSame

LEMMA ArchivedNothing == ASSUME NEW S, Whole(S) PROVE Archived(S, {}) = S
<1> DEFINE copies == [y \in {FreeName(S, "archive", x) : x \in {}} |-> S[y[2]]]
<1>1. Archived(S, {}) = Patch(S, {}, copies)
  BY DEF Archived
<1>2. DOMAIN copies = {}
  OBVIOUS
<1> HIDE DEF copies
<1> QED BY <1>1, <1>2, PatchSame

\* The files are what a Codex run with these answers would make of them.
CodexAtRest(T, offered, single) ==
    /\ \A q \in Live(offered) : Served(T, offered, q)
    /\ ~single => Settled(T, offered) /\ Rewritten(Text(T), DOMAIN offered) = Text(T)

LEMMA CodexRests ==
    ASSUME NEW T, Whole(T), NEW offered, NEW single \in BOOLEAN, CodexAtRest(T, offered, single)
    PROVE  CodexStaged(T, offered, single) = T
<1> DEFINE catalogs == [x \in {Catalog(p) : p \in Live(offered)} |-> CatalogFile(offered, x[2])]
           wanted == Profiles(offered, single)
           new == [x \in ToWrite(T, offered, single) |-> wanted[x]]
           profiles == WithBackups(Patch(T, {}, catalogs), new)
           text == Rewritten(Text(T), DOMAIN offered)
           moved == Archived(profiles, Superseded(profiles, offered) \cup Stale(profiles, offered))
           final == WithBackups(moved, [x \in {Config} |-> File("user", text, FALSE)])
<1>1. CodexStaged(T, offered, single) = IF single THEN profiles ELSE IF text = Text(T) THEN moved ELSE final
  BY DEF CodexStaged
<1>2. Patch(T, {}, catalogs) = T
  <2>1. ASSUME NEW x \in DOMAIN catalogs PROVE x \in DOMAIN T /\ T[x] = catalogs[x]
    <3>1. PICK q \in Live(offered) : x = Catalog(q)
      BY <2>1
    <3>2. catalogs[x] = CatalogFile(offered, q)
      BY <3>1 DEF Catalog
    <3> QED BY <3>1, <3>2 DEF CodexAtRest, Served
  <2> HIDE DEF catalogs
  <2> QED BY <2>1, PatchSame
<1>3. ToWrite(T, offered, single) = {}
  <2> SUFFICES ASSUME NEW x \in ToWrite(T, offered, single) PROVE FALSE
    OBVIOUS
  <2>1. x \in DOMAIN wanted /\ (x \in DOMAIN T => T[x] # wanted[x] /\ (x[1] = "bare" => Managed(T, x)))
    BY DEF ToWrite
  <2>2. (\E q \in Live(offered) : x = Canon(q)) \/ (~single /\ \E d \in Direct : x = Bare(d))
    BY <2>1 DEF Profiles
  <2>3. ASSUME NEW q \in Live(offered), x = Canon(q) PROVE FALSE
    <3>1. wanted[x] = ProfileFile(offered, q)
      BY <2>1, <2>3 DEF Profiles, Canon
    <3> HIDE DEF wanted
    <3> QED BY <2>1, <2>3, <3>1 DEF CodexAtRest, Served
  <2>4. ASSUME ~single, NEW d \in Direct, x = Bare(d) PROVE FALSE
    <3>1. wanted[x] = DirectFile(d) /\ x[1] = "bare"
      BY <2>1, <2>4 DEF Profiles, Bare
    <3> HIDE DEF wanted
    <3>2. x \in DOMAIN T /\ (T[x] = DirectFile(d) \/ ~Managed(T, x))
      BY <2>4 DEF CodexAtRest, Settled
    <3> QED BY <2>1, <3>1, <3>2
  <2> QED BY <2>2, <2>3, <2>4
<1>4. profiles = T
  <2>1. DOMAIN new = {}
    BY <1>3
  <2> HIDE DEF catalogs, new
  <2> QED BY <1>2, <2>1, WithBackupsNothing
<1> HIDE DEF profiles
<1>5. ASSUME ~single PROVE moved = T /\ text = Text(T)
  <2>1. Settled(T, offered) /\ text = Text(T)
    BY <1>5 DEF CodexAtRest
  <2>2. Superseded(T, offered) = {} /\ Stale(T, offered) = {}
    <3>1. Superseded(T, offered) = {}
      BY <2>1 DEF Settled, Superseded
    <3>2. {p \in Routed \ DOMAIN offered : Managed(T, Canon(p))} = {}
      BY <2>1 DEF Settled
    <3>3. Stale(T, offered) = {}
      BY <3>2 DEF Stale
    <3> QED BY <3>1, <3>3
  <2>3. moved = Archived(T, {})
    BY <1>4, <2>2
  <2> QED BY <2>1, <2>3, ArchivedNothing
<1> HIDE DEF moved, text, final
<1> QED BY <1>1, <1>4, <1>5

\* What a Codex run stages is at rest ...
LEMMA CodexStagedRests ==
    ASSUME second \in Nat, NEW S, Fine(S, second), IsText(S), NEW offered, DOMAIN offered \subseteq Routed,
           NEW single \in BOOLEAN, ~CodexRefused(S, offered, single)
    PROVE  /\ Whole(CodexStaged(S, offered, single))
           /\ single \/ ~Legacy(Text(S)) => CodexAtRest(CodexStaged(S, offered, single), offered, single)
<1> DEFINE T == CodexStaged(S, offered, single)
           prefixes == DOMAIN offered
           old == Text(S)
           text == Rewritten(old, prefixes)
<1>1. Whole(T)
  <2>1. \A R, files : Whole(WithBackups(R, files))
    BY PatchWhole DEF WithBackups
  <2>2. \A R, gone : Whole(Archived(R, gone))
    BY PatchWhole DEF Archived
  <2> QED BY <2>1, <2>2 DEF CodexStaged
<1>2. /\ \A q \in Live(offered) : Served(T, offered, q)
      /\ TextIs(S, T, offered, single)
      /\ single \/ Settled(T, offered)
  BY CodexKeeps
<1> HIDE DEF T
<1>3. \/ Same(S, T, Config) /\ (single \/ text = Text(S))
      \/ ~single /\ Config \in DOMAIN T /\ T[Config] = File("user", text, FALSE)
  BY <1>2 DEF TextIs
<1>4. ASSUME ~single, ~Legacy(old) PROVE Rewritten(text, prefixes) = text
  <2>1. ~IsLink(S, Config) /\ ~RewriteRefused(old)
    BY <1>4 DEF CodexRefused, FilesRefused, IsLink
  <2>2. \E L : old \in Seq(L)
    <3>1. <<>> \in Seq({})
      OBVIOUS
    <3> QED BY <2>1, <3>1 DEF IsText, Text
  <2>3. PICK L : old \in Seq(L)
    BY <2>2
  <2>4. IsFiniteSet(prefixes)
    BY FilesOK, FS_Subset
  <2> HIDE DEF old, prefixes
  <2> QED BY <1>4, <2>1, <2>3, <2>4, RewrittenAgain DEF text
<1> HIDE DEF text
<1>5. ASSUME ~single PROVE Text(T) = text
  <2>1. CASE Same(S, T, Config) /\ text = Text(S)
    BY <2>1 DEF Same, Text
  <2>2. CASE Config \in DOMAIN T /\ T[Config] = File("user", text, FALSE)
    BY <2>2 DEF Text, File
  <2> QED BY <1>3, <1>5, <2>1, <2>2
<1>6. single \/ ~Legacy(old) => CodexAtRest(T, offered, single)
  BY <1>2, <1>4, <1>5 DEF CodexAtRest
<1> QED BY <1>1, <1>6 DEF T

\* The launchers run the claude that is found, and there is nothing to repair.
ClaudeAtRest(T, path) ==
    /\ \A l \in Launchers : /\ Launcher(l) \in DOMAIN T
                            /\ T[Launcher(l)] = LauncherFile(l, RealClaude(T, path))
    /\ Settings \in DOMAIN T => T[Settings] = File("user", Repaired(T[Settings].says), FALSE)

LEMMA ClaudeRests ==
    ASSUME NEW T, Whole(T), NEW path, ClaudeAtRest(T, path)
    PROVE  ClaudeStaged(T, path) = T
<1> DEFINE launchers == [x \in {Launcher(l) : l \in Launchers} |-> LauncherFile(x[2], RealClaude(T, path))]
           repaired == File("user", Repaired(T[Settings].says), FALSE)
           settings == IF Settings \notin DOMAIN T \/ T[Settings] = repaired THEN <<>>
                       ELSE [x \in {Settings, FreeName(T, "backup", Settings)} |->
                               IF x = Settings THEN repaired ELSE T[Settings]]
<1>1. ClaudeStaged(T, path) = Patch(Patch(T, {}, settings), {}, launchers)
  BY DEF ClaudeStaged
<1>2. DOMAIN settings = {}
  <2>1. settings = <<>>
    BY DEF ClaudeAtRest
  <2> HIDE DEF settings
  <2> QED BY <2>1
<1>3. ASSUME NEW x \in DOMAIN launchers PROVE x \in DOMAIN T /\ T[x] = launchers[x]
  <2>1. PICK l \in Launchers : x = Launcher(l)
    BY <1>3
  <2>2. launchers[x] = LauncherFile(l, RealClaude(T, path))
    BY <2>1 DEF Launcher
  <2> QED BY <2>1, <2>2 DEF ClaudeAtRest
<1> HIDE DEF settings, launchers
<1>4. Patch(T, {}, settings) = T
  BY <1>2, PatchSame
<1> QED BY <1>1, <1>3, <1>4, PatchSame

\* Nothing is left to repair in repaired settings.
LEMMA RepairedAgain == ASSUME NEW old PROVE Repaired(Repaired(old)) = Repaired(old)
<1> DEFINE new == Repaired(old)
           routed == Has(new, "base", "reverso")
           tagged == "headers" \in DOMAIN new /\ "reverso" \in new["headers"]
           gone == {key \in DOMAIN new :
                      \/ key \in {"base", "small"} /\ routed
                      \/ key = "token" /\ new[key] = "reverso"
                      \/ key = "discovery" /\ (routed \/ tagged)
                      \/ key = "headers" /\ new[key] = {"reverso"}
                      \/ key = "marker"
                      \/ key = "model" /\ "marker" \in DOMAIN new /\ new[key] = "broken"}
           values == [key \in DOMAIN new |-> IF key = "headers" THEN new[key] \ {"reverso"} ELSE new[key]]
<1>1. ~routed /\ ~Has(new, "token", "reverso") /\ ~tagged
  BY RepairedIs
<1>2. /\ "marker" \notin DOMAIN new /\ new = [key \in DOMAIN new |-> new[key]]
      /\ "headers" \in DOMAIN new => new["headers"] = old["headers"] \ {"reverso"}
  BY DEF Repaired
<1>3. Repaired(new) = [key \in DOMAIN new \ gone |-> IF key = "headers" THEN new[key] \ {"reverso"} ELSE new[key]]
  BY DEF Repaired
<1> HIDE DEF new
<1>4. gone = {}
  BY <1>1, <1>2 DEF Has
<1>5. \A key \in DOMAIN new : new[key] = IF key = "headers" THEN new[key] \ {"reverso"} ELSE new[key]
  <2>1. (old["headers"] \ {"reverso"}) \ {"reverso"} = old["headers"] \ {"reverso"}
    OBVIOUS
  <2> QED BY <1>2, <2>1
<1>6. Repaired(new) = values
  <2> HIDE DEF gone
  <2>1. DOMAIN new \ gone = DOMAIN new
    BY <1>4
  <2> QED BY <1>3, <2>1
<1>7. values = [key \in DOMAIN new |-> new[key]]
  BY <1>5
<1> QED BY <1>2, <1>6, <1>7 DEF new

\* ... and so is what a run of Claude Code's sync stages: its launchers were the sync's
\* or absent, so that the same claude is found.
LEMMA ClaudeStagedRests ==
    ASSUME second \in Nat, NEW S, Fine(S, second), NEW path \in PathEntries, ~ClaudeRefused(S, path)
    PROVE  Whole(ClaudeStaged(S, path)) /\ ClaudeAtRest(ClaudeStaged(S, path), path)
<1> DEFINE c == RealClaude(S, path)
           launchers == [x \in {Launcher(l) : l \in Launchers} |-> LauncherFile(x[2], c)]
           repaired == File("user", Repaired(S[Settings].says), FALSE)
           y == FreeName(S, "backup", Settings)
           settings == IF Settings \notin DOMAIN S \/ S[Settings] = repaired THEN <<>>
                       ELSE [x \in {Settings, y} |-> IF x = Settings THEN repaired ELSE S[Settings]]
           tidied == Patch(S, {}, settings)
           T == ClaudeStaged(S, path)
<1>1. T = Patch(tidied, {}, launchers)
  BY DEF ClaudeStaged
<1>2. /\ \A x \in DOMAIN launchers : x[1] = "launcher" /\ \E l \in Launchers : x = Launcher(l)
      /\ \A l \in Launchers : /\ Launcher(l) \in DOMAIN launchers
                              /\ launchers[Launcher(l)] = LauncherFile(l, c)
  BY DEF Launcher
<1>3. y[1] = "backup" /\ Settings[1] = "settings"
  <2>1. \E n \in Nat : y = <<"backup", Settings, second, n>>
    BY FreeNameIs DEF Fine
  <2>2. Settings[1] = "settings"
    BY DEF Settings
  <2> HIDE DEF y
  <2> QED BY <2>1, <2>2
<1> HIDE DEF y
<1>4. \/ DOMAIN settings = {} /\ (Settings \in DOMAIN S => S[Settings] = repaired)
      \/ DOMAIN settings = {Settings, y} /\ settings[Settings] = repaired /\ Settings \in DOMAIN S
  <2>1. DOMAIN <<>> = {} /\ Settings # y
    BY <1>3
  <2> QED BY <2>1
<1>5. File("user", Repaired(repaired.says), FALSE) = repaired
  BY RepairedAgain DEF File
<1> HIDE DEF settings, launchers, repaired
<1>6. Patched(tidied, S, {}, settings) /\ Patched(T, tidied, {}, launchers) /\ Whole(T)
  BY <1>1, PatchIs, PatchWhole
<1> HIDE DEF tidied, T
<1>7. Settings \in DOMAIN T => T[Settings] = repaired
  <2>1. Same(tidied, T, Settings)
    BY <1>2, <1>3, <1>6 DEF Patched
  <2>2. Settings \in DOMAIN tidied => tidied[Settings] = repaired
    <3>1. CASE DOMAIN settings = {}
      BY <1>4, <1>6, <3>1 DEF Patched, Same
    <3>2. CASE DOMAIN settings # {}
      BY <1>4, <1>6, <3>2 DEF Patched
    <3> QED BY <3>1, <3>2
  <2> QED BY <2>1, <2>2 DEF Same
<1>8. \A l \in Launchers : Launcher(l) \in DOMAIN T /\ T[Launcher(l)] = LauncherFile(l, c)
  BY <1>2, <1>6 DEF Patched
<1> HIDE DEF c
<1>9. RealClaude(T, path) = c
  <2>1. ASSUME NEW x, x[1] = "launcher"
        PROVE  (x \in DOMAIN S /\ ~Managed(S, x)) <=> (x \in DOMAIN T /\ ~Managed(T, x))
    <3>1. CASE x \in DOMAIN launchers
      <4>1. PICK l \in Launchers : x = Launcher(l)
        BY <1>2, <3>1
      <4>2. x \in DOMAIN S => Managed(S, x)
        BY <4>1 DEF ClaudeRefused
      <4>3. Managed(T, x)
        <5>1. LauncherFile(l, c).owner = "reverso"
          BY DEF LauncherFile, File
        <5>2. x \in DOMAIN T /\ T[x] = LauncherFile(l, c)
          BY <1>8, <4>1
        <5> QED BY <5>1, <5>2 DEF Managed
      <4> QED BY <4>2, <4>3
    <3>2. CASE x \notin DOMAIN launchers
      <4>1. x \notin DOMAIN settings
        BY <1>3, <1>4, <2>1
      <4>2. Same(S, T, x)
        BY <1>6, <3>2, <4>1 DEF Patched, Same
      <4> QED BY <4>2 DEF Same, Managed
    <3> QED BY <3>1, <3>2
  <2> DEFINE usable(R) == {i \in DOMAIN path : path[i][1] = "launcher" => path[i] \in DOMAIN R /\ ~Managed(R, path[i])}
  <2>2. usable(S) = usable(T)
    BY <2>1
  <2>3. /\ c = IF usable(S) = {} THEN None ELSE path[Min(usable(S))]
        /\ RealClaude(T, path) = IF usable(T) = {} THEN None ELSE path[Min(usable(T))]
    BY DEF RealClaude, c
  <2> HIDE DEF usable
  <2> QED BY <2>2, <2>3
<1>10. ClaudeAtRest(T, path)
  BY <1>5, <1>7, <1>8, <1>9 DEF ClaudeAtRest
<1> QED BY <1>6, <1>10 DEF T

\* A run of the Codex sync that found nothing of the older versions, one for a single
\* provider and one of Claude Code's sync stage files that are at rest.
RestOK(r) ==
    r.phase \in {"writing", "done"} =>
        /\ Whole(r.staged)
        /\ r.mode = "claude" => ClaudeAtRest(r.staged, r.input)
        /\ r.mode # "claude" /\ (r.mode = "provider" \/ ~Legacy(Text(r.seen))) =>
              CodexAtRest(r.staged, r.input, r.mode = "provider")

RestInv == ClientInv /\ Whole(disk) /\ RestOK(run)

LEMMA IdleRests == ASSUME run' = Idle PROVE RestOK(run')
BY DEF RestOK, Idle

LEMMA StagedRests == ASSUME RestInv, StageCodex \/ StageClaude PROVE RestOK(run')
<1>0. second \in Nat /\ run.phase = "staging" /\ Fine(run.seen, second) /\ IsText(run.seen) /\ RunIs(run)
  BY DEF StageCodex, StageClaude, RestInv, ClientInv, KeepInv, KeepOK, ClientOK
<1>1. ASSUME NEW input, NEW refused, NEW staged, Stage(input, refused, staged), Whole(staged),
             run.mode = "claude" => ClaudeAtRest(staged, input),
             run.mode # "claude" /\ (run.mode = "provider" \/ ~Legacy(Text(run.seen))) =>
                CodexAtRest(staged, input, run.mode = "provider")
      PROVE  RestOK(run')
  <2>1. CASE refused
    BY <1>1, <2>1, IdleRests DEF Stage, Refused
  <2>2. CASE ~refused
    <3>1. run' = [mode |-> run.mode, phase |-> "writing", seen |-> run.seen, staged |-> staged,
                  input |-> input, written |-> run.written, calm |-> run.calm]
      BY <1>0, <1>1, <2>2 DEF Stage, RunIs
    <3>2. run'.mode = run.mode /\ run'.seen = run.seen /\ run'.staged = staged /\ run'.input = input
      BY <3>1
    <3> QED BY <1>1, <3>2 DEF RestOK
  <2> QED BY <2>1, <2>2
<1>2. Refused => RestOK(run')
  BY IdleRests DEF Refused
<1>3. CASE StageCodex
  <2> DEFINE single == run.mode = "provider"
  <2>1. PICK offered \in Discovered :
          LET staged == CodexStaged(run.seen, offered, single)
          IN IF \/ \E p \in DOMAIN offered \ Optional : offered[p] = <<>>
                \/ CodexRefused(run.seen, offered, single)
             THEN Refused
             ELSE Stage(offered, Differ(run.seen, staged) \cap Differ(run.seen, disk) # {}, staged)
    BY <1>3 DEF StageCodex
  <2>2. CASE CodexRefused(run.seen, offered, single)
    BY <1>2, <2>1, <2>2
  <2>3. CASE ~CodexRefused(run.seen, offered, single)
    <3> DEFINE staged == CodexStaged(run.seen, offered, single)
    <3>1. single \in BOOLEAN /\ DOMAIN offered \subseteq Routed
      BY DiscoveredAreRouted
    <3>2. /\ Whole(staged)
          /\ single \/ ~Legacy(Text(run.seen)) => CodexAtRest(staged, offered, single)
      <4> HIDE DEF single
      <4> QED BY <1>0, <2>3, <3>1, CodexStagedRests
    <3>3. run.mode # "claude"
      BY <1>3 DEF StageCodex
    <3>4. Refused \/ Stage(offered, Differ(run.seen, staged) \cap Differ(run.seen, disk) # {}, staged)
      BY <2>1
    <3> HIDE DEF staged
    <3> QED BY <1>1, <1>2, <3>2, <3>3, <3>4
  <2> QED BY <2>2, <2>3
<1>4. CASE StageClaude
  <2>1. PICK path \in PathEntries :
          IF ClaudeRefused(run.seen, path) THEN Refused
          ELSE Stage(path, FALSE, ClaudeStaged(run.seen, path))
    BY <1>4 DEF StageClaude
  <2>2. CASE ClaudeRefused(run.seen, path)
    BY <1>2, <2>1, <2>2
  <2>3. CASE ~ClaudeRefused(run.seen, path)
    <3> DEFINE staged == ClaudeStaged(run.seen, path)
    <3>1. Whole(staged) /\ ClaudeAtRest(staged, path)
      BY <1>0, <2>3, ClaudeStagedRests
    <3>2. run.mode = "claude" /\ Stage(path, FALSE, staged)
      BY <1>4, <2>1, <2>3 DEF StageClaude
    <3> HIDE DEF staged
    <3> QED BY <1>1, <3>1, <3>2
  <2> QED BY <2>2, <2>3
<1> QED BY <1>3, <1>4

LEMMA RestStep == ASSUME RestInv, [FilesNext]_filesVars PROVE RestInv'
<1>1. ClientInv'
  BY ClientStep DEF RestInv
<1>2. RunIs(run)
  BY DEF RestInv, ClientInv, KeepInv, KeepOK
<1>3. Whole(disk)'
  <2>1. disk' = disk \/ \E gone, new : disk' = Patch(disk, gone, new)
    BY DEF FilesNext, filesVars, Start, StageCodex, StageClaude, Stage, Refused, Write, Finish, Undo, Kill, Edit
  <2> QED BY <2>1, PatchWhole DEF RestInv, Whole
<1>4. RestOK(run')
  <2>1. CASE UNCHANGED filesVars
    BY <2>1 DEF filesVars, RestInv
  <2>2. ASSUME NEW mode, Start(mode) PROVE RestOK(run')
    BY <2>2 DEF Start, Idle, RestOK
  <2>3. ASSUME Finish PROVE RestOK(run')
    <3>1. run' = [run EXCEPT !.phase = "done"] /\ run.phase = "writing"
      BY <2>3 DEF Finish
    <3>2. run'.mode = run.mode /\ run'.seen = run.seen /\ run'.staged = run.staged /\ run'.input = run.input
      BY <1>2, <3>1 DEF RunIs
    <3> QED BY <3>1, <3>2 DEF RestInv, RestOK
  <2>4. ASSUME Write PROVE RestOK(run')
    <3>1. run' = [run EXCEPT !.written = @ \cup {NextPath}] /\ run.phase = "writing"
      BY <2>4 DEF Write
    <3>2. run'.mode = run.mode /\ run'.seen = run.seen /\ run'.staged = run.staged /\ run'.input = run.input
      BY <1>2, <3>1 DEF RunIs
    <3> QED BY <3>1, <3>2 DEF RestInv, RestOK
  <2>5. ASSUME NEW x, NEW file, Edit(x, file) PROVE RestOK(run')
    <3>1. run' = [run EXCEPT !.calm = FALSE]
      BY <2>5 DEF Edit
    <3>2. /\ run'.mode = run.mode /\ run'.phase = run.phase /\ run'.seen = run.seen
          /\ run'.staged = run.staged /\ run'.input = run.input
      BY <1>2, <3>1 DEF RunIs
    <3> QED BY <3>2 DEF RestInv, RestOK
  <2>6. Undo \/ Kill => RestOK(run')
    BY IdleRests DEF Undo, Kill
  <2> QED BY <2>1, <2>2, <2>3, <2>4, <2>5, <2>6, StagedRests DEF FilesNext
<1> QED BY <1>1, <1>3, <1>4 DEF RestInv

LEMMA RestInvariance == FilesSpec => []RestInv
<1>1. FilesInit => Whole(disk) /\ RestOK(run)
  BY StartFilesOK DEF FilesInit, Whole, RestOK, Idle
<1>2. RestInv /\ [FilesNext]_filesVars => RestInv'
  BY RestStep
<1>3. FilesSpec /\ []ClientInv => []RestInv
  <2>1. FilesInit /\ ClientInv => RestInv
    BY <1>1 DEF RestInv
  <2> QED BY <1>2, <2>1, PTL DEF FilesSpec
<1> QED BY <1>3, ClientInvariance, PTL

LEMMA NothingNew == ASSUME RestInv PROVE AgainChangesNothing
<1> SUFFICES ASSUME run.phase = "done", run.calm, ~Legacy(Text(run.seen)) PROVE Again = disk
  BY DEF AgainChangesNothing, Converged
<1>1. \A x : Same(disk, run.staged, x)
  BY NothingElseWas DEF RestInv, ClientInv
<1>2. Whole(disk) /\ Whole(run.staged)
  BY DEF RestInv, RestOK
<1>3. disk = run.staged
  <2>1. DOMAIN disk = DOMAIN run.staged
    BY <1>1 DEF Same
  <2>2. \A x \in DOMAIN disk : disk[x] = run.staged[x]
    BY <1>1 DEF Same
  <2>3. [x \in DOMAIN disk |-> disk[x]] = [x \in DOMAIN run.staged |-> run.staged[x]]
    BY <2>1, <2>2
  <2> QED BY <1>2, <2>3 DEF Whole
<1>4. CASE run.mode = "claude"
  <2>1. ClaudeAtRest(disk, run.input)
    BY <1>3, <1>4 DEF RestInv, RestOK
  <2>2. ClaudeStaged(disk, run.input) = disk
    BY <1>2, <2>1, ClaudeRests
  <2> QED BY <1>4, <2>2 DEF Again
<1>5. CASE run.mode # "claude"
  <2> DEFINE single == run.mode = "provider"
  <2>1. single \in BOOLEAN /\ CodexAtRest(disk, run.input, single)
    BY <1>3, <1>5 DEF RestInv, RestOK
  <2>2. CodexStaged(disk, run.input, single) = disk
    <3> HIDE DEF single
    <3> QED BY <1>2, <2>1, CodexRests
  <2> QED BY <1>5, <2>2 DEF Again
<1> QED BY <1>4, <1>5

\* Whatever the gateway lists, whatever claude is on PATH and whatever state the files
\* are in, a run that ended well and undisturbed need not be followed by another: with
\* the same answers it would write no file and make no backup, unless config.toml had
\* something of the older versions, whose blocks may hide one another
\* (_sync_unlocked: "idempotent"; prepare_sync); and whatever config.toml says, no full
\* run leaves out a line of the user's, puts one elsewhere or repeats one (the module
\* docstring of codex_sync.py: "byte-faithful preservation").
THEOREM NothingNeedless == FilesSpec => []NoNeedlessChange
<1>1. RestInv => AgainChangesNothing
  BY NothingNew
<1> QED BY <1>1, RestInvariance, UsersLinesStay, PTL DEF NoNeedlessChange

=============================================================================
