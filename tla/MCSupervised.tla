---------------------------- MODULE MCSupervised ----------------------------
(***************************************************************************)
(* The two supervisors that requests share: the login of kimi and the      *)
(* one-thread worker of the Headroom seam.  They have no state in common,  *)
(* so a behaviour takes the steps of one of them and the other is at rest. *)
(*                                                                         *)
(* Three callers, so that one can block on the cleanup of a login which    *)
(* two others shared and left; three requests, so that one can wait behind *)
(* an unfinished job while a third one is admitted or refused.             *)
(***************************************************************************)
EXTENDS KimiLogin, HeadroomWorker

CONSTANTS r1, r2, r3

VARIABLE part
supervisedVars == <<part, vars, seamVars>>

SupervisedInit == part \in {"login", "seam"} /\ Init /\ SeamInit

SupervisedNext ==
    /\ UNCHANGED part
    /\ \/ part = "login" /\ Next /\ UNCHANGED seamVars
       \/ part = "seam" /\ SeamNext /\ UNCHANGED vars

\* The fairness of KimiLogin and of HeadroomWorker, each while its steps are taken.
LoginStep(A) == part = "login" /\ A /\ UNCHANGED <<part, seamVars>>
SeamStep(A) == part = "seam" /\ A /\ UNCHANGED <<part, vars>>

SupervisedFairness ==
    /\ \A r \in Callers : /\ WF_supervisedVars(LoginStep(pc[r] # "away" /\ Await(r)))
                          /\ WF_supervisedVars(LoginStep(RunLogin(r)))
    /\ WF_supervisedVars(LoginStep(FinishCleanup)) /\ WF_supervisedVars(LoginStep(Shutdown))
    /\ \A r \in Requests : WF_supervisedVars(SeamStep(Loop(r)))
    /\ WF_supervisedVars(SeamStep(Pool))

SupervisedSpec == SupervisedInit /\ [][SupervisedNext]_supervisedVars /\ SupervisedFairness
=============================================================================
