---------------------------- MODULE MCClientSync ----------------------------
(* Instances of ClientSync: two providers, the operator's two commands and  *)
(* the scheduled refresh.                                                   *)
EXTENDS ClientSync, TLC

CONSTANTS operator, uninstaller, scheduler

Kinds == operator :> "apply" @@ uninstaller :> "uninstall" @@ scheduler :> "refresh"
=============================================================================
