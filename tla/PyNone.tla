------------------------------ MODULE PyNone -------------------------------
(* What stands for Python's None, and for an absent file or key, in the    *)
(* modules that are checked together.                                      *)
CONSTANT None
=============================================================================
