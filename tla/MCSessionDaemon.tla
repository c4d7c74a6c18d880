-------------------------- MODULE MCSessionDaemon --------------------------
(* Instances of SessionDaemon.  The safety run puts two unary requests and  *)
(* a streamed one on one Codex key; the liveness run gives a unary and a    *)
(* streamed request every choice of two keys, one of them never recycled.   *)
EXTENDS SessionDaemon, TLC

CONSTANTS r1, r2, r3

\* The unary requests are interchangeable, and the safety run checks no liveness.
UnarySymmetry == Permutations({r1, r2})
=============================================================================
