------------------------- MODULE MCResponsesGateway -------------------------
(* Instances of ResponsesGateway: two requests, so that one can name the    *)
(* other's response while it is still being streamed.                       *)
EXTENDS ResponsesGateway

CONSTANTS r1, r2
=============================================================================
