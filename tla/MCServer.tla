------------------------------ MODULE MCServer ------------------------------
(* Two workers, two connections, two kinds of request.                       *)
EXTENDS ServerProcess

CONSTANTS w1, w2, c1, c2, browse, add
=============================================================================
