--------------------------- MODULE MCArtiListener ---------------------------
(* Two circuits, one of which carries a request for another port and one    *)
(* for the right one, in either order; the other circuit is not concerned.  *)
EXTENDS ArtiListener

CONSTANTS wrong, after, other

MCRequests == {wrong, after, other}
MCCircuit == [r \in MCRequests |-> IF r = other THEN 2 ELSE 1]
MCRightPort == MCRequests \ {wrong}
=============================================================================
