---------------------------- MODULE MCMemNetwork ----------------------------
(***************************************************************************)
(* Two connects of a small instance of MemNetwork.                         *)
(***************************************************************************)
EXTENDS MemNetwork

CONSTANTS near1, far1, near2, far2

MCEnds == {near1, far1, near2, far2}
MCUsers == {near1, far1}
MCNear == {near1, near2}
MCPeer == [e \in MCEnds |->
  CASE e = near1 -> far1 [] e = far1 -> near1 [] e = near2 -> far2 [] e = far2 -> near2]
MCMaxSends == [e \in MCEnds |->
  CASE e = near1 -> 2 [] e = far1 -> 0 [] e = near2 -> 0 [] e = far2 -> 0]
=============================================================================
