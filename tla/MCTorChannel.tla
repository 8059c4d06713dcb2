---------------------------- MODULE MCTorChannel ----------------------------
(***************************************************************************)
(* The payloads of a small instance of TorChannel: an empty message, one   *)
(* whose length needs both digits of the prefix, and one over the          *)
(* receiver's limit.                                                       *)
(***************************************************************************)
EXTENDS TorChannel

MCPayloads == {<<>>, <<1, 0, 0, 1, 0, 1>>, <<1, 0, 1, 0, 1, 0, 1>>}
=============================================================================
