------------------------------ MODULE MCChatNode ------------------------------
(***************************************************************************)
(* ChatNode with what TLC needs: messages, texts and sockets are           *)
(* interchangeable, so the runs without a liveness property may identify   *)
(* states that differ only in their names.                                 *)
(***************************************************************************)
EXTENDS ChatNode, TLC

Symmetry ==
    Permutations(Outgoing) \cup Permutations(Texts) \cup Permutations(Sockets)
=============================================================================
