----------------------------- MODULE MCBalancer -----------------------------
(***************************************************************************)
(* Balancer with what TLC needs: one --backend and one node that registers;*)
(* registrations, connections of clients and objects are interchangeable.  *)
(***************************************************************************)
EXTENDS Balancer, TLC

CONSTANTS x, y

Symmetry == Permutations(Regs) \cup Permutations(Clients)
=============================================================================
