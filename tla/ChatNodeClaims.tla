--------------------------- MODULE ChatNodeClaims ---------------------------
(***************************************************************************)
(* What session_state.py says of the numbering of messages and the node    *)
(* does not do.  A run of its own finds the behaviour that contradicts it. *)
(***************************************************************************)
EXTENDS ChatNode

\* A recovered session resumes numbering where it left off "instead of
\* restarting at 1 and colliding with seqs the client may have already seen"
\* (session_state.py:65-67).
SeqNotReused ==
    [][\A n \in Seqs : assigned'[n] # assigned[n] => assigned[n] \notin shown]_vars
=============================================================================
