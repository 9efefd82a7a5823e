------------------------------- MODULE MCMesh -------------------------------
(***************************************************************************)
(* The meshes TLC checks: a pair that dials each other, as peer lists are  *)
(* usually configured, and a ring of three nodes.  The line that ends in a *)
(* pair is there to be set in mesh.cfg in place of the ring.               *)
(***************************************************************************)
EXTENDS Mesh

CONSTANTS a, b, c

PairLinks == {<<a, b>>, <<b, a>>}
LineLinks == {<<a, b>>, <<b, c>>, <<c, b>>}
RingLinks == {<<a, b>>, <<b, c>>, <<c, a>>}

\* An id is known as long as fewer than size other ids have been touched since
\* it was touched last, and no longer: a relay is taken for new only if that
\* much other traffic came in between (seen_before, move_to_end and popitem).
\* Without a variable in it, it is stated of the steps.
ForgetsOldestOnly == [][KnowsTheLatest]_vars
=============================================================================
