------------------------------ MODULE MCRooms ------------------------------
(***************************************************************************)
(* The instances of Rooms for TLC, and what server.py says of the members  *)
(* of a room and does not do.                                              *)
(***************************************************************************)
EXTENDS Rooms, TLC

Symmetry == Permutations(Members) \cup Permutations(Sockets) \cup Permutations(Messages)

FanningOut(m) == \E f \in fans : f.msg = m
Running == \E s \in Members : room[s] # NoRoom

\* "Stale/disconnected sessions will get the message via outbox replay if they
\* reconnect" (server.py:875-876): when the fan-out of a text is over, other than
\* by the end of the node, everyone who was in the room has it in his outbox.
AllMembersGetIt ==
    [][\A m \in ToSet(said) : FanningOut(m) /\ ~FanningOut(m)' /\ Running' =>
          \A s \in audience[m] : m \in ToSet(box'[s])]_vars
=============================================================================
