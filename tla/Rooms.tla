--------------------------------- MODULE Rooms ---------------------------------
(***************************************************************************)
(* The rooms of one node (server.py): who sits where, joining under the    *)
(* capacity, and the fan-out of a text over the members of a room, one     *)
(* write after the other, in the sender's handler or in the read loop of   *)
(* the link a text came over.                                              *)
(*                                                                         *)
(* ChatNode has what happens to a message once it is in an outbox.  The    *)
(* node stops in an orderly way, so a queued save_session is a saved one,  *)
(* and a session is recovered by one handler at a time.                    *)
(***************************************************************************)
EXTENDS Naturals, FiniteSets, SequencesExt

CONSTANTS Members,     \* sessions
          RoomIds, General,
          Capacity,    \* max_capacity, the same for all rooms
          Messages, Sockets,
          Links,       \* mesh links to peers, each made once
          NoRoom, NoMember, NoSocket, NoSpeaker,
          MaxFaults    \* broken sockets and restarts

ASSUME RoomsAssumption ==
    /\ General \in RoomIds /\ NoRoom \notin RoomIds /\ NoMember \notin Members
    /\ Links \cap Sockets = {} /\ NoSocket \notin Sockets /\ NoSpeaker \notin Sockets \cup Links
    /\ IsFiniteSet(Members) /\ Capacity \in Nat /\ MaxFaults \in Nat

VARIABLES room,      \* [Members -> room_id of the loaded session, or NoRoom]
          saved,     \* [Members -> room_id in the sessions table, or NoRoom]
          conn,      \* _connections: [Members -> Sockets or NoSocket]
          sock,      \* [Sockets -> session, stage of the handler, room asked for]
          cut,       \* sockets that are broken, links that are gone
          fans,      \* fan-outs under way: who runs it, the text, the recipients left
          box,       \* [Members -> texts that were given a seq, in their order]
          said,      \* texts broadcast, in their order
          faults,
          by,        \* history: [Messages -> who broadcast it]
          audience,  \* history: [Messages -> sessions in the room when it was broadcast]
          came,      \* history: [Members -> how it got to its seat: login or join]
          joined     \* history: [Members -> room it last moved to]

seats == <<room, saved, conn, came, joined>>
texts == <<fans, box, said, by, audience>>
vars == <<seats, sock, cut, texts, faults>>

NoHandler == [sid |-> NoMember, stage |-> "new", want |-> NoRoom]
Over == [NoHandler EXCEPT !.stage = "closed"]

Init ==
    /\ room = [s \in Members |-> NoRoom] /\ saved = [s \in Members |-> NoRoom]
    /\ conn = [s \in Members |-> NoSocket]
    /\ sock = [k \in Sockets |-> NoHandler] /\ cut = {}
    /\ fans = {} /\ box = [s \in Members |-> <<>>] /\ said = <<>> /\ faults = 0
    /\ by = [m \in Messages |-> NoSpeaker] /\ audience = [m \in Messages |-> {}]
    /\ came = [s \in Members |-> "login"] /\ joined = [s \in Members |-> NoRoom]

Fault == faults < MaxFaults /\ faults' = faults + 1
To(k, stage) == sock' = [sock EXCEPT ![k].stage = stage]
Ends(k) == sock' = [sock EXCEPT ![k] = Over] /\ cut' = cut \ {k}
Dead(k) == k \in cut \/ sock[k] = Over
SessionIdsInRoom(r) == {s \in Members : room[s] = r}
ConnectedInRoom(r) == {s \in SessionIdsInRoom(r) : conn[s] # NoSocket}

----------------------------------------------------------------------------
\* Connections

\* The handshake registers the connection, then loads the session.
Hello(k, s) ==
    /\ sock[k].stage = "new" /\ \A j \in Sockets : sock[j].sid = s => sock[j].stage # "recover"
    /\ sock' = [sock EXCEPT ![k] =
          [@ EXCEPT !.sid = s, !.stage = IF room[s] = NoRoom THEN "recover" ELSE "answer"]]
    /\ conn' = [conn EXCEPT ![s] = k]
    /\ came' = [came EXCEPT ![s] = "login"]
    /\ UNCHANGED <<room, saved, joined, cut, texts, faults>>

\* A session without a record starts in the room a HELLO names, after LOGIN in
\* General; no capacity is looked at.
Recover(k, r) ==
    LET s == sock[k].sid IN
    /\ sock[k].stage = "recover"
    /\ room' = [room EXCEPT ![s] = IF saved[s] = NoRoom THEN r ELSE saved[s]]
    /\ To(k, "answer")
    /\ UNCHANGED <<saved, conn, came, joined, cut, texts, faults>>

\* LOGIN_ACK or HELLO_ACK.  If it cannot be written, _handle_client does not
\* know the session yet and its cleanup only closes the socket.
Answer(k) ==
    /\ sock[k].stage = "answer"
    /\ IF k \in cut THEN Ends(k) ELSE To(k, "reading") /\ UNCHANGED cut
    /\ UNCHANGED <<seats, texts, faults>>

\* The page leaves, the network drops the connection, or a newer connection of
\* the session has this one closed.
Break(k) ==
    /\ sock[k] \notin {NoHandler, Over} /\ k \notin cut
    /\ cut' = cut \cup {k} /\ Fault
    /\ UNCHANGED <<seats, sock, texts>>

Vacated(k) == [s \in Members |-> IF conn[s] = k THEN NoSocket ELSE conn[s]]

\* The read loop ends; a newer connection's entry stays.
Cleanup(k) ==
    /\ sock[k].stage = "reading" /\ k \in cut
    /\ conn' = Vacated(k) /\ Ends(k)
    /\ UNCHANGED <<room, saved, came, joined, texts, faults>>

\* stop() and a new start: what is queued is written, the rest is gone.
Restart ==
    /\ Fault
    /\ room' = [s \in Members |-> NoRoom] /\ conn' = [s \in Members |-> NoSocket]
    /\ sock' = [k \in Sockets |-> IF sock[k] = NoHandler THEN NoHandler ELSE Over]
    /\ cut' = Links /\ fans' = {}
    /\ UNCHANGED <<saved, came, joined, box, said, by, audience>>

----------------------------------------------------------------------------
\* Joining

\* _handle_join_room reads the rooms table before it counts.
JoinRoom(k, r) ==
    /\ sock[k].stage = "reading"
    /\ sock' = [sock EXCEPT ![k] = [@ EXCEPT !.stage = "joining", !.want = r]]
    /\ UNCHANGED <<seats, cut, texts, faults>>

\* Faulty variant: the room is full with one more than its capacity.
FullWithOneMore(r) == Cardinality(ConnectedInRoom(r)) > Capacity
Full(r) == Cardinality(ConnectedInRoom(r)) >= Capacity

\* Faulty variant: a row that is there keeps its room.
FirstRoomSaved(s, r) == [saved EXCEPT ![s] = IF @ = NoRoom THEN r ELSE @]
SaveRoom(s, r) == [saved EXCEPT ![s] = r]

Joined(k) ==
    LET s == sock[k].sid  r == sock[k].want IN
    /\ sock[k].stage = "joining"
    /\ sock' = [sock EXCEPT ![k] = [@ EXCEPT !.stage = "reading", !.want = NoRoom]]
    /\ \/ (room[s] = r \/ Full(r)) /\ UNCHANGED <<room, saved, came, joined>>
       \/ /\ room[s] # r /\ ~Full(r)
          /\ room' = [room EXCEPT ![s] = r] /\ saved' = SaveRoom(s, r)
          /\ came' = [came EXCEPT ![s] = "join"] /\ joined' = [joined EXCEPT ![s] = r]
    /\ UNCHANGED <<conn, cut, texts, faults>>

----------------------------------------------------------------------------
\* Texts

SaveRooms(ss) == [s \in Members |-> IF s \in ss THEN room[s] ELSE saved[s]]

Broadcast(b, m, r, to) ==
    /\ m \notin ToSet(said) /\ said' = Append(said, m)
    /\ by' = [by EXCEPT ![m] = b] /\ audience' = [audience EXCEPT ![m] = to]
    /\ fans' = fans \cup {[by |-> b, msg |-> m, left |-> to]}

\* A text of the page: everyone loaded in its session's room but the session.
Say(k, m) ==
    LET s == sock[k].sid IN
    /\ sock[k].stage = "reading"
    /\ Broadcast(k, m, room[s], SessionIdsInRoom(room[s]) \ {s})
    /\ saved' = SaveRooms({s}) /\ To(k, "sending")
    /\ UNCHANGED <<room, conn, came, joined, cut, box, faults>>

\* A RELAY from a peer, whose author no session of this node is called after.
Relayed(l, m, r) ==
    /\ l \notin cut /\ \A f \in fans : f.by # l
    /\ Broadcast(l, m, r, SessionIdsInRoom(r))
    /\ UNCHANGED <<seats, sock, cut, box, faults>>

\* Faulty variant: a failed write ends the fan-out, not the handler.
GoesOn(b) == /\ IF b \in Links THEN UNCHANGED sock ELSE To(b, "reading")
             /\ UNCHANGED <<conn, cut>>
\* A failed write ends the sender's handler or the link.
Dies(b) == IF b \in Links THEN cut' = cut \cup {b} /\ UNCHANGED <<conn, sock>>
           ELSE Ends(b) /\ conn' = Vacated(b)

\* send_message and, if the recipient has a connection, the write to it.
FanOut(f, s) ==
    LET k == conn[s] IN
    /\ s \in f.left
    /\ box' = [box EXCEPT ![s] = Append(@, f.msg)] /\ saved' = SaveRooms({s})
    /\ \/ /\ k # NoSocket => sock[k] # Over
          /\ fans' = (fans \ {f}) \cup {[f EXCEPT !.left = @ \ {s}]}
          /\ UNCHANGED <<conn, sock, cut>>
       \/ k # NoSocket /\ Dead(k) /\ fans' = fans \ {f} /\ Dies(f.by)
    /\ UNCHANGED <<room, came, joined, said, by, audience, faults>>

FanDone(f) ==
    /\ f.left = {} /\ fans' = fans \ {f}
    /\ IF f.by \in Links THEN UNCHANGED sock ELSE To(f.by, "reading")
    /\ UNCHANGED <<seats, cut, box, said, by, audience, faults>>

Next ==
    \/ \E k \in Sockets :
        \/ \E s \in Members : Hello(k, s)
        \/ \E r \in RoomIds : Recover(k, r) \/ JoinRoom(k, r)
        \/ Answer(k) \/ Break(k) \/ Cleanup(k) \/ Joined(k)
        \/ \E m \in Messages : Say(k, m)
    \/ \E l \in Links, m \in Messages, r \in RoomIds : Relayed(l, m, r)
    \/ \E f \in fans : FanDone(f) \/ \E s \in Members : FanOut(f, s)
    \/ Restart

Spec == Init /\ [][Next]_vars
----------------------------------------------------------------------------
\* Properties

\* A room holds more connected members than its capacity only through those who
\* came back by LOGIN or HELLO: whoever joined found a seat.
JoinersFit == \A r \in RoomIds :
    Cardinality({s \in ConnectedInRoom(r) : came[s] = "join"}) <= Capacity

\* Room membership survives disconnects and restarts (server.py:43-46): a loaded
\* session is in the room it last moved to.
RoomSurvives == \A s \in Members :
    room[s] # NoRoom /\ joined[s] # NoRoom => room[s] = joined[s]

Before(s, m, n) == \E i, j \in 1 .. Len(box[s]) : i < j /\ box[s][i] = m /\ box[s][j] = n

\* Of the texts of one connection, a page's or a peer's, nobody gets a later
\* one without the earlier ones that were meant for him, and in their order.
NothingSkipped == \A i, j \in 1 .. Len(said) :
    LET m == said[i]  n == said[j] IN
    i < j /\ by[m] = by[n] =>
        \A s \in audience[m] : n \in ToSet(box[s]) => Before(s, m, n)
=============================================================================
