----------------------------- MODULE RoomsProofs -----------------------------
(***************************************************************************)
(* Theorems about Rooms: whoever joins finds a seat, a session stays in    *)
(* the room it moved to, and nobody gets a text before the earlier ones of *)
(* its speaker, for any number of members, rooms, sockets, links and       *)
(* texts.                                                                  *)
(***************************************************************************)
EXTENDS Rooms, FiniteSetTheorems, SequenceTheorems, TLAPS

Rows == RoomIds \cup {NoRoom}
Handlers == [sid : Members \cup {NoMember},
             stage : {"new", "recover", "answer", "reading", "joining", "sending", "closed"},
             want : Rows]
Fans == [by : Sockets \cup Links, msg : Messages, left : SUBSET Members]

Types ==
    /\ room \in [Members -> Rows] /\ saved \in [Members -> Rows]
    /\ conn \in [Members -> Sockets \cup {NoSocket}]
    /\ sock \in [Sockets -> Handlers] /\ fans \subseteq Fans
    /\ came \in [Members -> {"login", "join"}] /\ joined \in [Members -> Rows]

Seated == {"answer", "reading", "joining", "sending"}

\* A handler past the recovery has its session loaded; one that recovers a
\* session is the only one that does, and nobody has joined with it.
HandlersSit == \A k \in Sockets : LET h == sock[k] IN
    /\ h.stage \in Seated => h.sid \in Members /\ room[h.sid] \in RoomIds
    /\ h.stage = "joining" => h.want \in RoomIds
    /\ h.stage = "recover" =>
          /\ h.sid \in Members /\ room[h.sid] = NoRoom /\ came[h.sid] = "login"
          /\ \A j \in Sockets : sock[j].stage = "recover" /\ sock[j].sid = h.sid => j = k

\* A speaker has one fan-out, over sessions that are loaded.
FansSit == \A f \in fans :
    /\ \A s \in f.left : room[s] \in RoomIds
    /\ f.by \in Sockets => sock[f.by].stage = "sending"
    /\ \A g \in fans : g.by = f.by => g = f

\* The row of a session is in the room the session last moved to.
RowsKeep == \A s \in Members : joined[s] # NoRoom => saved[s] = joined[s]

RoomsInv == Types /\ HandlersSit /\ FansSit /\ RowsKeep /\ RoomSurvives

----------------------------------------------------------------------------
\* The invariant holds at the start, and every action keeps it.
LEMMA InvInit == Init => RoomsInv
  BY RoomsAssumption DEF Init, RoomsInv, Types, HandlersSit, FansSit, RowsKeep,
       RoomSurvives,
     Rows, Handlers, Fans, Seated, NoHandler

\* A handshake takes a fresh socket, which fans nothing out.
LEMMA HelloKeeps ==
    ASSUME RoomsInv, NEW k \in Sockets, NEW s \in Members, Hello(k, s)
    PROVE  RoomsInv'
<1>1. Types'
  <2> DEFINE next == IF room[s] = NoRoom THEN "recover" ELSE "answer"
  <2>1. sock[k] \in Handlers /\ next \in {"recover", "answer"}  BY DEF RoomsInv, Types
  <2>2. [sock[k] EXCEPT !.sid = s, !.stage = next] \in Handlers
    <3> HIDE DEF next
    <3> QED  BY <2>1 DEF Handlers
  <2>3. sock' = [sock EXCEPT ![k] = [sock[k] EXCEPT !.sid = s, !.stage = next]]
    BY DEF Hello, RoomsInv, Types
  <2>4. sock' \in [Sockets -> Handlers]  BY <2>2, <2>3 DEF RoomsInv, Types
  <2> QED  BY <2>4 DEF RoomsInv, Types, Hello, texts
<1>2. HandlersSit'
  BY DEF RoomsInv, Types, Rows, HandlersSit, Seated, Hello
<1>3. FansSit'
  <2>1. \A f \in fans : f.by # k  BY DEF RoomsInv, FansSit, Hello
  <2>2. \A j \in Sockets : j # k => sock'[j] = sock[j]  BY DEF RoomsInv, Types, Hello
  <2> QED  BY <2>1, <2>2 DEF RoomsInv, FansSit, Hello, texts
<1>4. RowsKeep'
  BY DEF RoomsInv, RowsKeep, Hello
<1>5. RoomSurvives'
  BY DEF RoomsInv, RoomSurvives, Hello
<1> QED  BY <1>1, <1>2, <1>3, <1>4, <1>5 DEF RoomsInv

\* The recovery puts the session into a room.
LEMMA RecoverKeeps ==
    ASSUME RoomsInv, NEW k \in Sockets, NEW r \in RoomIds, Recover(k, r)
    PROVE  RoomsInv'
<1>1. Types'
  BY DEF RoomsInv, Types, Rows, Handlers, Recover, To, texts
<1>2. HandlersSit'
  BY DEF RoomsInv, Types, Rows, HandlersSit, Recover, To
<1>3. FansSit'
  BY DEF RoomsInv, Types, Rows, FansSit, Recover, To, texts
<1>4. RowsKeep'
  BY DEF RoomsInv, RowsKeep, Recover
<1>5. RoomSurvives'
  BY DEF RoomsInv, RowsKeep, RoomSurvives, Recover
<1> QED  BY <1>1, <1>2, <1>3, <1>4, <1>5 DEF RoomsInv

\* An answer, written or not, moves its handler only.
LEMMA AnswerKeeps ==
    ASSUME RoomsInv, NEW k \in Sockets, Answer(k)
    PROVE  RoomsInv'
<1>1. Types'
  BY DEF RoomsInv, Types, Rows, Handlers, Answer, To, Ends, Over, NoHandler, seats,
       texts
<1>2. HandlersSit'
  BY DEF RoomsInv, Types, Handlers, HandlersSit, Seated, Answer, To, Ends, Over,
       NoHandler, seats
<1>3. FansSit'
  BY DEF RoomsInv, Types, FansSit, Answer, To, Ends, seats, texts
<1>4. RowsKeep'
  BY DEF RoomsInv, RowsKeep, Answer, seats
<1>5. RoomSurvives'
  BY DEF RoomsInv, RoomSurvives, Answer, seats
<1> QED  BY <1>1, <1>2, <1>3, <1>4, <1>5 DEF RoomsInv

\* A break only marks the socket.
LEMMA BreakKeeps ==
    ASSUME RoomsInv, NEW k \in Sockets, Break(k)
    PROVE  RoomsInv'
<1>1. Types'
  BY DEF RoomsInv, Types, Break, seats, texts
<1>2. HandlersSit'
  BY DEF RoomsInv, HandlersSit, Break, seats
<1>3. FansSit'
  BY DEF RoomsInv, FansSit, Break, seats, texts
<1>4. RowsKeep'
  BY DEF RoomsInv, RowsKeep, Break, seats
<1>5. RoomSurvives'
  BY DEF RoomsInv, RoomSurvives, Break, seats
<1> QED  BY <1>1, <1>2, <1>3, <1>4, <1>5 DEF RoomsInv

\* A cleanup gives up the registration, not the session.
LEMMA CleanupKeeps ==
    ASSUME RoomsInv, NEW k \in Sockets, Cleanup(k)
    PROVE  RoomsInv'
<1>1. Types'
  BY DEF RoomsInv, Types, Rows, Handlers, Cleanup, Vacated, Ends, Over, NoHandler, texts
<1>2. HandlersSit'
  BY DEF RoomsInv, HandlersSit, Seated, Cleanup, Ends, Over
<1>3. FansSit'
  BY DEF RoomsInv, FansSit, Cleanup, Ends, texts
<1>4. RowsKeep'
  BY DEF RoomsInv, RowsKeep, Cleanup
<1>5. RoomSurvives'
  BY DEF RoomsInv, RoomSurvives, Cleanup
<1> QED  BY <1>1, <1>2, <1>3, <1>4, <1>5 DEF RoomsInv

\* After a restart nothing is loaded, and no handler is left.
LEMMA RestartKeeps ==
    ASSUME RoomsInv, Restart
    PROVE  RoomsInv'
<1>1. Types'
  BY DEF RoomsInv, Types, Rows, Handlers, Restart, Over, NoHandler
<1>2. HandlersSit'
  BY DEF RoomsInv, HandlersSit, Seated, Restart, Over, NoHandler
<1>3. FansSit'
  BY DEF RoomsInv, FansSit, Restart
<1>4. RowsKeep'
  BY DEF RoomsInv, RowsKeep, Restart
<1>5. RoomSurvives'
  BY DEF RoomsInv, RoomSurvives, Restart
<1> QED  BY <1>1, <1>2, <1>3, <1>4, <1>5 DEF RoomsInv

\* Asking for a room moves the handler only.
LEMMA JoinRoomKeeps ==
    ASSUME RoomsInv, NEW k \in Sockets, NEW r \in RoomIds, JoinRoom(k, r)
    PROVE  RoomsInv'
<1>1. Types'
  <2>1. sock[k] \in Handlers  BY DEF RoomsInv, Types
  <2>2. [sock[k] EXCEPT !.stage = "joining", !.want = r] \in Handlers
    BY <2>1 DEF Handlers, Rows
  <2>3. sock' = [sock EXCEPT ![k] = [sock[k] EXCEPT !.stage = "joining", !.want = r]]
    BY DEF JoinRoom, RoomsInv, Types
  <2> QED  BY <2>2, <2>3 DEF RoomsInv, Types, JoinRoom, seats, texts
<1>2. HandlersSit'
  BY DEF RoomsInv, Types, HandlersSit, Seated, JoinRoom, seats
<1>3. FansSit'
  BY DEF RoomsInv, Types, FansSit, JoinRoom, seats, texts
<1>4. RowsKeep'
  BY DEF RoomsInv, RowsKeep, JoinRoom, seats
<1>5. RoomSurvives'
  BY DEF RoomsInv, RoomSurvives, JoinRoom, seats
<1> QED  BY <1>1, <1>2, <1>3, <1>4, <1>5 DEF RoomsInv

\* A join moves a loaded session and its row together.
LEMMA JoinedKeeps ==
    ASSUME RoomsInv, NEW k \in Sockets, Joined(k)
    PROVE  RoomsInv'
<1>1. Types'
  <2>1. sock[k] \in Handlers /\ sock[k].sid \in Members /\ sock[k].want \in RoomIds
    BY DEF RoomsInv, Types, HandlersSit, Seated, Joined
  <2>2. [sock[k] EXCEPT !.stage = "reading", !.want = NoRoom] \in Handlers
    BY <2>1 DEF Handlers, Rows
  <2>3. sock' = [sock EXCEPT ![k] = [sock[k] EXCEPT !.stage = "reading", !.want = NoRoom]]
    BY DEF Joined, RoomsInv, Types
  <2>4. sock' \in [Sockets -> Handlers]  BY <2>2, <2>3 DEF RoomsInv, Types
  <2> QED  BY <2>1, <2>4 DEF RoomsInv, Types, Rows, Joined, SaveRoom, texts
<1>2. HandlersSit'
  <2>1. sock'[k].stage = "reading" /\ sock'[k].sid = sock[k].sid
    BY DEF RoomsInv, Types, Handlers, Joined
  <2>2. \A j \in Sockets : j # k => sock'[j] = sock[j]  BY DEF RoomsInv, Types, Joined
  <2>3. \A s \in Members : /\ room[s] \in RoomIds => room'[s] \in RoomIds
                           /\ room[s] = NoRoom => room'[s] = NoRoom /\ came'[s] = came[s]
    BY RoomsAssumption DEF RoomsInv, Types, HandlersSit, Seated, Joined
  <2>4. sock[k].stage \in Seated  BY DEF Joined, Seated
  <2>5. ASSUME NEW j \in Sockets, j # k
        PROVE  /\ sock'[j].stage \in Seated => sock'[j].sid \in Members /\ room'[sock'[j].sid] \in RoomIds
               /\ sock'[j].stage = "joining" => sock'[j].want \in RoomIds
               /\ sock'[j].stage = "recover" =>
                    /\ sock'[j].sid \in Members
                    /\ room'[sock'[j].sid] = NoRoom /\ came'[sock'[j].sid] = "login"
                    /\ \A i \in Sockets :
                          sock'[i].stage = "recover" /\ sock'[i].sid = sock'[j].sid => i = j
    BY <2>1, <2>2, <2>3, <2>5 DEF RoomsInv, HandlersSit
  <2> QED  BY <2>1, <2>3, <2>4, <2>5 DEF RoomsInv, HandlersSit, Seated
<1>3. FansSit'
  <2>1. \A f \in fans : f.by # k  BY DEF RoomsInv, FansSit, Joined
  <2>2. \A j \in Sockets : j # k => sock'[j] = sock[j]  BY DEF RoomsInv, Types, Joined
  <2>3. \A s \in Members : room[s] \in RoomIds => room'[s] \in RoomIds
    BY DEF RoomsInv, Types, HandlersSit, Joined
  <2>4. fans' = fans  BY DEF Joined, texts
  <2> QED  BY <2>1, <2>2, <2>3, <2>4 DEF RoomsInv, FansSit, Types, Fans
<1>4. RowsKeep'
  BY DEF RoomsInv, Types, RowsKeep, Joined, SaveRoom
<1>5. RoomSurvives'
  BY DEF RoomsInv, Types, RoomSurvives, Joined
<1> QED  BY <1>1, <1>2, <1>3, <1>4, <1>5 DEF RoomsInv

\* A text goes to sessions that are loaded, from a handler that had no fan-out.
LEMMA SayKeeps ==
    ASSUME RoomsInv, NEW k \in Sockets, NEW m \in Messages, Say(k, m)
    PROVE  RoomsInv'
<1> DEFINE s == sock[k].sid
           new == [by |-> k, msg |-> m, left |-> SessionIdsInRoom(room[s]) \ {s}]
<1>a. s \in Members /\ room[s] \in RoomIds /\ sock[k].stage = "reading"
  BY DEF RoomsInv, HandlersSit, Seated, Say
<1>b. fans' = fans \cup {new}  BY DEF Say, Broadcast
<1>c. new \in Fans /\ \A t \in new.left : room[t] \in RoomIds
  BY <1>a DEF SessionIdsInRoom, Fans
<1>d. sock' = [sock EXCEPT ![k].stage = "sending"] /\ room' = room  BY DEF Say, To
<1>1. Types'
  <2>1. saved' \in [Members -> Rows]  BY DEF RoomsInv, Types, Say, SaveRooms
  <2>2. sock' \in [Sockets -> Handlers]  BY <1>d DEF RoomsInv, Types, Handlers
  <2>3. fans' \subseteq Fans  BY <1>b, <1>c DEF RoomsInv, Types
  <2> QED  BY <2>1, <2>2, <2>3 DEF RoomsInv, Types, Say
<1>2. HandlersSit'
  BY DEF RoomsInv, HandlersSit, Seated, Say, To
<1>3. FansSit'
  <2>1. \A f \in fans : f.by # k
    BY <1>a DEF RoomsInv, FansSit
  <2>2. ASSUME NEW f \in fans'
        PROVE  /\ \A t \in f.left : room'[t] \in RoomIds
               /\ f.by \in Sockets => sock'[f.by].stage = "sending"
    <3>1. CASE f = new  BY <3>1, <1>c, <1>d DEF RoomsInv, Types, Handlers
    <3>2. CASE f \in fans  BY <3>2, <2>1, <1>d DEF RoomsInv, FansSit, Types, Handlers
    <3> QED  BY <3>1, <3>2, <1>b
  <2>3. ASSUME NEW f \in fans', NEW g \in fans', g.by = f.by  PROVE  g = f
    <3>1. new.by = k  OBVIOUS
    <3>2. CASE f = new  BY <3>1, <3>2, <2>3, <2>1, <1>b
    <3>3. CASE f \in fans  BY <3>1, <3>3, <2>3, <2>1, <1>b DEF RoomsInv, FansSit
    <3> QED  BY <3>2, <3>3, <1>b
  <2> QED  BY <2>2, <2>3 DEF FansSit
<1>4. RowsKeep'
  BY RoomsAssumption DEF RoomsInv, HandlersSit, RowsKeep, RoomSurvives, Seated, Say,
       SaveRooms
<1>5. RoomSurvives'
  BY DEF RoomsInv, RoomSurvives, Say
<1> QED  BY <1>1, <1>2, <1>3, <1>4, <1>5 DEF RoomsInv

\* A relay goes to sessions that are loaded, from a link that had no fan-out.
LEMMA RelayedKeeps ==
    ASSUME RoomsInv, NEW l \in Links, NEW m \in Messages, NEW r \in RoomIds, Relayed(l, m, r)
    PROVE  RoomsInv'
<1> DEFINE new == [by |-> l, msg |-> m, left |-> SessionIdsInRoom(r)]
<1>a. fans' = fans \cup {new}  BY DEF Relayed, Broadcast
<1>b. new \in Fans /\ \A t \in new.left : room[t] \in RoomIds
  BY DEF SessionIdsInRoom, Fans
<1>c. sock' = sock /\ room' = room /\ l \notin Sockets
  BY RoomsAssumption DEF Relayed, seats
<1>1. Types'
  BY DEF RoomsInv, Types, Fans, Relayed, Broadcast, SessionIdsInRoom, seats
<1>2. HandlersSit'
  BY DEF RoomsInv, HandlersSit, Relayed, seats
<1>3. FansSit'
  <2>1. \A f \in fans : f.by # l  BY DEF Relayed
  <2>2. \A f, g \in fans' : g.by = f.by => g = f  BY <2>1, <1>a DEF RoomsInv, FansSit
  <2>3. \A f \in fans' : /\ \A t \in f.left : room'[t] \in RoomIds
                         /\ f.by \in Sockets => sock'[f.by].stage = "sending"
    BY <1>a, <1>b, <1>c DEF RoomsInv, FansSit
  <2> QED  BY <2>2, <2>3 DEF FansSit
<1>4. RowsKeep'
  BY DEF RoomsInv, RowsKeep, Relayed, seats
<1>5. RoomSurvives'
  BY DEF RoomsInv, RoomSurvives, Relayed, seats
<1> QED  BY <1>1, <1>2, <1>3, <1>4, <1>5 DEF RoomsInv

\* One turn of the loop shortens a fan-out or ends it with its speaker.
LEMMA FanOutKeeps ==
    ASSUME RoomsInv, NEW f \in fans, NEW s \in Members, FanOut(f, s)
    PROVE  RoomsInv'
<1>1. Types'
  BY DEF RoomsInv, Types, Rows, Handlers, Fans, FanOut, SaveRooms, Dies, Ends,
       Vacated, Over, NoHandler
<1>2. HandlersSit'
  BY DEF RoomsInv, Types, HandlersSit, Seated, FanOut, Dies, Ends, Over, NoHandler
<1>3. FansSit'
  <2>1. room' = room  BY DEF FanOut
  <2>2. CASE fans' = fans \ {f} /\ Dies(f.by)
    <3>1. \A g \in fans' : g \in fans /\ g.by # f.by
      BY <2>2 DEF RoomsInv, FansSit
    <3>2. \A j \in Sockets : j # f.by => sock'[j] = sock[j]
      BY <2>2 DEF Dies, Ends, RoomsInv, Types
    <3> QED  BY <3>1, <3>2, <2>1 DEF RoomsInv, FansSit
  <2>3. CASE fans' = (fans \ {f}) \cup {[f EXCEPT !.left = @ \ {s}]} /\ sock' = sock
    <3>1. /\ [f EXCEPT !.left = @ \ {s}].by = f.by
          /\ [f EXCEPT !.left = @ \ {s}].left \subseteq f.left
      BY DEF RoomsInv, Types, Fans
    <3> QED  BY <2>1, <2>3, <3>1 DEF RoomsInv, FansSit
  <2> QED  BY <2>2, <2>3 DEF FanOut
<1>4. RowsKeep'
  BY RoomsAssumption DEF RoomsInv, FansSit, RowsKeep, RoomSurvives, FanOut, SaveRooms
<1>5. RoomSurvives'
  BY DEF RoomsInv, RoomSurvives, FanOut
<1> QED  BY <1>1, <1>2, <1>3, <1>4, <1>5 DEF RoomsInv

\* The end of a fan-out lets its handler read again.
LEMMA FanDoneKeeps ==
    ASSUME RoomsInv, NEW f \in fans, FanDone(f)
    PROVE  RoomsInv'
<1>1. Types'
  BY DEF RoomsInv, Types, Handlers, FanDone, To, seats
<1>2. HandlersSit'
  BY DEF RoomsInv, Types, Rows, Handlers, HandlersSit, FansSit, Seated, FanDone, To,
       seats
<1>3. FansSit'
  BY DEF RoomsInv, Types, FansSit, FanDone, To, seats
<1>4. RowsKeep'
  BY DEF RoomsInv, RowsKeep, FanDone, seats
<1>5. RoomSurvives'
  BY DEF RoomsInv, RoomSurvives, FanDone, seats
<1> QED  BY <1>1, <1>2, <1>3, <1>4, <1>5 DEF RoomsInv

\* No step breaks the invariant.
THEOREM InvInductive == RoomsInv /\ [Next]_vars => RoomsInv'
<1> SUFFICES ASSUME RoomsInv, [Next]_vars  PROVE RoomsInv'  OBVIOUS
<1>1. CASE Next
  BY <1>1, HelloKeeps, RecoverKeeps, AnswerKeeps, BreakKeeps, CleanupKeeps,
       RestartKeeps,
     JoinRoomKeeps, JoinedKeeps, SayKeeps, RelayedKeeps, FanOutKeeps, FanDoneKeeps DEF Next
<1>2. CASE UNCHANGED vars
  BY <1>2 DEF vars, seats, texts, RoomsInv, Types, HandlersSit, FansSit, RowsKeep,
       RoomSurvives
<1> QED  BY <1>1, <1>2

\* So it holds always.
LEMMA InvHolds == Spec => []RoomsInv
<1> QED  BY InvInit, InvInductive, PTL DEF Spec

\* Room membership survives disconnects and restarts (server.py:43-46), whatever
\* sockets break, replace each other and come back, and however often the node
\* is stopped and started.
THEOREM SessionsStayInTheirRoom == Spec => []RoomSurvives
<1>1. RoomsInv => RoomSurvives  BY DEF RoomsInv
<1> QED  BY <1>1, InvHolds, PTL

----------------------------------------------------------------------------
\* Those who count against the capacity and have come in by joining.
Joiners(r) == {s \in ConnectedInRoom(r) : came[s] = "join"}

\* No step but a join brings a joiner into a room.
LEMMA OthersBringNoJoiner ==
    ASSUME RoomsInv, RoomsInv', [Next]_vars, ~\E k \in Sockets : Joined(k), NEW r \in RoomIds
    PROVE  Joiners(r)' \subseteq Joiners(r)
<1> USE DEF Joiners, ConnectedInRoom, SessionIdsInRoom
<1>1. ASSUME NEW k \in Sockets, NEW s \in Members, Hello(k, s)
      PROVE  Joiners(r)' \subseteq Joiners(r)
  BY <1>1 DEF Hello, RoomsInv, Types
<1>2. ASSUME NEW k \in Sockets, NEW q \in RoomIds, Recover(k, q)
      PROVE  Joiners(r)' \subseteq Joiners(r)
  BY <1>2 DEF Recover, RoomsInv, Types, HandlersSit
<1>3. ASSUME NEW k \in Sockets, Cleanup(k)
      PROVE  Joiners(r)' \subseteq Joiners(r)
  BY <1>3 DEF Cleanup, Vacated, RoomsInv, Types
<1>4. ASSUME Restart
      PROVE  Joiners(r)' \subseteq Joiners(r)
  BY <1>4, RoomsAssumption DEF Restart
<1>5. ASSUME NEW f \in fans, NEW s \in Members, FanOut(f, s)
      PROVE  Joiners(r)' \subseteq Joiners(r)
  BY <1>5 DEF FanOut, Dies, Vacated, RoomsInv, Types
<1>6. ASSUME NEW k \in Sockets, NEW m \in Messages, Say(k, m)
      PROVE  Joiners(r)' \subseteq Joiners(r)
  BY <1>6 DEF Say
<1>7. ASSUME UNCHANGED seats
      PROVE  Joiners(r)' \subseteq Joiners(r)
  BY <1>7 DEF seats
<1>8. ASSUME NEW k \in Sockets, NEW q \in RoomIds, Answer(k) \/ Break(k) \/ JoinRoom(k, q)
      PROVE  UNCHANGED seats
  BY <1>8 DEF Answer, Break, JoinRoom
<1>9. ASSUME NEW l \in Links, NEW m \in Messages, NEW q \in RoomIds, Relayed(l, m, q)
      PROVE  UNCHANGED seats
  BY <1>9 DEF Relayed
<1>10. ASSUME NEW f \in fans, FanDone(f)
      PROVE  UNCHANGED seats
  BY <1>10 DEF FanDone
<1>11. ASSUME UNCHANGED vars
      PROVE  UNCHANGED seats
  BY <1>11 DEF vars
<1> HIDE DEF Joiners
<1> QED  BY RoomsAssumption, <1>1, <1>2, <1>3, <1>4, <1>5, <1>6, <1>7, <1>8, <1>9,
         <1>10, <1>11 DEF Next

\* A join makes one more, of those who found less than the capacity there.
LEMMA JoinFindsSeat ==
    ASSUME RoomsInv, JoinersFit, NEW k \in Sockets, Joined(k), NEW r \in RoomIds
    PROVE  Cardinality(Joiners(r)') <= Capacity
<1> DEFINE s == sock[k].sid
<1>a. s \in Members  BY DEF RoomsInv, HandlersSit, Seated, Joined
<1>b. IsFiniteSet(ConnectedInRoom(r)) /\ IsFiniteSet(Joiners(r))
  BY RoomsAssumption, FS_Subset DEF Joiners, ConnectedInRoom, SessionIdsInRoom
<1>c. Cardinality(Joiners(r)) <= Capacity  BY DEF JoinersFit, Joiners
<1>1. CASE Joiners(r)' \subseteq Joiners(r)
  <2>1. Cardinality(Joiners(r)') <= Cardinality(Joiners(r)) /\ IsFiniteSet(Joiners(r)')
    BY <1>1, <1>b, FS_Subset
  <2>2. Cardinality(Joiners(r)') \in Nat /\ Cardinality(Joiners(r)) \in Nat
    BY <1>b, <2>1, FS_CardinalityType
  <2> QED  BY <2>1, <2>2, <1>c, RoomsAssumption
<1>2. CASE ~Full(r) /\ Joiners(r)' \subseteq ConnectedInRoom(r) \cup {s}
  <2>1. Cardinality(ConnectedInRoom(r)) \in Nat /\ Cardinality(ConnectedInRoom(r)) < Capacity
    BY <1>2, <1>b, FS_CardinalityType, RoomsAssumption DEF Full
  <2>2. /\ IsFiniteSet(ConnectedInRoom(r) \cup {s})
        /\ Cardinality(ConnectedInRoom(r) \cup {s}) <= Cardinality(ConnectedInRoom(r)) + 1
    <3> DEFINE C == ConnectedInRoom(r)
    <3>1. IsFiniteSet(C \cup {s}) /\ Cardinality(C \cup {s}) =
            IF s \in C THEN Cardinality(C) ELSE Cardinality(C) + 1
      <4> HIDE DEF C, s
      <4> QED  BY <1>b, FS_AddElement DEF C
    <3> HIDE DEF s
    <3> QED  BY <3>1, <2>1
  <2>3. /\ IsFiniteSet(Joiners(r)')
        /\ Cardinality(Joiners(r)') <= Cardinality(ConnectedInRoom(r) \cup {s})
    BY <1>2, <2>2, FS_Subset
  <2>4. Cardinality(Joiners(r)') \in Nat /\ Cardinality(ConnectedInRoom(r) \cup {s}) \in Nat
    BY <2>2, <2>3, FS_CardinalityType
  <2> QED  BY <2>1, <2>2, <2>3, <2>4, RoomsAssumption
<1>3. \/ Joiners(r)' \subseteq Joiners(r)
      \/ (~Full(r) /\ Joiners(r)' \subseteq ConnectedInRoom(r) \cup {s})
  BY <1>a DEF Joined, SaveRoom, Joiners, ConnectedInRoom, SessionIdsInRoom, RoomsInv,
       Types
<1> QED  BY <1>1, <1>2, <1>3

\* The members of a room who came by joining never exceed its capacity, for any
\* number of members, rooms and sockets: between the count and the move of a
\* join nothing else runs (server.py:735-768).
THEOREM JoinersFindSeats == Spec => []JoinersFit
<1>1. Init => JoinersFit
  <2> SUFFICES ASSUME Init, NEW r \in RoomIds  PROVE Cardinality(Joiners(r)) <= Capacity
    BY DEF JoinersFit, Joiners
  <2>1. Joiners(r) = {}
    BY RoomsAssumption DEF Init, Joiners, ConnectedInRoom, SessionIdsInRoom
  <2> QED  BY <2>1, FS_EmptySet, RoomsAssumption
<1>2. RoomsInv /\ RoomsInv' /\ JoinersFit /\ [Next]_vars => JoinersFit'
  <2> SUFFICES ASSUME RoomsInv, RoomsInv', JoinersFit, [Next]_vars, NEW r \in RoomIds
               PROVE  Cardinality(Joiners(r)') <= Capacity
    BY DEF JoinersFit, Joiners
  <2>1. CASE \E k \in Sockets : Joined(k)  BY <2>1, JoinFindsSeat
  <2>2. CASE ~\E k \in Sockets : Joined(k)
    <3>1. Joiners(r)' \subseteq Joiners(r)  BY <2>2, OthersBringNoJoiner
    <3>2. IsFiniteSet(Joiners(r))
      BY RoomsAssumption, FS_Subset DEF Joiners, ConnectedInRoom, SessionIdsInRoom
    <3>3. IsFiniteSet(Joiners(r)') /\ Cardinality(Joiners(r)') <= Cardinality(Joiners(r))
      BY <3>1, <3>2, FS_Subset
    <3>4. Cardinality(Joiners(r)') \in Nat /\ Cardinality(Joiners(r)) \in Nat
      BY <3>2, <3>3, FS_CardinalityType
    <3>5. Cardinality(Joiners(r)) <= Capacity  BY DEF JoinersFit, Joiners
    <3> QED  BY <3>3, <3>4, <3>5, RoomsAssumption
  <2> QED  BY <2>1, <2>2
<1> QED  BY <1>1, <1>2, InvHolds, PTL DEF Spec
----------------------------------------------------------------------------
\* Sequences: what a text at the end adds to a list of texts.
Distinct(q) == \A i, j \in DOMAIN q : q[i] = q[j] => i = j
Precedes(q, m, n) == \E i, j \in 1 .. Len(q) : i < j /\ q[i] = m /\ q[j] = n

LEMMA AppendAdds ==
    ASSUME NEW S, NEW q \in Seq(S), NEW x \in S
    PROVE  /\ Append(q, x) \in Seq(S) /\ ToSet(Append(q, x)) = ToSet(q) \cup {x}
           /\ Distinct(q) /\ x \notin ToSet(q) => Distinct(Append(q, x))
           /\ \A m, n : Precedes(Append(q, x), m, n) <=>
                            Precedes(q, m, n) \/ (m \in ToSet(q) /\ n = x)
<1> DEFINE a == Append(q, x)
<1>1. /\ a \in Seq(S) /\ Len(a) = Len(q) + 1 /\ a[Len(q) + 1] = x
      /\ \A i \in 1 .. Len(q) : a[i] = q[i]
  BY AppendProperties
<1>2. DOMAIN q = 1 .. Len(q) /\ DOMAIN a = 1 .. Len(q) + 1 /\ Len(q) \in Nat
  BY <1>1, LenProperties
<1> HIDE DEF a
<1>3. ToSet(a) = ToSet(q) \cup {x}
  <2>1. ToSet(a) \subseteq ToSet(q) \cup {x}  BY <1>1, <1>2 DEF ToSet
  <2>2. x \in ToSet(a)
    <3>1. Len(q) + 1 \in DOMAIN a  BY <1>2
    <3> QED  BY <3>1, <1>1 DEF ToSet
  <2>3. ToSet(q) \subseteq ToSet(a)
    <3> SUFFICES ASSUME NEW i \in DOMAIN q PROVE q[i] \in ToSet(a)  BY DEF ToSet
    <3>1. i \in DOMAIN a /\ a[i] = q[i]  BY <1>1, <1>2
    <3> QED  BY <3>1 DEF ToSet
  <2> QED  BY <2>1, <2>2, <2>3
<1>4. ASSUME Distinct(q), x \notin ToSet(q), NEW i \in DOMAIN a, NEW j \in DOMAIN a, a[i] = a[j]
      PROVE  i = j
  <2>1. \A k \in DOMAIN q : q[k] # x  BY <1>4 DEF ToSet
  <2>2. CASE i \in DOMAIN q /\ j \in DOMAIN q
    <3>1. q[i] = q[j]  BY <2>2, <1>1, <1>2, <1>4
    <3> QED  BY <3>1, <2>2, <1>4 DEF Distinct
  <2>3. CASE i \notin DOMAIN q \/ j \notin DOMAIN q
    <3>1. i = Len(q) + 1 \/ j = Len(q) + 1  BY <2>3, <1>2, <1>4
    <3> QED  BY <3>1, <2>1, <1>1, <1>2, <1>4
  <2> QED  BY <2>2, <2>3
<1>5. Distinct(q) /\ x \notin ToSet(q) => Distinct(a)  BY <1>4 DEF Distinct
<1>6. ASSUME NEW m, NEW n, Precedes(a, m, n)
      PROVE  Precedes(q, m, n) \/ (m \in ToSet(q) /\ n = x)
  <2>1. PICK i, j \in 1 .. Len(q) + 1 : i < j /\ a[i] = m /\ a[j] = n
    BY <1>6, <1>1 DEF Precedes
  <2>2. i \in 1 .. Len(q) /\ q[i] = m  BY <2>1, <1>1, <1>2
  <2>3. CASE j \in 1 .. Len(q)
    <3>1. q[j] = n  BY <2>3, <2>1, <1>1
    <3> QED  BY <3>1, <2>1, <2>2, <2>3 DEF Precedes
  <2>4. CASE j = Len(q) + 1
    <3>1. m \in ToSet(q) /\ n = x  BY <2>4, <2>1, <2>2, <1>1, <1>2 DEF ToSet
    <3> QED  BY <3>1
  <2> QED  BY <2>1, <2>3, <2>4, <1>2
<1>7. ASSUME NEW m, NEW n, Precedes(q, m, n) \/ (m \in ToSet(q) /\ n = x)
      PROVE  Precedes(a, m, n)
  <2>1. CASE Precedes(q, m, n)
    <3>1. PICK i, j \in 1 .. Len(q) : i < j /\ q[i] = m /\ q[j] = n  BY <2>1 DEF Precedes
    <3>2. i \in 1 .. Len(a) /\ j \in 1 .. Len(a) /\ a[i] = m /\ a[j] = n
      BY <3>1, <1>1, <1>2
    <3> QED  BY <3>1, <3>2 DEF Precedes
  <2>2. CASE m \in ToSet(q) /\ n = x
    <3>1. PICK i \in DOMAIN q : q[i] = m  BY <2>2 DEF ToSet
    <3>2. /\ i \in 1 .. Len(a) /\ Len(q) + 1 \in 1 .. Len(a) /\ i < Len(q) + 1
          /\ a[i] = m /\ a[Len(q) + 1] = n
      BY <3>1, <2>2, <1>1, <1>2
    <3> QED  BY <3>2 DEF Precedes
  <2> QED  BY <1>7, <2>1, <2>2
<1> QED  BY <1>1, <1>3, <1>5, <1>6, <1>7 DEF a

----------------------------------------------------------------------------
\* The order of the texts.

TextTypes ==
    /\ cut \subseteq Sockets \cup Links /\ said \in Seq(Messages)
    /\ box \in [Members -> Seq(Messages)]
    /\ by \in [Messages -> Sockets \cup Links \cup {NoSpeaker}]
    /\ audience \in [Messages -> SUBSET Members]

\* A speaker may have more to say: its link is up, its handler runs.
Speaks(b) == IF b \in Links THEN b \notin cut ELSE sock[b] # Over

\* A text is said once, by one who has shaken hands, and got by nobody before.
SaidOnce ==
    /\ Distinct(said) /\ \A m \in Messages : m \in ToSet(said) <=> by[m] # NoSpeaker
    /\ \A m \in Messages : by[m] \in Sockets => sock[by[m]].stage # "new"
    /\ \A s \in Members : ToSet(box[s]) \subseteq ToSet(said)

\* A fan-out is of a text its speaker said, and ends with the speaker's link.
FansSpeak == \A f \in fans :
    f.msg \in ToSet(said) /\ by[f.msg] = f.by /\ (f.by \in Links => f.by \notin cut)

\* As long as its speaker may say more, a text has reached everyone it is meant
\* for, or still will: who writes has nothing left behind.
Delivered == \A m \in ToSet(said) : Speaks(by[m]) => \A s \in audience[m] :
    m \in ToSet(box[s]) \/ \E f \in fans : f.msg = m /\ s \in f.left

InOrder == \A m, n \in Messages : Precedes(said, m, n) /\ by[m] = by[n] =>
    \A s \in audience[m] : n \in ToSet(box[s]) => Precedes(box[s], m, n)

TextsInv == TextTypes /\ SaidOnce /\ FansSpeak /\ Delivered /\ InOrder

LEMMA TextsInit == Init => TextsInv
<1> SUFFICES ASSUME Init PROVE TextsInv  OBVIOUS
<1>1. /\ said = <<>> /\ box = [s \in Members |-> <<>>] /\ fans = {} /\ cut = {}
      /\ by = [m \in Messages |-> NoSpeaker] /\ audience = [m \in Messages |-> {}]
  BY DEF Init
<1>2. <<>> \in Seq(Messages) /\ Len(<<>>) = 0 /\ DOMAIN <<>> = {} /\ ToSet(<<>>) = {}
  <2>1. <<>> \in Seq(Messages) /\ Len(<<>>) = 0  BY EmptySeq
  <2>2. DOMAIN <<>> = 1 .. 0  BY <2>1, LenProperties
  <2>3. DOMAIN <<>> = {}  BY <2>2
  <2> QED  BY <2>1, <2>3 DEF ToSet
<1>3. TextTypes  BY <1>1, <1>2 DEF TextTypes
<1>4. SaidOnce  BY <1>1, <1>2, RoomsAssumption DEF SaidOnce, Distinct
<1>5. FansSpeak  BY <1>1 DEF FansSpeak
<1>6. Delivered  BY <1>1, <1>2 DEF Delivered
<1>7. InOrder  BY <1>1 DEF InOrder
<1> QED  BY <1>3, <1>4, <1>5, <1>6, <1>7 DEF TextsInv

\* A step that says and writes nothing, and opens nobody's mouth again.
LEMMA QuietKeeps ==
    ASSUME RoomsInv, TextsInv, UNCHANGED texts, cut' \subseteq Sockets \cup Links,
           \A l \in Links : l \in cut' <=> l \in cut,
           \A k \in Sockets : sock'[k].stage = "new" => sock[k].stage = "new",
           \A k \in Sockets : sock[k] = Over => sock'[k] = Over
    PROVE  TextsInv'
<1>1. TextTypes'  BY DEF TextsInv, TextTypes, texts
<1>2. SaidOnce'  BY DEF TextsInv, SaidOnce, texts
<1>3. FansSpeak'  BY DEF TextsInv, FansSpeak, texts
<1>4. \A m \in ToSet(said) : Speaks(by[m])' => Speaks(by[m])
  <2>1. \A m \in ToSet(said) : by[m] \in Sockets \cup Links
    <3>1. ToSet(said) \subseteq Messages
      BY LenProperties DEF TextsInv, TextTypes, ToSet
    <3> QED  BY <3>1 DEF TextsInv, TextTypes, SaidOnce
  <2> QED  BY <2>1 DEF Speaks, texts
<1>5. Delivered'  BY <1>4 DEF TextsInv, Delivered, texts
<1>6. InOrder'  BY DEF TextsInv, InOrder, texts
<1> QED  BY <1>1, <1>2, <1>3, <1>5, <1>6 DEF TextsInv

LEMMA HandshakesKeepTexts ==
    ASSUME RoomsInv, TextsInv, NEW k \in Sockets,
           \/ \E s \in Members : Hello(k, s)
           \/ \E r \in RoomIds : Recover(k, r) \/ JoinRoom(k, r)
           \/ Answer(k) \/ Break(k) \/ Cleanup(k) \/ Joined(k)
    PROVE  TextsInv'
<1> USE DEF RoomsInv, Types, Handlers, TextsInv, TextTypes
<1>1. UNCHANGED texts
  BY DEF Hello, Recover, JoinRoom, Answer, Break, Cleanup, Joined
<1>2. cut' \subseteq Sockets \cup Links /\ \A l \in Links : l \in cut' <=> l \in cut
  BY RoomsAssumption DEF Hello, Recover, JoinRoom, Answer, Break, Cleanup, Joined, Ends
<1>3. sock[k] # Over \/ sock' = sock
  BY DEF Hello, Recover, JoinRoom, Answer, Break, Cleanup, Joined, Over, NoHandler
<1>4. \A j \in Sockets : j # k => sock'[j] = sock[j]
  BY DEF Hello, Recover, JoinRoom, Answer, Break, Cleanup, Joined, Ends, To
<1>5. sock' = sock \/ sock'[k].stage # "new"
  <2>1. ASSUME NEW s \in Members, Hello(k, s)  PROVE sock'[k].stage \in {"recover", "answer"}
    <3>1. \E h \in {"recover", "answer"} :
             sock' = [sock EXCEPT ![k] = [sock[k] EXCEPT !.sid = s, !.stage = h]]
      BY <2>1 DEF Hello
    <3> QED  BY <3>1
  <2>2. ASSUME NEW r \in RoomIds, JoinRoom(k, r)  PROVE sock'[k].stage = "joining"
    BY <2>2 DEF JoinRoom
  <2>3. Joined(k) => sock'[k].stage = "reading"  BY DEF Joined
  <2>4. ASSUME NEW r \in RoomIds, Recover(k, r)  PROVE sock'[k].stage = "answer"
    BY <2>4 DEF Recover, To
  <2>5. Answer(k) \/ Cleanup(k) => sock'[k].stage \in {"reading", "closed"}
    BY DEF Answer, Cleanup, Ends, To, Over, NoHandler
  <2>6. Break(k) => sock' = sock  BY DEF Break
  <2> QED  BY <2>1, <2>2, <2>3, <2>4, <2>5, <2>6
<1> HIDE DEF RoomsInv, Types, Handlers, TextsInv, TextTypes
<1> QED  BY <1>1, <1>2, <1>3, <1>4, <1>5, QuietKeeps

\* A restart silences whoever has said something.
LEMMA RestartKeepsTexts ==
    ASSUME RoomsInv, TextsInv, Restart
    PROVE  TextsInv'
<1>1. UNCHANGED <<box, said, by, audience>> /\ fans' = {} /\ cut' = Links  BY DEF Restart
<1>2. \A k \in Sockets : sock[k].stage # "new" => sock'[k] = Over
  BY DEF Restart, NoHandler, RoomsInv, Types
<1>3. Over.stage # "new"  BY DEF Over, NoHandler
<1>4. TextTypes'  BY <1>1 DEF TextsInv, TextTypes
<1>5. SaidOnce'  BY <1>1, <1>2, <1>3 DEF TextsInv, SaidOnce
<1>6. FansSpeak'  BY <1>1 DEF FansSpeak
<1>7. \A m \in ToSet(said) : ~Speaks(by[m])'
  <2>1. ToSet(said) \subseteq Messages
    BY LenProperties DEF TextsInv, TextTypes, ToSet
  <2>2. \A m \in ToSet(said) : by[m] \in Sockets \cup Links
    BY <2>1 DEF TextsInv, TextTypes, SaidOnce
  <2> QED  BY <2>1, <2>2, <1>1, <1>2 DEF Speaks, TextsInv, SaidOnce
<1>8. Delivered'  BY <1>1, <1>7 DEF Delivered
<1>9. InOrder'  BY <1>1 DEF TextsInv, InOrder
<1> QED  BY <1>4, <1>5, <1>6, <1>8, <1>9 DEF TextsInv

\* A new text is behind all that was said, and nobody has it yet.
LEMMA BroadcastKeeps ==
    ASSUME RoomsInv, TextsInv, NEW b \in Sockets \cup Links, NEW m \in Messages,
           NEW r, NEW to \in SUBSET Members, Broadcast(b, m, r, to),
           \A f \in fans : f.by # b, UNCHANGED <<box, cut>>,
           b \in Links => b \notin cut,
           b \in Sockets => sock[b].stage # "new",
           \A k \in Sockets : (sock'[k].stage = "new" <=> sock[k].stage = "new")
                           /\ (sock'[k] = Over <=> sock[k] = Over)
    PROVE  TextsInv'
<1>1. /\ m \notin ToSet(said) /\ said' = Append(said, m)
      /\ by' = [by EXCEPT ![m] = b] /\ audience' = [audience EXCEPT ![m] = to]
      /\ fans' = fans \cup {[by |-> b, msg |-> m, left |-> to]}
  BY DEF Broadcast
<1>2. /\ said \in Seq(Messages) /\ Distinct(said) /\ ToSet(said) \subseteq Messages
      /\ by \in [Messages -> Sockets \cup Links \cup {NoSpeaker}]
      /\ audience \in [Messages -> SUBSET Members]
  BY LenProperties DEF TextsInv, TextTypes, SaidOnce, ToSet
<1>3. /\ said' \in Seq(Messages) /\ ToSet(said') = ToSet(said) \cup {m} /\ Distinct(said')
      /\ \A p, n : Precedes(said', p, n) <=> Precedes(said, p, n) \/ (p \in ToSet(said) /\ n = m)
  BY <1>1, <1>2, AppendAdds
<1>4. /\ by'[m] = b /\ audience'[m] = to
      /\ \A n \in Messages : n # m => by'[n] = by[n] /\ audience'[n] = audience[n]
  BY <1>1, <1>2
<1>5. NoSpeaker \notin Sockets \cup Links  BY RoomsAssumption
<1>6. TextTypes'  BY <1>1, <1>2, <1>3 DEF TextsInv, TextTypes
<1>7. SaidOnce'  BY <1>3, <1>4, <1>5 DEF TextsInv, SaidOnce
<1>8. FansSpeak'
  <2>1. ASSUME NEW f \in fans
        PROVE  f.msg \in ToSet(said') /\ by'[f.msg] = f.by /\ (f.by \in Links => f.by \notin cut')
    <3>1. f.msg \in ToSet(said) /\ f.msg \in Messages /\ f.msg # m
      BY <1>1, <1>2 DEF TextsInv, FansSpeak
    <3> QED  BY <3>1, <1>3, <1>4 DEF TextsInv, FansSpeak
  <2> QED  BY <2>1, <1>1, <1>3, <1>4 DEF FansSpeak
<1>9. Delivered'
  <2>1. ASSUME NEW n \in ToSet(said), Speaks(by[n])', NEW s \in audience'[n]
        PROVE  n \in ToSet(box'[s]) \/ \E f \in fans' : f.msg = n /\ s \in f.left
    <3>1. n \in Messages /\ n # m /\ by[n] \in Sockets \cup Links
      BY <1>1, <1>2 DEF TextsInv, SaidOnce
    <3>2. by'[n] = by[n] /\ s \in audience[n]  BY <3>1, <1>4, <2>1
    <3>3. Speaks(by[n])  BY <3>1, <3>2, <2>1 DEF Speaks
    <3> QED  BY <3>2, <3>3, <1>1 DEF TextsInv, Delivered
  <2>2. \A s \in audience'[m] : \E f \in fans' : f.msg = m /\ s \in f.left
    <3>1. PICK new : new = [by |-> b, msg |-> m, left |-> to]  OBVIOUS
    <3>2. new \in fans' /\ new.msg = m /\ new.left = audience'[m]  BY <3>1, <1>1, <1>4
    <3> QED  BY <3>2
  <2> QED  BY <2>1, <2>2, <1>3 DEF Delivered
<1>10. InOrder'
  <2> SUFFICES ASSUME NEW p \in Messages, NEW n \in Messages, Precedes(said', p, n),
                      by'[p] = by'[n], NEW s \in audience'[p], n \in ToSet(box'[s])
               PROVE  Precedes(box'[s], p, n)
    BY DEF InOrder
  <2>1. p \in ToSet(said)
    <3>1. CASE Precedes(said, p, n)
      <4>1. PICK i \in 1 .. Len(said) : said[i] = p  BY <3>1 DEF Precedes
      <4>2. i \in DOMAIN said  BY <1>2, LenProperties
      <4> QED  BY <4>1, <4>2 DEF ToSet
    <3> QED  BY <3>1, <1>3
  <2>2. p # m /\ s \in audience[p] /\ s \in Members  BY <2>1, <1>1, <1>2, <1>4
  <2>3. n # m  BY <2>2, <1>1 DEF TextsInv, SaidOnce
  <2>4. Precedes(said, p, n) /\ by[p] = by[n]  BY <2>2, <2>3, <1>3, <1>4
  <2> QED  BY <2>2, <2>4 DEF TextsInv, InOrder
<1> QED  BY <1>6, <1>7, <1>8, <1>9, <1>10 DEF TextsInv

LEMMA SpeakersKeepTexts ==
    ASSUME RoomsInv, TextsInv, NEW m \in Messages,
           \/ \E k \in Sockets : Say(k, m)
           \/ \E l \in Links, r \in RoomIds : Relayed(l, m, r)
    PROVE  TextsInv'
<1>1. ASSUME NEW k \in Sockets, Say(k, m)  PROVE TextsInv'
  <2> DEFINE s == sock[k].sid
             to == SessionIdsInRoom(room[s]) \ {s}
  <2>1. Broadcast(k, m, room[s], to) /\ to \in SUBSET Members /\ UNCHANGED <<box, cut>>
    BY <1>1 DEF Say, SessionIdsInRoom
  <2>2. \A f \in fans : f.by # k  BY <1>1 DEF RoomsInv, FansSit, Say
  <2>3. \A j \in Sockets : (sock'[j].stage = "new" <=> sock[j].stage = "new")
                        /\ (sock'[j] = Over <=> sock[j] = Over)
    BY <1>1 DEF RoomsInv, Types, Handlers, Say, To, Over, NoHandler
  <2>4. sock[k].stage # "new" /\ k \notin Links  BY <1>1, RoomsAssumption DEF Say
  <2> QED  BY <2>1, <2>2, <2>3, <2>4, BroadcastKeeps
<1>2. ASSUME NEW l \in Links, NEW r \in RoomIds, Relayed(l, m, r)  PROVE TextsInv'
  <2>1. SessionIdsInRoom(r) \in SUBSET Members  BY DEF SessionIdsInRoom
  <2>2. l \notin Sockets  BY RoomsAssumption
  <2> QED  BY <1>2, <2>1, <2>2, BroadcastKeeps DEF Relayed, seats
<1> QED  BY <1>1, <1>2

\* The text a fan-out delivers finds all that its speaker said before.
LEMMA FanOutKeepsTexts ==
    ASSUME RoomsInv, TextsInv, NEW f \in fans, NEW s \in Members, FanOut(f, s)
    PROVE  TextsInv'
<1> DEFINE n == f.msg
           g == [f EXCEPT !.left = @ \ {s}]
<1>1. /\ s \in f.left /\ box' = [box EXCEPT ![s] = Append(@, n)]
      /\ UNCHANGED <<said, by, audience>>
  BY DEF FanOut
<1>2. \/ fans' = (fans \ {f}) \cup {g} /\ UNCHANGED <<sock, cut>>
      \/ fans' = fans \ {f} /\ Dies(f.by)
  BY DEF FanOut
<1>3. /\ f \in Fans /\ n \in Messages /\ n \in ToSet(said) /\ by[n] = f.by
      /\ g.by = f.by /\ g.msg = n /\ g.left = f.left \ {s}
      /\ \A h \in fans : h.by = f.by => h = f
  BY DEF RoomsInv, Types, Fans, TextsInv, FansSpeak, FansSit
<1>4. /\ said \in Seq(Messages) /\ Distinct(said) /\ ToSet(said) \subseteq Messages
      /\ by \in [Messages -> Sockets \cup Links \cup {NoSpeaker}]
      /\ audience \in [Messages -> SUBSET Members]
      /\ box \in [Members -> Seq(Messages)] /\ cut \subseteq Sockets \cup Links
  BY LenProperties DEF TextsInv, TextTypes, SaidOnce, ToSet
<1>5. /\ box' \in [Members -> Seq(Messages)] /\ ToSet(box'[s]) = ToSet(box[s]) \cup {n}
      /\ \A p, q : Precedes(box'[s], p, q) <=> Precedes(box[s], p, q) \/ (p \in ToSet(box[s]) /\ q = n)
      /\ \A t \in Members : t # s => box'[t] = box[t]
  <2>1. box'[s] = Append(box[s], n) /\ \A t \in Members : t # s => box'[t] = box[t]
    BY <1>1, <1>4
  <2>2. box[s] \in Seq(Messages)  BY <1>4
  <2>3. /\ Append(box[s], n) \in Seq(Messages)
        /\ ToSet(Append(box[s], n)) = ToSet(box[s]) \cup {n}
        /\ \A p, q : Precedes(Append(box[s], n), p, q)
                         <=> Precedes(box[s], p, q) \/ (p \in ToSet(box[s]) /\ q = n)
    BY <2>2, <1>3, AppendAdds
  <2>4. box' \in [Members -> Seq(Messages)]  BY <2>3, <1>1, <1>4
  <2> HIDE DEF n
  <2> QED  BY <2>1, <2>3, <2>4
<1>6. /\ f.by \in Sockets \cup Links
      /\ Speaks(f.by)
  <2>1. f.by \in Sockets \cup Links  BY <1>3 DEF Fans
  <2>2. f.by \in Sockets => sock[f.by].stage = "sending"  BY DEF RoomsInv, FansSit
  <2>3. Over.stage = "closed"  BY DEF Over, NoHandler
  <2>4. f.by \in Links => f.by \notin cut  BY DEF TextsInv, FansSpeak
  <2> QED  BY <2>1, <2>2, <2>3, <2>4 DEF Speaks
<1>7. /\ cut' \subseteq Sockets \cup Links
      /\ \A l \in Links : l # f.by => (l \in cut' <=> l \in cut)
      /\ \A k \in Sockets : k # f.by => sock'[k] = sock[k]
      /\ \A k \in Sockets : sock'[k].stage = "new" => sock[k].stage = "new"
      /\ Speaks(f.by)' => UNCHANGED <<sock, cut>> /\ fans' = (fans \ {f}) \cup {g}
  <2>1. CASE fans' = (fans \ {f}) \cup {g} /\ UNCHANGED <<sock, cut>>  BY <2>1, <1>4
  <2>2. CASE fans' = fans \ {f} /\ Dies(f.by)
    <3>1. CASE f.by \in Links  BY <3>1, <2>2, <1>4 DEF Dies, Speaks
    <3>2. CASE f.by \in Sockets /\ f.by \notin Links
      <4>1. sock' = [sock EXCEPT ![f.by] = Over] /\ cut' = cut \ {f.by}
        BY <3>2, <2>2 DEF Dies, Ends
      <4>2. Over.stage # "new"  BY DEF Over, NoHandler
      <4> QED  BY <4>1, <4>2, <3>2, <1>4 DEF RoomsInv, Types, Speaks
    <3> QED  BY <3>1, <3>2, <1>6
  <2> QED  BY <2>1, <2>2, <1>2
<1> HIDE DEF n, g
<1>8. TextTypes'  BY <1>1, <1>4, <1>5, <1>7 DEF TextsInv, TextTypes
<1>9. SaidOnce'
  <2>1. \A t \in Members : ToSet(box'[t]) \subseteq ToSet(said')
    BY <1>1, <1>3, <1>5 DEF TextsInv, SaidOnce
  <2> QED  BY <2>1, <1>1, <1>7 DEF TextsInv, SaidOnce
<1>10. FansSpeak'
  <2>1. ASSUME NEW h \in fans, h # f
        PROVE  h.msg \in ToSet(said) /\ by[h.msg] = h.by /\ (h.by \in Links => h.by \notin cut')
    BY <2>1, <1>3, <1>7 DEF TextsInv, FansSpeak
  <2>2. CASE fans' = fans \ {f}  BY <2>1, <2>2, <1>1 DEF FansSpeak
  <2>3. CASE fans' = (fans \ {f}) \cup {g} /\ cut' = cut
    <3>1. g.msg \in ToSet(said) /\ by[g.msg] = g.by /\ (g.by \in Links => g.by \notin cut')
      BY <2>3, <1>3 DEF TextsInv, FansSpeak
    <3> QED  BY <2>1, <2>3, <3>1, <1>1 DEF FansSpeak
  <2> QED  BY <2>2, <2>3, <1>2
<1>11. Delivered'
  <2> SUFFICES ASSUME NEW m \in ToSet(said), Speaks(by[m])', NEW t \in audience[m]
               PROVE  m \in ToSet(box'[t]) \/ \E h \in fans' : h.msg = m /\ t \in h.left
    BY <1>1 DEF Delivered
  <2>1. m \in Messages /\ t \in Members /\ by[m] \in Sockets \cup Links
    BY <1>4 DEF TextsInv, SaidOnce
  <2>2. by'[m] = by[m]  BY <1>1
  <2>3. CASE by[m] = f.by
    <3>1. UNCHANGED <<sock, cut>> /\ fans' = (fans \ {f}) \cup {g}  BY <2>2, <2>3, <1>7
    <3>2. m \in ToSet(box[t]) \/ \E h \in fans : h.msg = m /\ t \in h.left
      BY <2>3, <1>6 DEF TextsInv, Delivered
    <3>3. CASE m \in ToSet(box[t])  BY <3>3, <2>1, <1>5
    <3>4. ASSUME NEW h \in fans, h.msg = m, t \in h.left
          PROVE  m \in ToSet(box'[t]) \/ \E i \in fans' : i.msg = m /\ t \in i.left
      <4>1. h = f  BY <3>4, <2>3, <1>3 DEF TextsInv, FansSpeak
      <4>2. m = n  BY <4>1, <3>4 DEF n
      <4> QED  BY <4>1, <4>2, <3>1, <3>4, <1>3, <1>5
    <3> QED  BY <3>2, <3>3, <3>4
  <2>4. CASE by[m] # f.by
    <3>1. Speaks(by[m])  BY <2>1, <2>2, <2>4, <1>7 DEF Speaks
    <3>2. m \in ToSet(box[t]) \/ \E h \in fans : h.msg = m /\ t \in h.left
      BY <3>1 DEF TextsInv, Delivered
    <3>3. CASE m \in ToSet(box[t])  BY <3>3, <2>1, <1>5
    <3>4. ASSUME NEW h \in fans, h.msg = m, t \in h.left
          PROVE  \E i \in fans' : i.msg = m /\ t \in i.left
      <4>1. h # f  BY <3>4, <2>4, <1>3 DEF n
      <4> QED  BY <4>1, <3>4, <1>2
    <3> QED  BY <3>2, <3>3, <3>4
  <2> QED  BY <2>3, <2>4
<1>12. InOrder'
  <2> SUFFICES ASSUME NEW p \in Messages, NEW q \in Messages, Precedes(said, p, q),
                      by[p] = by[q], NEW t \in audience[p], q \in ToSet(box'[t])
               PROVE  Precedes(box'[t], p, q)
    BY <1>1 DEF InOrder
  <2>1. t \in Members  BY <1>4
  <2>2. q \in ToSet(box[t]) => Precedes(box[t], p, q)  BY DEF TextsInv, InOrder
  <2>3. CASE q \in ToSet(box[t])  BY <2>1, <2>2, <2>3, <1>5
  <2>4. CASE q \notin ToSet(box[t])
    <3>1. t = s /\ q = n  BY <2>1, <2>4, <1>5
    <3>2. p \in ToSet(said) /\ p # q
      <4>1. PICK i, j \in 1 .. Len(said) : i < j /\ said[i] = p /\ said[j] = q
        BY DEF Precedes
      <4>2. i \in DOMAIN said /\ j \in DOMAIN said  BY <1>4, LenProperties
      <4>3. p \in ToSet(said)  BY <4>1, <4>2 DEF ToSet
      <4>4. Len(said) \in Nat  BY <1>4, LenProperties
      <4>5. i # j  BY <4>1, <4>4
      <4> QED  BY <4>1, <4>2, <4>3, <4>5, <1>4 DEF Distinct
    <3>3. by[p] = f.by  BY <3>1, <1>3
    <3>4. p \in ToSet(box[t]) \/ \E h \in fans : h.msg = p /\ t \in h.left
      BY <3>2, <3>3, <1>6 DEF TextsInv, Delivered
    <3>5. \A h \in fans : h.msg = p => FALSE
      <4> SUFFICES ASSUME NEW h \in fans, h.msg = p PROVE FALSE  OBVIOUS
      <4>1. h = f  BY <3>3, <1>3 DEF TextsInv, FansSpeak
      <4> QED  BY <4>1, <3>1, <3>2 DEF n
    <3> QED  BY <3>1, <3>4, <3>5, <1>5
  <2> QED  BY <2>3, <2>4
<1> QED  BY <1>8, <1>9, <1>10, <1>11, <1>12 DEF TextsInv

\* Who has gone through all its recipients has none left.
LEMMA FanDoneKeepsTexts ==
    ASSUME RoomsInv, TextsInv, NEW f \in fans, FanDone(f)
    PROVE  TextsInv'
<1>1. /\ UNCHANGED <<box, said, by, audience, cut>> /\ f.left = {} /\ fans' = fans \ {f}
  BY DEF FanDone
<1>2. /\ \A k \in Sockets : (sock'[k].stage = "new" <=> sock[k].stage = "new")
                         /\ (sock'[k] = Over <=> sock[k] = Over)
  BY DEF FanDone, To, RoomsInv, Types, Handlers, FansSit, Over, NoHandler
<1>3. TextTypes' /\ InOrder'  BY <1>1 DEF TextsInv, TextTypes, InOrder
<1>4. SaidOnce'  BY <1>1, <1>2 DEF TextsInv, SaidOnce
<1>5. FansSpeak'  BY <1>1 DEF TextsInv, FansSpeak
<1>6. Delivered'
  <2> SUFFICES ASSUME NEW m \in ToSet(said), Speaks(by[m])', NEW s \in audience[m]
               PROVE  m \in ToSet(box[s]) \/ \E h \in fans' : h.msg = m /\ s \in h.left
    BY <1>1 DEF Delivered
  <2>1. by[m] \in Sockets \cup Links
    <3>1. m \in Messages  BY LenProperties DEF TextsInv, TextTypes, ToSet
    <3> QED  BY <3>1 DEF TextsInv, TextTypes, SaidOnce
  <2>2. Speaks(by[m])  BY <2>1, <1>1, <1>2 DEF Speaks
  <2> QED  BY <2>2, <1>1 DEF TextsInv, Delivered
<1> QED  BY <1>3, <1>4, <1>5, <1>6 DEF TextsInv

LEMMA TextsKept == RoomsInv /\ TextsInv /\ [Next]_vars => TextsInv'
<1> SUFFICES ASSUME RoomsInv, TextsInv, [Next]_vars  PROVE TextsInv'  OBVIOUS
<1>1. CASE Next
  BY <1>1, HandshakesKeepTexts, SpeakersKeepTexts, FanOutKeepsTexts, FanDoneKeepsTexts,
     RestartKeepsTexts DEF Next
<1>2. CASE UNCHANGED vars
  <2>1. UNCHANGED texts /\ cut' = cut /\ sock' = sock  BY <1>2 DEF vars
  <2>2. cut' \subseteq Sockets \cup Links  BY <2>1 DEF TextsInv, TextTypes
  <2> QED  BY <2>1, <2>2, QuietKeeps
<1> QED  BY <1>1, <1>2

\* Whoever gets a later text of a page or a peer has got the earlier ones that
\* were meant for him, and before it, whatever breaks in the middle of a fan-out
\* and however the fan-outs of different speakers interleave (server.py:844-904).
THEOREM EarlierTextsFirst == Spec => []NothingSkipped
<1>1. TextsInv => NothingSkipped
  <2> SUFFICES ASSUME TextsInv, NEW i \in 1 .. Len(said), NEW j \in 1 .. Len(said),
                      i < j, by[said[i]] = by[said[j]], NEW s \in audience[said[i]],
                      said[j] \in ToSet(box[s])
               PROVE  Before(s, said[i], said[j])
    BY DEF NothingSkipped
  <2>1. said[i] \in Messages /\ said[j] \in Messages
    BY LenProperties DEF TextsInv, TextTypes
  <2>2. Precedes(said, said[i], said[j])  BY DEF Precedes
  <2>3. Precedes(box[s], said[i], said[j])  BY <2>1, <2>2 DEF TextsInv, InOrder
  <2> QED  BY <2>3 DEF Precedes, Before
<1> QED  BY <1>1, TextsInit, TextsKept, InvHolds, PTL DEF Spec
=============================================================================
