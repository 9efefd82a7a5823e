--------------------------- MODULE RecoveryProofs ---------------------------
(***************************************************************************)
(* Theorems about a session that moves between nodes, for any number of    *)
(* nodes, sockets, messages and faults, where the page opens no socket     *)
(* while a handshake goes on and its user types nothing (SilentUser).      *)
(***************************************************************************)
EXTENDS Recovery, SessionStateProofs

Sessions == Session \cup {NoSession}
Handlers == [node : Nodes \cup {NoNode}, stage : Stages, found : Sessions]

MoveTypes ==
    /\ up \subseteq Nodes /\ live \in [Nodes -> Sessions] /\ disk \in [Nodes -> Sessions]
    /\ sock \in [Sockets -> Handlers] /\ page \in Sockets \cup {NoSocket}
    /\ \A q \in asks : q \in [req : Sockets, to : Nodes, row : Sessions]
    /\ \A a \in answers : a \in [req : Sockets, found : Session]
    /\ arriving \in [Outgoing -> SUBSET Nodes]
    /\ owed \in [Sockets -> SUBSET Outgoing]

\* What a session has buffered it has under seqs it has given.
Numbered(s) == s # NoSession => \A i \in Seqs : s.outbox[i] # NoPayload => i < s.next

\* The tables know no more of a loaded session than memory does.
TablesLag(s, d) == s # NoSession /\ d # NoSession =>
    d.next <= s.next /\ \A i \in Seqs : d.outbox[i] # NoPayload => d.outbox[i] = s.outbox[i]

OneHandshake == \A j, k \in Sockets :
    sock[j].stage \notin Ended /\ sock[k].stage \notin Ended => j = k

\* While a handshake looks for the session, nothing loads it at its node, and
\* while it asks, nothing writes it there; what it is about to install is what
\* the tables hold.
HandshakesWait == \A k \in Sockets : LET h == sock[k] IN
    /\ h.stage # "new" => h.node \in Nodes
    /\ h.stage \in {"record", "query", "answered", "recover", "install"} => live[h.node] = NoSession
    /\ h.stage \in {"query", "answered"} => disk[h.node] = NoSession
    /\ h.stage = "answered" => h.found # NoSession
    /\ h.stage = "install" =>
          h.found = IF disk[h.node] = NoSession THEN FreshSession ELSE disk[h.node]
    /\ h.stage = "serving" => live[h.node] # NoSession

SessionsNumbered ==
    /\ \A n \in Nodes : Numbered(live[n]) /\ Numbered(disk[n]) /\ TablesLag(live[n], disk[n])
    /\ \A k \in Sockets : Numbered(sock[k].found)

\* Between the two reads of a peer's tables nothing changes there, as long as
\* the query waits.
ReadsAgree ==
    /\ \A q \in asks :
          /\ sock[q.req].stage \notin {"new", "check", "record"}
          /\ q.row # NoSession => disk[q.to] # NoSession
          /\ sock[q.req].stage = "query" /\ q.row # NoSession =>
                live[q.to] = NoSession /\ q.row = disk[q.to]
    /\ \A a \in answers :
          /\ sock[a.req].stage \notin {"new", "check", "record"}
          /\ sock[a.req].stage = "query" => Numbered(a.found)

Pending(k) == (\E q \in asks : q.req = k) \/ (\E a \in answers : a.req = k)

\* What was held for the page when its peers were asked is with every peer that
\* has not answered, in every answer, and then in the session that is installed.
OwedKept == \A k \in Sockets : LET h == sock[k] IN
    /\ h.stage \in {"new", "check", "record"} => owed[k] = {}
    /\ h.stage = "query" =>
         /\ \A q \in asks : q.req = k => owed[k] \subseteq Held(q.to) \cup shown
         /\ \A a \in answers : a.req = k => owed[k] \subseteq Buffered(a.found) \cup shown
         /\ Pending(k) \/ owed[k] \subseteq shown
    /\ h.stage = "answered" => owed[k] \subseteq Buffered(h.found) \cup shown
    /\ h.stage \in {"recover", "install"} => owed[k] \subseteq shown
    /\ h.stage = "serving" => owed[k] \subseteq Buffered(live[h.node]) \cup shown

MoveInv == MoveTypes /\ OneHandshake /\ HandshakesWait /\ SessionsNumbered /\ ReadsAgree /\ OwedKept

----------------------------------------------------------------------------
\* Sessions

LEMMA NoSessionIsNone == NoSession \notin Session /\ Sessions \ {NoSession} = Session
  BY RecoveryAssumption DEF Sessions

\* What a session is made of.
LEMMA SessionParts ==
    ASSUME NEW s \in Session
    PROVE  /\ s.next \in Nat /\ s # NoSession
           /\ s.outbox \in [Seqs -> Payloads \cup {NoPayload}]
           /\ Buffered(s) = {s.outbox[i] : i \in Seqs} \ {NoPayload}
  BY NoSessionIsNone, MaxSeqAssumption DEF Session, Buffer, Buffered

LEMMA FreshIsNumbered ==
    FreshSession \in Session /\ Numbered(FreshSession) /\ TablesLag(FreshSession, FreshSession)
<1>1. FreshSession \in Session  BY NewSessionType
<1>2. \A i \in Seqs : FreshSession.outbox[i] = NoPayload
  BY DEF FreshSession, NewSession, EmptyBuffer
<1>3. FreshSession.next \in Nat  BY <1>1, SessionParts
<1> QED  BY <1>1, <1>2, <1>3 DEF Numbered, TablesLag

\* A session is installed as it is found.
LEMMA ResetKeepsOutbound ==
    ASSUME NEW s \in Session, Numbered(s)
    PROVE  /\ ResetInbound(s) \in Session /\ Numbered(ResetInbound(s))
           /\ TablesLag(ResetInbound(s), s) /\ Buffered(ResetInbound(s)) = Buffered(s)
<1>1. /\ ResetInbound(s) \in Session /\ ResetInbound(s).next = s.next
      /\ ResetInbound(s).outbox = s.outbox
  BY ResetInboundType
<1>2. ResetInbound(s) # NoSession /\ s # NoSession /\ s.next \in Nat  BY <1>1, SessionParts
<1> QED  BY <1>1, <1>2 DEF Numbered, TablesLag, Buffered

\* An ACK ends the buffering of one message, in memory and in the tables.
LEMMA AckSettlesOne ==
    ASSUME NEW s \in Session, NEW d \in Session, NEW i \in Seqs,
           Numbered(s), Numbered(d), TablesLag(s, d)
    PROVE  /\ HandleAck(s, i) \in Session /\ Numbered(HandleAck(s, i))
           /\ HandleAck(d, i) \in Session /\ Numbered(HandleAck(d, i))
           /\ TablesLag(HandleAck(s, i), HandleAck(d, i))
           /\ Buffered(s) \subseteq Buffered(HandleAck(s, i)) \cup {s.outbox[i]}
           /\ Buffered(d) \subseteq Buffered(HandleAck(d, i)) \cup {s.outbox[i]}
           /\ HandleAck(d, i).next = d.next
<1>1. /\ HandleAck(s, i) \in Session /\ HandleAck(s, i).next = s.next
      /\ HandleAck(s, i).outbox = [s.outbox EXCEPT ![i] = NoPayload]
      /\ HandleAck(d, i) \in Session /\ HandleAck(d, i).next = d.next
      /\ HandleAck(d, i).outbox = [d.outbox EXCEPT ![i] = NoPayload]
  BY HandleAckType
<1>2. PICK u, v : u = HandleAck(s, i) /\ v = HandleAck(d, i)  OBVIOUS
<1>3. /\ u \in Session /\ u # NoSession /\ u.next = s.next
      /\ v \in Session /\ v # NoSession /\ v.next = d.next
      /\ s # NoSession /\ d # NoSession /\ s.next \in Nat /\ d.next \in Nat
      /\ \A j \in Seqs : /\ u.outbox[j] = IF j = i THEN NoPayload ELSE s.outbox[j]
                         /\ v.outbox[j] = IF j = i THEN NoPayload ELSE d.outbox[j]
  BY <1>1, <1>2, SessionParts
<1>4. Numbered(u) /\ Numbered(v) /\ TablesLag(u, v)  BY <1>3 DEF Numbered, TablesLag
<1>5. /\ Buffered(s) = {s.outbox[j] : j \in Seqs} \ {NoPayload}
      /\ Buffered(d) = {d.outbox[j] : j \in Seqs} \ {NoPayload}
      /\ Buffered(u) = {u.outbox[j] : j \in Seqs} \ {NoPayload}
      /\ Buffered(v) = {v.outbox[j] : j \in Seqs} \ {NoPayload}
  BY <1>3, SessionParts
<1>6. Buffered(s) \subseteq Buffered(u) \cup {s.outbox[i]}  BY <1>3, <1>5
<1>7. Buffered(d) \subseteq Buffered(v) \cup {s.outbox[i]}
  BY <1>3, <1>5 DEF TablesLag
<1> QED  BY <1>1, <1>2, <1>4, <1>6, <1>7

\* What the tables hold once a message is prepared and its writes are made.
Written(d, s, m) == LET t == PrepareOutbound(s, m) IN
    IF d = NoSession THEN NewSession(t.next, 0, [EmptyBuffer EXCEPT ![s.next] = m])
    ELSE Merged(d, [t EXCEPT !.outbox = [EmptyBuffer EXCEPT ![s.next] = m]])

LEMMA WrittenParts ==
    ASSUME NEW s \in Session, NEW d \in Sessions, NEW m \in Outgoing, s.next \in Seqs
    PROVE  /\ Written(d, s, m) \in Session /\ Written(d, s, m).next = s.next + 1
           /\ d = NoSession => \A i \in Seqs :
                 Written(d, s, m).outbox[i] = IF i = s.next THEN m ELSE NoPayload
           /\ d # NoSession => \A i \in Seqs : Written(d, s, m).outbox[i] =
                 IF d.outbox[i] # NoPayload THEN d.outbox[i]
                 ELSE IF i = s.next THEN m ELSE NoPayload
<1> DEFINE e == [EmptyBuffer EXCEPT ![s.next] = m]
           t == PrepareOutbound(s, m)
           u == [t EXCEPT !.outbox = e]
<1>1. m \in Payloads /\ s.next <= MaxSeq  BY MaxSeqAssumption DEF Payloads, Seqs
<1>2. t \in Session /\ t.next = s.next + 1 /\ t.next \in 1 .. MaxSeq + 1
  <2>1. t \in Session /\ t.next = s.next + 1  BY <1>1, PrepareOutboundType
  <2> QED  BY <2>1 DEF Session
<1>3. e \in Buffer /\ \A i \in Seqs : e[i] = IF i = s.next THEN m ELSE NoPayload
  BY <1>1 DEF EmptyBuffer, Buffer
<1> HIDE DEF e, t
<1>4. u \in Session /\ u.next = s.next + 1 /\ u.outbox = e
  BY <1>2, <1>3 DEF Session
<1>5. CASE d = NoSession
  <2>1. Written(d, s, m) = NewSession(t.next, 0, e)  BY <1>5 DEF Written, e, t
  <2>2. NewSession(t.next, 0, e) \in Session
    <3>1. 0 \in 0 .. MaxSeq  BY MaxSeqAssumption
    <3> QED  BY <3>1, <1>2, <1>3, NewSessionType
  <2>3. NewSession(t.next, 0, e).next = t.next /\ NewSession(t.next, 0, e).outbox = e
    BY DEF NewSession
  <2> QED  BY <2>1, <2>2, <2>3, <1>2, <1>3, <1>5
<1>6. CASE d # NoSession
  <2> DEFINE w == [i \in Seqs |-> IF d.outbox[i] = NoPayload THEN u.outbox[i] ELSE d.outbox[i]]
  <2>1. Written(d, s, m) = [u EXCEPT !.outbox = w]
    BY <1>6 DEF Written, Merged, e, t
  <2>2. d \in Session  BY <1>6 DEF Sessions
  <2>3. d.outbox \in [Seqs -> Payloads \cup {NoPayload}]  BY <2>2, SessionParts
  <2>4. w \in Buffer  BY <2>3, <1>3, <1>4 DEF Buffer
  <2>5. \A i \in Seqs : w[i] = IF d.outbox[i] # NoPayload THEN d.outbox[i]
                               ELSE IF i = s.next THEN m ELSE NoPayload
    BY <1>3, <1>4
  <2> HIDE DEF w, u
  <2>6. [u EXCEPT !.outbox = w] \in Session /\ [u EXCEPT !.outbox = w].next = u.next
        /\ [u EXCEPT !.outbox = w].outbox = w
    BY <2>4, <1>4 DEF Session
  <2> QED  BY <2>1, <2>5, <2>6, <1>4, <1>6
<1> QED  BY <1>5, <1>6

\* A new message takes a seq above all the others, in memory and in the tables.
LEMMA MessageAdds ==
    ASSUME NEW s \in Session, NEW d \in Sessions, NEW m \in Outgoing, s.next \in Seqs,
           Numbered(s), Numbered(d), TablesLag(s, d)
    PROVE  /\ PrepareOutbound(s, m) \in Session /\ Numbered(PrepareOutbound(s, m))
           /\ Written(d, s, m) \in Session /\ Numbered(Written(d, s, m))
           /\ TablesLag(PrepareOutbound(s, m), Written(d, s, m))
           /\ Buffered(s) \subseteq Buffered(PrepareOutbound(s, m))
           /\ Buffered(d) \subseteq Buffered(Written(d, s, m))
           /\ d # NoSession => d.next <= Written(d, s, m).next
<1>1. m \in Payloads /\ s.next <= MaxSeq /\ m # NoPayload
  BY MaxSeqAssumption, PayloadAssumption DEF Payloads, Seqs
<1>2. PICK t : t = PrepareOutbound(s, m)  OBVIOUS
<1>3. PICK w : w = Written(d, s, m)  OBVIOUS
<1>4. /\ t \in Session /\ t # NoSession /\ t.next = s.next + 1 /\ s.next \in Nat /\ s # NoSession
      /\ \A i \in Seqs : t.outbox[i] = IF i = s.next THEN m ELSE s.outbox[i]
  <2>1. t \in Session /\ t.next = s.next + 1 /\ t.outbox = [s.outbox EXCEPT ![s.next] = m]
    BY <1>1, <1>2, PrepareOutboundType
  <2> QED  BY <2>1, SessionParts
<1>5. /\ w \in Session /\ w # NoSession /\ w.next = s.next + 1
      /\ d = NoSession => \A i \in Seqs : w.outbox[i] = IF i = s.next THEN m ELSE NoPayload
      /\ d # NoSession => \A i \in Seqs : w.outbox[i] =
            IF d.outbox[i] # NoPayload THEN d.outbox[i]
            ELSE IF i = s.next THEN m ELSE NoPayload
  BY <1>3, WrittenParts, SessionParts
<1>6. \A i \in Seqs : i \in Nat /\ (s.outbox[i] # NoPayload => i < s.next)
  BY <1>4 DEF Numbered, Seqs
<1>7. d # NoSession => /\ d \in Session /\ d.next \in Nat /\ d.next <= s.next
                       /\ \A i \in Seqs : d.outbox[i] # NoPayload =>
                             d.outbox[i] = s.outbox[i] /\ i < s.next
  <2>1. d # NoSession => d \in Session  BY DEF Sessions
  <2> QED  BY <2>1, <1>4, <1>6, SessionParts DEF TablesLag
<1>8. Numbered(t)  BY <1>4, <1>6 DEF Numbered
<1>9. Numbered(w)
  BY <1>4, <1>5, <1>6, <1>7 DEF Numbered
<1>10. TablesLag(t, w)
  BY <1>4, <1>5, <1>6, <1>7 DEF TablesLag
<1>11. Buffered(s) \subseteq Buffered(t)
  <2>1. /\ Buffered(s) = {s.outbox[j] : j \in Seqs} \ {NoPayload}
        /\ Buffered(t) = {t.outbox[j] : j \in Seqs} \ {NoPayload}
    BY <1>4, SessionParts
  <2>2. ASSUME NEW j \in Seqs, s.outbox[j] # NoPayload
        PROVE  t.outbox[j] = s.outbox[j]
    BY <2>2, <1>4, <1>6
  <2> QED  BY <2>1, <2>2
<1>12. Buffered(d) \subseteq Buffered(w)
  <2>1. CASE d = NoSession  BY <2>1 DEF Buffered
  <2>2. CASE d # NoSession
    <3>1. /\ Buffered(d) = {d.outbox[j] : j \in Seqs} \ {NoPayload}
          /\ Buffered(w) = {w.outbox[j] : j \in Seqs} \ {NoPayload}
      BY <2>2, <1>5, <1>7, SessionParts
    <3> QED  BY <2>2, <3>1, <1>5
  <2> QED  BY <2>1, <2>2
<1>13. d # NoSession => d.next <= w.next  BY <1>4, <1>5, <1>7
<1> QED  BY <1>2, <1>3, <1>4, <1>5, <1>8, <1>9, <1>10, <1>11, <1>12, <1>13

----------------------------------------------------------------------------
\* The invariant holds at the start, and every action keeps it.

LEMMA MoveInit == Init => MoveInv
<1> SUFFICES ASSUME Init PROVE MoveInv  OBVIOUS
<1> USE DEF Init, NoHandler
<1>1. MoveTypes  BY DEF MoveTypes, Sessions, Handlers, Stages
<1>2. OneHandshake  BY DEF OneHandshake, Ended
<1>3. HandshakesWait  BY DEF HandshakesWait
<1>4. SessionsNumbered  BY DEF SessionsNumbered, Numbered, TablesLag
<1>5. ReadsAgree  BY DEF ReadsAgree
<1>6. OwedKept  BY DEF OwedKept
<1> QED  BY <1>1, <1>2, <1>3, <1>4, <1>5, <1>6 DEF MoveInv

\* A handler that goes on leaves the others where they are.
LEMMA HandlerMoves ==
    ASSUME MoveTypes, NEW k \in Sockets, NEW stage \in Stages, To(k, stage)
    PROVE  /\ sock' \in [Sockets -> Handlers]
           /\ sock'[k].stage = stage /\ sock'[k].node = sock[k].node /\ sock'[k].found = sock[k].found
           /\ \A j \in Sockets : j # k => sock'[j] = sock[j]
  BY DEF MoveTypes, Handlers, To

\* What is held does not change where nothing is stored.
LEMMA HeldSame ==
    ASSUME UNCHANGED stored, NEW n  PROVE Held(n)' = Held(n)
  BY DEF Held, stored

LEMMA ConnectKeeps ==
    ASSUME MoveInv, ~Overlap, NEW k \in Sockets, NEW n \in Nodes, Connect(k, n)
    PROVE  MoveInv'
<1>1. /\ sock[k].stage = "new" /\ \A j \in Sockets : sock[j].stage \in Ended
      /\ sock' = [sock EXCEPT ![k] = [sock[k] EXCEPT !.node = n, !.stage = "check"]]
      /\ page' = k /\ UNCHANGED <<up, stored, mesh, shown, owed>>
  BY DEF Connect
<1>2. /\ sock' \in [Sockets -> Handlers]
      /\ sock'[k].stage = "check" /\ sock'[k].node = n /\ sock'[k].found = sock[k].found
      /\ \A j \in Sockets : j # k => sock'[j] = sock[j]
  <2>1. sock[k] \in Handlers  BY DEF MoveInv, MoveTypes
  <2>2. PICK h : h = [sock[k] EXCEPT !.node = n, !.stage = "check"]  OBVIOUS
  <2>3. h \in Handlers /\ h.stage = "check" /\ h.node = n /\ h.found = sock[k].found
    BY <2>1, <2>2 DEF Handlers, Stages
  <2>4. sock' = [sock EXCEPT ![k] = h]  BY <2>2, <1>1
  <2> QED  BY <2>3, <2>4 DEF MoveInv, MoveTypes
<1>3. MoveTypes'  BY <1>1, <1>2 DEF MoveInv, MoveTypes, stored, mesh
<1>4. OneHandshake'  BY <1>1, <1>2 DEF OneHandshake
<1>5. HandshakesWait'  BY <1>1, <1>2 DEF MoveInv, HandshakesWait, stored
<1>6. SessionsNumbered'  BY <1>1, <1>2 DEF MoveInv, SessionsNumbered, stored
<1>7. ReadsAgree'
  <2>1. /\ \A q \in asks : q.req # k /\ q.req \in Sockets
        /\ \A a \in answers : a.req # k /\ a.req \in Sockets
    BY <1>1 DEF MoveInv, ReadsAgree, MoveTypes
  <2> QED  BY <2>1, <1>1, <1>2 DEF MoveInv, ReadsAgree, stored, mesh
<1>8. OwedKept'
  <2>1. \A m : Held(m)' = Held(m)  BY <1>1, HeldSame
  <2>2. \A j \in Sockets : Pending(j)' <=> Pending(j)  BY <1>1 DEF Pending, mesh
  <2> QED  BY <2>1, <2>2, <1>1, <1>2 DEF MoveInv, OwedKept, stored, mesh
<1> QED  BY <1>3, <1>4, <1>5, <1>6, <1>7, <1>8 DEF MoveInv

\* A step of a handler that stores nothing and asks nobody.
LEMMA StageKeeps ==
    ASSUME MoveInv, NEW k \in Sockets, NEW stage \in Stages, To(k, stage),
           UNCHANGED <<up, stored, page, mesh, shown>>,
           owed' \in [Sockets -> SUBSET Outgoing],
           \A j \in Sockets : j # k => owed'[j] = owed[j],
           sock[k].stage \notin Ended \/ stage \in Ended,
           sock[k].stage # "new", stage \notin {"new", "check", "query", "answered", "install"},
           stage = "record" => live[sock[k].node] = NoSession /\ owed'[k] = {}
                               /\ sock[k].stage = "check",
           stage = "recover" => live[sock[k].node] = NoSession /\ owed'[k] \subseteq shown,
           stage = "serving" => live[sock[k].node] # NoSession
                                /\ owed'[k] \subseteq Buffered(live[sock[k].node]) \cup shown
    PROVE  MoveInv'
<1>1. /\ sock' \in [Sockets -> Handlers]
      /\ sock'[k].stage = stage /\ sock'[k].node = sock[k].node /\ sock'[k].found = sock[k].found
      /\ \A j \in Sockets : j # k => sock'[j] = sock[j]
  BY HandlerMoves DEF MoveInv
<1>2. MoveTypes'  BY <1>1 DEF MoveInv, MoveTypes, stored, mesh
<1>3. OneHandshake'  BY <1>1 DEF MoveInv, OneHandshake
<1>4. HandshakesWait'  BY <1>1 DEF MoveInv, HandshakesWait, stored
<1>5. SessionsNumbered'  BY <1>1 DEF MoveInv, SessionsNumbered, stored
<1>6. ReadsAgree'
  <2>1. sock'[k].stage = "record" => \A q \in asks : q.req # k
    BY <1>1 DEF MoveInv, ReadsAgree
  <2>2. sock'[k].stage = "record" => \A a \in answers : a.req # k
    BY <1>1 DEF MoveInv, ReadsAgree
  <2>3. \A j \in Sockets : j = k \/ sock'[j] = sock[j]  BY <1>1
  <2>4. /\ \A q \in asks : q.req \in Sockets
        /\ \A a \in answers : a.req \in Sockets
    BY DEF MoveInv, MoveTypes
  <2> QED  BY <2>1, <2>2, <2>3, <2>4, <1>1 DEF MoveInv, ReadsAgree, stored, mesh
<1>7. OwedKept'
  <2>1. \A m : Held(m)' = Held(m)  BY HeldSame
  <2>2. \A j \in Sockets : Pending(j)' <=> Pending(j)  BY DEF Pending, mesh
  <2> QED  BY <2>1, <2>2, <1>1 DEF MoveInv, OwedKept, stored, mesh
<1> QED  BY <1>2, <1>3, <1>4, <1>5, <1>6, <1>7 DEF MoveInv

LEMMA WaitsKeep ==
    ASSUME MoveInv, NEW k \in Sockets, CheckMemory(k) \/ Timeout(k) \/ Cleanup(k)
    PROVE  MoveInv'
<1>0. /\ owed \in [Sockets -> SUBSET Outgoing]  BY DEF MoveInv, MoveTypes
<1>1. CASE CheckMemory(k)
  <2>1. PICK stage \in {"serving", "record"} :
          /\ stage = IF live[sock[k].node] # NoSession THEN "serving" ELSE "record"
          /\ To(k, stage)
    BY <1>1 DEF CheckMemory
  <2>2. sock[k].stage = "check" /\ owed[k] = {}  BY <1>1 DEF CheckMemory, MoveInv, OwedKept
  <2>3. stage \in Stages  BY <2>1 DEF Stages
  <2>4. UNCHANGED <<up, stored, page, mesh, shown, owed>>  BY <1>1 DEF CheckMemory
  <2> QED  BY <2>1, <2>2, <2>3, <2>4, <1>0, StageKeeps DEF Ended
<1>2. CASE Timeout(k)
  <2>1. /\ sock[k].stage = "query" /\ To(k, "recover")
        /\ UNCHANGED <<up, stored, page, mesh, shown>>
    BY <1>2 DEF Timeout, TimedOut
  <2>2. owed' = [owed EXCEPT ![k] = IF Pending(k) THEN {} ELSE owed[k]]
    BY <1>2 DEF Timeout, Pending
  <2>3. live[sock[k].node] = NoSession /\ (Pending(k) \/ owed[k] \subseteq shown)
    BY <2>1 DEF MoveInv, HandshakesWait, OwedKept
  <2>4. owed' \in [Sockets -> SUBSET Outgoing] /\ owed'[k] \subseteq shown
        /\ \A j \in Sockets : j # k => owed'[j] = owed[j]
    BY <2>2, <2>3, <1>0
  <2>5. "recover" \in Stages  BY DEF Stages
  <2> QED  BY <2>1, <2>3, <2>4, <2>5, StageKeeps DEF Ended
<1>3. CASE Cleanup(k)
  <2>1. /\ sock[k].stage = "serving" /\ To(k, "closed")
        /\ UNCHANGED <<up, stored, page, mesh, shown, owed>>
    BY <1>3 DEF Cleanup
  <2>2. "closed" \in Stages  BY DEF Stages
  <2> QED  BY <2>1, <2>2, <1>0, StageKeeps DEF Ended
<1> QED  BY <1>1, <1>2, <1>3

\* The peers are asked for what every one of them holds.
LEMMA CheckRecordKeeps ==
    ASSUME MoveInv, NEW k \in Sockets, CheckRecord(k)
    PROVE  MoveInv'
<1> DEFINE n == sock[k].node
           peers == up \ {n}
<1>0. /\ owed \in [Sockets -> SUBSET Outgoing] /\ sock[k].stage = "record"
      /\ live[n] = NoSession /\ owed[k] = {} /\ n \in Nodes
  BY DEF CheckRecord, MoveInv, MoveTypes, HandshakesWait, OwedKept
<1>1. CASE To(k, "recover") /\ UNCHANGED <<asks, owed>>
  <2>1. UNCHANGED <<up, stored, page, mesh, shown, owed>>
    BY <1>1 DEF CheckRecord, mesh
  <2>2. "recover" \in Stages  BY DEF Stages
  <2> QED  BY <2>1, <2>2, <1>0, <1>1, StageKeeps DEF Ended
<1>2. CASE /\ ~OnDisk(n) /\ peers # {} /\ To(k, "query")
           /\ asks' = asks \cup {[req |-> k, to |-> m, row |-> NoSession] : m \in peers}
           /\ owed' = [owed EXCEPT ![k] =
                 {m \in Outgoing \ shown : Settled(m) /\ \A p \in peers : m \in Held(p)}]
  <2> DEFINE new == {[req |-> k, to |-> m, row |-> NoSession] : m \in peers}
             held == {m \in Outgoing \ shown : Settled(m) /\ \A p \in peers : m \in Held(p)}
  <2>1. UNCHANGED <<up, stored, page, answers, arriving, sent, shown>>  BY DEF CheckRecord
  <2>2. /\ sock' \in [Sockets -> Handlers]
        /\ sock'[k].stage = "query" /\ sock'[k].node = n /\ sock'[k].found = sock[k].found
        /\ \A j \in Sockets : j # k => sock'[j] = sock[j]
    <3>1. "query" \in Stages  BY DEF Stages
    <3> QED  BY <3>1, <1>2, HandlerMoves DEF MoveInv
  <2>3. peers \subseteq Nodes /\ \E p \in peers : TRUE  BY <1>2 DEF MoveInv, MoveTypes
  <2>4. /\ asks' = asks \cup new
        /\ \A q \in new : /\ q \in [req : Sockets, to : Nodes, row : Sessions]
                          /\ q.req = k /\ q.to \in peers /\ q.row = NoSession
        /\ \A p \in peers : \E q \in new : q.req = k /\ q.to = p
    <3>1. asks' = asks \cup new  BY <1>2
    <3>2. ASSUME NEW q \in new
          PROVE  /\ q \in [req : Sockets, to : Nodes, row : Sessions]
                 /\ q.req = k /\ q.to \in peers /\ q.row = NoSession
      BY <2>3 DEF Sessions
    <3>3. ASSUME NEW p \in peers  PROVE \E q \in new : q.req = k /\ q.to = p
      <4>1. PICK r : r = [req |-> k, to |-> p, row |-> NoSession]  OBVIOUS
      <4> QED  BY <4>1
    <3> QED  BY <3>1, <3>2, <3>3
  <2>5. /\ owed' \in [Sockets -> SUBSET Outgoing] /\ owed'[k] = held
        /\ \A j \in Sockets : j # k => owed'[j] = owed[j]
    <3>1. held \in SUBSET Outgoing  OBVIOUS
    <3>2. owed' = [owed EXCEPT ![k] = held]  BY <1>2
    <3> HIDE DEF held
    <3> QED  BY <3>1, <3>2, <1>0
  <2>6. disk[n] = NoSession  BY <1>2 DEF OnDisk
  <2>7. \A p \in peers : held \subseteq Held(p)  OBVIOUS
  <2>8. /\ \A q \in asks : q.req \in Sockets /\ q.req # k
        /\ \A a \in answers : a.req \in Sockets /\ a.req # k
    BY <1>0 DEF MoveInv, MoveTypes, ReadsAgree
  <2> HIDE DEF new, held, peers, n
  <2>9. MoveTypes'  BY <2>1, <2>2, <2>4, <2>5 DEF MoveInv, MoveTypes, stored
  <2>10. OneHandshake'  BY <1>0, <2>2 DEF MoveInv, OneHandshake, Ended
  <2>11. HandshakesWait'  BY <1>0, <2>1, <2>2, <2>6 DEF MoveInv, HandshakesWait, stored
  <2>12. SessionsNumbered'  BY <2>1, <2>2 DEF MoveInv, SessionsNumbered, stored
  <2>13. ReadsAgree'
    <3>1. ASSUME NEW q \in asks'
          PROVE  /\ sock'[q.req].stage \notin {"new", "check", "record"}
                 /\ q.row # NoSession => disk[q.to] # NoSession
                 /\ sock'[q.req].stage = "query" /\ q.row # NoSession =>
                       live[q.to] = NoSession /\ q.row = disk[q.to]
      <4>1. CASE q \in new  BY <4>1, <2>2, <2>4
      <4>2. CASE q \in asks  BY <4>2, <2>2, <2>8 DEF MoveInv, ReadsAgree
      <4> QED  BY <4>1, <4>2, <2>4
    <3>2. ASSUME NEW a \in answers
          PROVE  /\ sock'[a.req].stage \notin {"new", "check", "record"}
                 /\ sock'[a.req].stage = "query" => Numbered(a.found)
      BY <2>2, <2>8 DEF MoveInv, ReadsAgree
    <3> QED  BY <3>1, <3>2, <2>1 DEF ReadsAgree, stored
  <2>14. OwedKept'
    <3>1. \A p : Held(p)' = Held(p)  BY <2>1, HeldSame
    <3>2. \A q \in asks' : q.req = k => q.to \in peers  BY <2>4, <2>8
    <3>3. Pending(k)'  BY <2>3, <2>4 DEF Pending
    <3>4. \A j \in Sockets : j # k =>
            /\ Pending(j)' <=> Pending(j)
            /\ \A q \in asks' : q.req = j => q \in asks
      BY <2>1, <2>4 DEF Pending
    <3>5. \A a \in answers' : a.req # k  BY <2>1, <2>8
    <3>6. ASSUME NEW j \in Sockets, j # k
          PROVE  LET h == sock'[j] IN
            /\ h.stage \in {"new", "check", "record"} => owed'[j] = {}
            /\ h.stage = "query" =>
                 /\ \A q \in asks' : q.req = j => owed'[j] \subseteq Held(q.to)' \cup shown'
                 /\ \A a \in answers' : a.req = j => owed'[j] \subseteq Buffered(a.found) \cup shown'
                 /\ Pending(j)' \/ owed'[j] \subseteq shown'
            /\ h.stage = "answered" => owed'[j] \subseteq Buffered(h.found) \cup shown'
            /\ h.stage \in {"recover", "install"} => owed'[j] \subseteq shown'
            /\ h.stage = "serving" => owed'[j] \subseteq Buffered(live'[h.node]) \cup shown'
      BY <3>1, <3>4, <3>6, <2>1, <2>2, <2>5 DEF MoveInv, OwedKept, stored
    <3>7. \A q \in asks' : q.req = k => owed'[k] \subseteq Held(q.to)'
      BY <3>1, <3>2, <2>5, <2>7
    <3> QED  BY <3>3, <3>5, <3>6, <3>7, <2>2 DEF OwedKept
  <2> QED  BY <2>9, <2>10, <2>11, <2>12, <2>13, <2>14 DEF MoveInv
<1> QED  BY <1>1, <1>2 DEF CheckRecord

\* An answer of a peer, and what becomes of the query it belongs to.
LEMMA AnswersKeep ==
    ASSUME MoveInv, NEW q \in asks, asks' \subseteq asks \cup {[q EXCEPT !.row = disk[q.to]]},
           \A r \in asks : r # q => r \in asks',
           \A r \in asks' : r \in asks \/ (live[q.to] = NoSession /\ disk[q.to] # NoSession),
           NEW s \in Sessions,
           answers' = answers \cup (IF s = NoSession THEN {} ELSE {[req |-> q.req, found |-> s]}),
           UNCHANGED <<up, stored, sock, page, arriving, sent, shown, owed>>,
           sock[q.req].stage = "query" =>
               /\ Numbered(s)
               /\ s # NoSession \/ Held(q.to) = {} \/ \E r \in asks' : r.req = q.req
               /\ s # NoSession => Held(q.to) \subseteq Buffered(s)
    PROVE  MoveInv'
<1>1. q \in [req : Sockets, to : Nodes, row : Sessions]  BY DEF MoveInv, MoveTypes
<1>2. PICK p : p = [q EXCEPT !.row = disk[q.to]]  OBVIOUS
<1>3. /\ p \in [req : Sockets, to : Nodes, row : Sessions]
      /\ p.req = q.req /\ p.to = q.to /\ p.row = disk[q.to]
  <2>1. disk[q.to] \in Sessions  BY <1>1 DEF MoveInv, MoveTypes
  <2> QED  BY <2>1, <1>1, <1>2
<1>4. PICK b : b = [req |-> q.req, found |-> s]  OBVIOUS
<1>5. /\ b.req = q.req /\ b.found = s
      /\ s # NoSession => b \in [req : Sockets, found : Session]
      /\ answers' = answers \cup (IF s = NoSession THEN {} ELSE {b})
  BY <1>1, <1>4 DEF Sessions
<1>6. /\ \A r \in asks' : r \in asks \/ (r = p /\ live[q.to] = NoSession /\ disk[q.to] # NoSession)
      /\ \A a \in answers' : a \in answers \/ (a = b /\ s # NoSession)
  BY <1>2, <1>5
<1>7. MoveTypes'  BY <1>3, <1>5, <1>6 DEF MoveInv, MoveTypes, stored
<1>8. OneHandshake' /\ HandshakesWait' /\ SessionsNumbered'
  BY DEF MoveInv, OneHandshake, HandshakesWait, SessionsNumbered, stored
<1>9. ReadsAgree'
  <2>1. sock[q.req].stage \notin {"new", "check", "record"}  BY DEF MoveInv, ReadsAgree
  <2>2. ASSUME NEW r \in asks'
        PROVE  /\ sock[r.req].stage \notin {"new", "check", "record"}
               /\ r.row # NoSession => disk[r.to] # NoSession
               /\ sock[r.req].stage = "query" /\ r.row # NoSession =>
                     live[r.to] = NoSession /\ r.row = disk[r.to]
    <3>1. CASE r \in asks  BY <3>1 DEF MoveInv, ReadsAgree
    <3>2. CASE r = p /\ live[q.to] = NoSession /\ disk[q.to] # NoSession
      BY <3>2, <2>1, <1>3
    <3> QED  BY <3>1, <3>2, <1>6
  <2>3. ASSUME NEW a \in answers'
        PROVE  /\ sock[a.req].stage \notin {"new", "check", "record"}
               /\ sock[a.req].stage = "query" => Numbered(a.found)
    <3>1. CASE a \in answers  BY <3>1 DEF MoveInv, ReadsAgree
    <3>2. CASE a = b  BY <3>2, <2>1, <1>5
    <3> QED  BY <3>1, <3>2, <1>6
  <2> QED  BY <2>2, <2>3 DEF ReadsAgree, stored
<1>10. OwedKept'
  <2>1. \A m : Held(m)' = Held(m)  BY HeldSame
  <2>2. ASSUME NEW k \in Sockets, sock[k].stage = "query"
        PROVE  /\ \A r \in asks' : r.req = k => owed[k] \subseteq Held(r.to) \cup shown
               /\ \A a \in answers' : a.req = k => owed[k] \subseteq Buffered(a.found) \cup shown
               /\ Pending(k)' \/ owed[k] \subseteq shown
    <3>1. q.req = k => owed[k] \subseteq Held(q.to) \cup shown
      BY <2>2 DEF MoveInv, OwedKept
    <3>2. ASSUME NEW r \in asks', r.req = k  PROVE owed[k] \subseteq Held(r.to) \cup shown
      BY <3>1, <3>2, <2>2, <1>3, <1>6 DEF MoveInv, OwedKept
    <3>3. ASSUME NEW a \in answers', a.req = k
          PROVE  owed[k] \subseteq Buffered(a.found) \cup shown
      <4>1. CASE a \in answers  BY <4>1, <3>3, <2>2 DEF MoveInv, OwedKept
      <4>2. CASE a = b /\ s # NoSession  BY <4>2, <3>1, <3>3, <2>2, <1>5
      <4> QED  BY <4>1, <4>2, <1>6
    <3>4. Pending(k)' \/ owed[k] \subseteq shown
      <4>1. CASE q.req = k
        <5>1. CASE s # NoSession
          <6>1. b \in answers' /\ b.req = k  BY <5>1, <4>1, <1>5
          <6> QED  BY <6>1 DEF Pending
        <5>2. CASE Held(q.to) = {}  BY <5>2, <3>1, <4>1
        <5>3. CASE \E r \in asks' : r.req = q.req  BY <5>3, <4>1 DEF Pending
        <5> QED  BY <5>1, <5>2, <5>3, <4>1, <2>2
      <4>2. CASE q.req # k
        <5>1. Pending(k) \/ owed[k] \subseteq shown  BY <2>2 DEF MoveInv, OwedKept
        <5>2. Pending(k) => Pending(k)'  BY <4>2, <1>5 DEF Pending
        <5> QED  BY <5>1, <5>2
      <4> QED  BY <4>1, <4>2
    <3> QED  BY <3>2, <3>3, <3>4
  <2> QED  BY <2>1, <2>2 DEF MoveInv, OwedKept, stored
<1> QED  BY <1>7, <1>8, <1>9, <1>10 DEF MoveInv

LEMMA ProvideKeeps ==
    ASSUME MoveInv, NEW q \in asks, Provide(q)
    PROVE  MoveInv'
<1>1. /\ q.to \in Nodes /\ q \in [req : Sockets, to : Nodes, row : Sessions]
      /\ live[q.to] \in Sessions /\ disk[q.to] \in Sessions
      /\ Numbered(live[q.to]) /\ q.row = NoSession
  BY DEF MoveInv, MoveTypes, SessionsNumbered, Provide
<1>2. UNCHANGED <<up, stored, sock, page, arriving, sent, shown, owed>>  BY DEF Provide
<1>3. Numbered(NoSession) /\ NoSession \in Sessions  BY DEF Numbered, Sessions
<1>4. CASE live[q.to] # NoSession /\ Reply(q, live[q.to]) /\ asks' = asks \ {q}
  <2>1. Held(q.to) = Buffered(live[q.to])  BY <1>4 DEF Held
  <2> QED  BY <2>1, <1>1, <1>2, <1>4, AnswersKeep DEF Reply
<1>5. CASE /\ live[q.to] = NoSession /\ RowRead(q.to) # NoSession
           /\ asks' = (asks \ {q}) \cup {[q EXCEPT !.row = RowRead(q.to)]}
           /\ UNCHANGED answers
  <2>1. PICK p : p = [q EXCEPT !.row = disk[q.to]]  OBVIOUS
  <2>2. p.req = q.req /\ asks' = (asks \ {q}) \cup {p} /\ disk[q.to] # NoSession
    BY <2>1, <1>1, <1>5 DEF RowRead
  <2>3. \E r \in asks' : r.req = q.req  BY <2>2
  <2> QED  BY <2>1, <2>2, <2>3, <1>1, <1>2, <1>3, <1>5, AnswersKeep
<1>6. CASE /\ live[q.to] = NoSession /\ RowRead(q.to) = NoSession
           /\ asks' = asks \ {q} /\ UNCHANGED answers
  <2>1. Held(q.to) = {}  BY <1>6 DEF Held, Buffered, RowRead
  <2> QED  BY <2>1, <1>1, <1>2, <1>3, <1>6, AnswersKeep
<1> QED  BY <1>4, <1>5, <1>6 DEF Provide

LEMMA ProvideOutboxKeeps ==
    ASSUME MoveInv, NEW q \in asks, ProvideOutbox(q)
    PROVE  MoveInv'
<1> DEFINE d == disk[q.to]
           s == NewSession(q.row.next, q.row.last, d.outbox)
<1>1. /\ q \in [req : Sockets, to : Nodes, row : Sessions] /\ q.row # NoSession
      /\ d # NoSession /\ d \in Session /\ q.row \in Session /\ Numbered(d)
  BY DEF MoveInv, MoveTypes, Sessions, ReadsAgree, SessionsNumbered, ProvideOutbox
<1>2. s \in Session /\ s.next = q.row.next /\ s.outbox = d.outbox
  <2>1. /\ q.row.next \in 1 .. MaxSeq + 1 /\ q.row.last \in 0 .. MaxSeq /\ d.outbox \in Buffer
    BY <1>1 DEF Session
  <2>2. s \in Session  BY <2>1, NewSessionType
  <2> QED  BY <2>2 DEF NewSession
<1>3. UNCHANGED <<up, stored, sock, page, arriving, sent, shown, owed>>
      /\ asks' = asks \ {q} /\ answers' = answers \cup {[req |-> q.req, found |-> s]}
  BY DEF ProvideOutbox, Reply, Snapshot
<1> HIDE DEF s
<1>4. s # NoSession /\ s \in Sessions /\ Buffered(s) = Buffered(d)
  <2>1. s # NoSession /\ s \in Sessions  BY <1>2, SessionParts DEF Sessions
  <2> QED  BY <2>1, <1>1, <1>2 DEF Buffered
<1>5. sock[q.req].stage = "query" => Numbered(s) /\ Held(q.to) \subseteq Buffered(s)
  <2> SUFFICES ASSUME sock[q.req].stage = "query"
               PROVE  Numbered(s) /\ Held(q.to) \subseteq Buffered(s)
    OBVIOUS
  <2>1. live[q.to] = NoSession /\ q.row = d  BY <1>1 DEF MoveInv, ReadsAgree
  <2>2. Held(q.to) = Buffered(d)  BY <2>1 DEF Held
  <2> QED  BY <2>1, <2>2, <1>1, <1>2, <1>4 DEF Numbered
<1> QED  BY <1>1, <1>3, <1>4, <1>5, AnswersKeep

\* The first answer is what the handshake will install; the others are dropped.
LEMMA AnswerKeeps ==
    ASSUME MoveInv, NEW a \in answers, Answer(a)
    PROVE  MoveInv'
<1> DEFINE k == a.req
<1>1. /\ a \in [req : Sockets, found : Session] /\ a.found # NoSession /\ a.found \in Sessions
      /\ answers' = answers \ {a} /\ UNCHANGED <<up, stored, page, asks, arriving, sent, shown, owed>>
  BY NoSessionIsNone DEF Answer, MoveInv, MoveTypes, Sessions
<1>2. \A m : Held(m)' = Held(m)  BY <1>1, HeldSame
<1>3. \A j \in Sockets : j # k /\ Pending(j) => Pending(j)'  BY <1>1 DEF Pending
<1>4. CASE sock[k].stage # "query"
  <2>1. sock' = sock  BY <1>4 DEF Answer
  <2>2. MoveTypes'  BY <2>1, <1>1 DEF MoveInv, MoveTypes, stored
  <2>3. OneHandshake' /\ HandshakesWait' /\ SessionsNumbered' /\ ReadsAgree'
    BY <2>1, <1>1 DEF MoveInv, OneHandshake, HandshakesWait, SessionsNumbered, ReadsAgree, stored
  <2>4. OwedKept'  BY <2>1, <1>1, <1>2, <1>3, <1>4 DEF MoveInv, OwedKept, stored
  <2> QED  BY <2>2, <2>3, <2>4 DEF MoveInv
<1>5. CASE sock[k].stage = "query"
  <2>1. /\ sock' \in [Sockets -> Handlers]
        /\ sock'[k].stage = "answered" /\ sock'[k].node = sock[k].node /\ sock'[k].found = a.found
        /\ \A j \in Sockets : j # k => sock'[j] = sock[j]
    <3>1. sock[k] \in Handlers  BY <1>1 DEF MoveInv, MoveTypes
    <3>2. PICK h : h = [sock[k] EXCEPT !.stage = "answered", !.found = a.found]  OBVIOUS
    <3>3. h \in Handlers /\ h.stage = "answered" /\ h.node = sock[k].node /\ h.found = a.found
      BY <3>1, <3>2, <1>1 DEF Handlers, Stages
    <3>4. sock' = [sock EXCEPT ![k] = h]  BY <3>2, <1>5 DEF Answer
    <3> QED  BY <3>3, <3>4, <1>1 DEF MoveInv, MoveTypes
  <2>2. k \in Sockets /\ Numbered(a.found) /\ owed[k] \subseteq Buffered(a.found) \cup shown
    BY <1>1, <1>5 DEF MoveInv, ReadsAgree, OwedKept
  <2>3. MoveTypes'  BY <2>1, <1>1 DEF MoveInv, MoveTypes, stored
  <2>4. OneHandshake'  BY <2>1, <2>2, <1>5 DEF MoveInv, OneHandshake, Ended
  <2>5. HandshakesWait'  BY <2>1, <2>2, <1>1, <1>5 DEF MoveInv, HandshakesWait, stored
  <2>6. SessionsNumbered'  BY <2>1, <2>2, <1>1 DEF MoveInv, SessionsNumbered, stored
  <2>7. ReadsAgree'
    <3>1. \A j \in Sockets : j = k \/ sock'[j] = sock[j]  BY <2>1
    <3>2. /\ \A q \in asks : q.req \in Sockets
          /\ \A b \in answers : b.req \in Sockets
      BY DEF MoveInv, MoveTypes
    <3> QED  BY <3>1, <3>2, <2>1, <1>1 DEF MoveInv, ReadsAgree, stored
  <2>8. OwedKept'
    BY <2>1, <2>2, <1>1, <1>2, <1>3 DEF MoveInv, OwedKept, stored
  <2> QED  BY <2>3, <2>4, <2>5, <2>6, <2>7, <2>8 DEF MoveInv
<1> QED  BY <1>4, <1>5

\* A session is loaded where there was none; nobody else waits or asks.
LEMMA LoadKeeps ==
    ASSUME MoveInv, NEW k \in Sockets, sock[k].stage \in {"answered", "install"},
           live' = [live EXCEPT ![sock[k].node] = ResetInbound(sock[k].found)],
           sock' = [sock EXCEPT ![k] = [sock[k] EXCEPT !.stage = "serving", !.found = NoSession]],
           disk' \in [Nodes -> Sessions],
           \A m \in Nodes : m # sock[k].node => disk'[m] = disk[m],
           disk'[sock[k].node] \in {NoSession, sock[k].found},
           disk[sock[k].node] # NoSession => disk'[sock[k].node] # NoSession,
           UNCHANGED <<up, page, mesh, shown, owed>>
    PROVE  MoveInv'
<1> DEFINE n == sock[k].node
           s == sock[k].found
           t == ResetInbound(s)
<1>1. n \in Nodes /\ live[n] = NoSession /\ s \in Session /\ Numbered(s)
  <2>1. n \in Nodes /\ live[n] = NoSession  BY DEF MoveInv, HandshakesWait
  <2>2. s \in Sessions /\ disk[n] \in Sessions /\ Numbered(s)
    BY <2>1 DEF MoveInv, MoveTypes, Handlers, SessionsNumbered
  <2>3. s # NoSession
    BY FreshIsNumbered, NoSessionIsNone DEF MoveInv, HandshakesWait
  <2> QED  BY <2>1, <2>2, <2>3 DEF Sessions
<1>2. /\ t \in Session /\ Numbered(t) /\ TablesLag(t, s) /\ Buffered(t) = Buffered(s)
      /\ t # NoSession
  BY <1>1, ResetKeepsOutbound, NoSessionIsNone
<1>3. owed[k] \subseteq Buffered(s) \cup shown  BY DEF MoveInv, OwedKept
<1> HIDE DEF t
<1>4. /\ live' \in [Nodes -> Sessions] /\ live'[n] = t
      /\ \A m \in Nodes : m # n => live'[m] = live[m]
  BY <1>1, <1>2 DEF MoveInv, MoveTypes, Sessions, t
<1>5. /\ sock' \in [Sockets -> Handlers]
      /\ sock'[k].stage = "serving" /\ sock'[k].node = n /\ sock'[k].found = NoSession
      /\ \A j \in Sockets : j # k => sock'[j] = sock[j] /\ sock[j].stage \in Ended
  <2>1. sock[k] \in Handlers  BY DEF MoveInv, MoveTypes
  <2>2. PICK h : h = [sock[k] EXCEPT !.stage = "serving", !.found = NoSession]  OBVIOUS
  <2>3. h \in Handlers /\ h.stage = "serving" /\ h.node = n /\ h.found = NoSession
    BY <2>1, <2>2 DEF Handlers, Stages, Sessions
  <2>4. sock' = [sock EXCEPT ![k] = h]  BY <2>2
  <2>5. \A j \in Sockets : j # k => sock[j].stage \in Ended
    BY DEF MoveInv, OneHandshake, Ended
  <2> QED  BY <2>3, <2>4, <2>5 DEF MoveInv, MoveTypes
<1>6. \A j \in Sockets : sock[j].stage = "serving" => sock[j].node # n
  BY <1>1 DEF MoveInv, HandshakesWait
<1>7. \A j \in Sockets : sock'[j].stage \in Ended  BY <1>5 DEF Ended
<1>8. disk'[n] \in {NoSession, s}  OBVIOUS
<1> HIDE DEF n, s
<1>9. MoveTypes'  BY <1>4, <1>5 DEF MoveInv, MoveTypes, mesh
<1>10. OneHandshake'  BY <1>7 DEF OneHandshake
<1>11. HandshakesWait'
  BY <1>1, <1>2, <1>4, <1>5, <1>6 DEF MoveInv, HandshakesWait, Ended
<1>12. SessionsNumbered'
  <2>1. Numbered(NoSession) /\ TablesLag(t, NoSession)  BY DEF Numbered, TablesLag
  <2>2. ASSUME NEW m \in Nodes
        PROVE  Numbered(live'[m]) /\ Numbered(disk'[m]) /\ TablesLag(live'[m], disk'[m])
    <3>1. CASE m = n
      <4>1. CASE disk'[n] = NoSession  BY <4>1, <3>1, <2>1, <1>2, <1>4
      <4>2. CASE disk'[n] = s  BY <4>2, <3>1, <1>1, <1>2, <1>4
      <4> QED  BY <4>1, <4>2, <1>8
    <3>2. CASE m # n
      <4>1. live'[m] = live[m] /\ disk'[m] = disk[m]  BY <3>2, <1>4 DEF n
      <4> QED  BY <4>1 DEF MoveInv, SessionsNumbered
    <3> QED  BY <3>1, <3>2
  <2>3. \A j \in Sockets : Numbered(sock'[j].found)
    BY <2>1, <1>5 DEF MoveInv, SessionsNumbered
  <2> QED  BY <2>2, <2>3 DEF SessionsNumbered
<1>13. ReadsAgree'
  <2>1. /\ \A q \in asks : q.req \in Sockets /\ q.to \in Nodes
        /\ \A a \in answers : a.req \in Sockets
    BY DEF MoveInv, MoveTypes
  <2>2. \A m \in Nodes : disk[m] # NoSession => disk'[m] # NoSession  BY DEF n
  <2>3. \A j \in Sockets : sock[j].stage \notin {"new", "check", "record"} =>
            sock'[j].stage \notin {"new", "check", "record", "query"}
    BY <1>5, <1>7 DEF Ended
  <2> QED  BY <2>1, <2>2, <2>3 DEF MoveInv, ReadsAgree, mesh
<1>14. OwedKept'
  BY <1>1, <1>2, <1>3, <1>4, <1>5, <1>6 DEF MoveInv, OwedKept, HandshakesWait, Ended
<1> QED  BY <1>9, <1>10, <1>11, <1>12, <1>13, <1>14 DEF MoveInv

LEMMA InstallKeeps ==
    ASSUME MoveInv, NEW k \in Sockets, Hydrate(k) \/ Install(k)
    PROVE  MoveInv'
<1> DEFINE n == sock[k].node
           s == sock[k].found
<1>1. CASE Hydrate(k)
  <2>1. /\ n \in Nodes /\ disk[n] = NoSession /\ s \in Sessions
        /\ disk \in [Nodes -> Sessions] /\ sock[k].stage = "answered"
    BY <1>1 DEF Hydrate, MoveInv, MoveTypes, Handlers, HandshakesWait
  <2>2. disk' = [disk EXCEPT ![n] = s]  BY <2>1, <1>1 DEF Hydrate, Merged
  <2>3. /\ disk' \in [Nodes -> Sessions] /\ disk'[n] = s
        /\ \A m \in Nodes : m # n => disk'[m] = disk[m]
    BY <2>1, <2>2
  <2> QED  BY <2>1, <2>3, <1>1, LoadKeeps DEF Hydrate
<1>2. CASE Install(k)
  <2>1. /\ n \in Nodes /\ sock[k].stage = "install" /\ disk \in [Nodes -> Sessions]
        /\ s = IF disk[n] = NoSession THEN FreshSession ELSE disk[n]
    BY <1>2 DEF Install, MoveInv, MoveTypes, HandshakesWait
  <2>2. disk[n] \in {NoSession, s}  BY <2>1
  <2> QED  BY <2>1, <2>2, <1>2, LoadKeeps DEF Install
<1> QED  BY <1>1, <1>2

LEMMA GetOrCreateKeeps ==
    ASSUME MoveInv, NEW k \in Sockets, GetOrCreate(k)
    PROVE  MoveInv'
<1> DEFINE n == sock[k].node
           s == IF disk[n] = NoSession THEN FreshSession ELSE disk[n]
<1>1. /\ sock[k].stage = "recover" /\ n \in Nodes /\ live[n] = NoSession
      /\ disk[n] \in Sessions /\ Numbered(disk[n])
      /\ UNCHANGED <<up, stored, page, mesh, shown, owed>>
      /\ sock' = [sock EXCEPT ![k] = [sock[k] EXCEPT !.stage = "install", !.found = s]]
  BY DEF GetOrCreate, MoveInv, MoveTypes, HandshakesWait, SessionsNumbered
<1>2. s \in Sessions /\ Numbered(s)  BY <1>1, FreshIsNumbered DEF Sessions
<1>3. owed[k] \subseteq shown  BY <1>1 DEF MoveInv, OwedKept
<1>4. /\ sock' \in [Sockets -> Handlers]
      /\ sock'[k].stage = "install" /\ sock'[k].node = n /\ sock'[k].found = s
      /\ \A j \in Sockets : j # k => sock'[j] = sock[j]
  <2>1. sock[k] \in Handlers  BY DEF MoveInv, MoveTypes
  <2>2. PICK h : h = [sock[k] EXCEPT !.stage = "install", !.found = s]  OBVIOUS
  <2>3. h \in Handlers /\ h.stage = "install" /\ h.node = n /\ h.found = s
    BY <2>1, <2>2, <1>2 DEF Handlers, Stages
  <2>4. sock' = [sock EXCEPT ![k] = h]  BY <2>2, <1>1
  <2> QED  BY <2>3, <2>4 DEF MoveInv, MoveTypes
<1>5. MoveTypes'  BY <1>1, <1>4 DEF MoveInv, MoveTypes, stored, mesh
<1>6. OneHandshake'  BY <1>1, <1>4 DEF MoveInv, OneHandshake, Ended
<1>7. HandshakesWait'  BY <1>1, <1>4 DEF MoveInv, HandshakesWait, stored
<1>8. SessionsNumbered'  BY <1>1, <1>2, <1>4 DEF MoveInv, SessionsNumbered, stored
<1>9. ReadsAgree'
  <2>1. \A j \in Sockets : j = k \/ sock'[j] = sock[j]  BY <1>4
  <2>2. /\ \A q \in asks : q.req \in Sockets
        /\ \A a \in answers : a.req \in Sockets
    BY DEF MoveInv, MoveTypes
  <2> QED  BY <2>1, <2>2, <1>1, <1>4 DEF MoveInv, ReadsAgree, stored, mesh
<1>10. OwedKept'
  <2>1. \A m : Held(m)' = Held(m)  BY <1>1, HeldSame
  <2>2. \A j \in Sockets : Pending(j)' <=> Pending(j)  BY <1>1 DEF Pending, mesh
  <2> QED  BY <2>1, <2>2, <1>1, <1>3, <1>4 DEF MoveInv, OwedKept, stored, mesh
<1> QED  BY <1>5, <1>6, <1>7, <1>8, <1>9, <1>10 DEF MoveInv

\* The session of a node takes in a message or an ACK, in memory and in the
\* tables; nobody waits at a node where it is loaded.
LEMMA StoreKeeps ==
    ASSUME MoveInv, NEW n \in Nodes, live[n] # NoSession, NEW t \in Session, NEW e \in Sessions,
           live' = [live EXCEPT ![n] = t], disk' = [disk EXCEPT ![n] = e],
           Numbered(t), Numbered(e), TablesLag(t, e), disk[n] # NoSession => e # NoSession,
           Buffered(live[n]) \subseteq Buffered(t) \cup shown', shown \subseteq shown',
           page' \in Sockets \cup {NoSocket}, arriving' \in [Outgoing -> SUBSET Nodes],
           UNCHANGED <<up, sock, asks, answers, owed>>
    PROVE  MoveInv'
<1>1. /\ live' \in [Nodes -> Sessions] /\ live'[n] = t /\ t # NoSession
      /\ disk' \in [Nodes -> Sessions] /\ disk'[n] = e
      /\ \A m \in Nodes : m # n => live'[m] = live[m] /\ disk'[m] = disk[m]
  BY NoSessionIsNone DEF MoveInv, MoveTypes, Sessions
<1>2. MoveTypes'  BY <1>1 DEF MoveInv, MoveTypes
<1>3. OneHandshake'  BY DEF MoveInv, OneHandshake
<1>4. HandshakesWait'
  <2>1. \A k \in Sockets : sock[k].stage \in {"record", "query", "answered", "recover", "install"} =>
            sock[k].node \in Nodes /\ sock[k].node # n
    BY DEF MoveInv, HandshakesWait
  <2> QED  BY <2>1, <1>1 DEF MoveInv, HandshakesWait
<1>5. SessionsNumbered'  BY <1>1 DEF MoveInv, SessionsNumbered
<1>6. ReadsAgree'
  <2>1. \A q \in asks : q.to \in Nodes  BY DEF MoveInv, MoveTypes
  <2> QED  BY <2>1, <1>1 DEF MoveInv, ReadsAgree
<1>7. \A m \in Nodes : Held(m) \subseteq Held(m)' \cup shown'
  <2> SUFFICES ASSUME NEW m \in Nodes PROVE Held(m) \subseteq Held(m)' \cup shown'  OBVIOUS
  <2>1. CASE m = n
    <3>1. Held(m) = Buffered(live[n]) /\ Held(m)' = Buffered(t)
      BY <2>1, <1>1 DEF Held
    <3> QED  BY <3>1
  <2>2. CASE m # n
    <3>1. Held(m)' = Held(m)  BY <2>2, <1>1 DEF Held
    <3> QED  BY <3>1
  <2> QED  BY <2>1, <2>2
<1>8. OwedKept'
  <2>1. \A j \in Sockets : Pending(j)' <=> Pending(j)  BY DEF Pending
  <2>2. \A q \in asks : q.to \in Nodes  BY DEF MoveInv, MoveTypes
  <2>3. \A j \in Sockets : sock[j].stage = "serving" => sock[j].node \in Nodes
    BY DEF MoveInv, HandshakesWait
  <2>4. \A m \in Nodes : Buffered(live[m]) \subseteq Buffered(live'[m]) \cup shown'
    BY <1>1
  <2>5. ASSUME NEW k \in Sockets
        PROVE  LET h == sock[k] IN
            /\ h.stage \in {"new", "check", "record"} => owed[k] = {}
            /\ h.stage = "query" =>
                 /\ \A q \in asks : q.req = k => owed[k] \subseteq Held(q.to)' \cup shown'
                 /\ \A a \in answers : a.req = k => owed[k] \subseteq Buffered(a.found) \cup shown'
                 /\ Pending(k)' \/ owed[k] \subseteq shown'
            /\ h.stage = "answered" => owed[k] \subseteq Buffered(h.found) \cup shown'
            /\ h.stage \in {"recover", "install"} => owed[k] \subseteq shown'
            /\ h.stage = "serving" => owed[k] \subseteq Buffered(live'[h.node]) \cup shown'
    <3>1. sock[k].stage = "query" => \A q \in asks : q.req = k => owed[k] \subseteq Held(q.to)' \cup shown'
      <4> SUFFICES ASSUME sock[k].stage = "query", NEW q \in asks, q.req = k
                   PROVE  owed[k] \subseteq Held(q.to)' \cup shown'
        OBVIOUS
      <4>1. owed[k] \subseteq Held(q.to) \cup shown  BY DEF MoveInv, OwedKept
      <4>2. Held(q.to) \subseteq Held(q.to)' \cup shown'  BY <1>7, <2>2
      <4> QED  BY <4>1, <4>2
    <3>2. sock[k].stage = "serving" => owed[k] \subseteq Buffered(live'[sock[k].node]) \cup shown'
      <4> SUFFICES ASSUME sock[k].stage = "serving"
                   PROVE  owed[k] \subseteq Buffered(live'[sock[k].node]) \cup shown'
        OBVIOUS
      <4>1. owed[k] \subseteq Buffered(live[sock[k].node]) \cup shown  BY DEF MoveInv, OwedKept
      <4> QED  BY <4>1, <2>3, <2>4
    <3> QED  BY <3>1, <3>2, <2>1 DEF MoveInv, OwedKept
  <2> QED  BY <2>5 DEF OwedKept
<1> QED  BY <1>2, <1>3, <1>4, <1>5, <1>6, <1>8 DEF MoveInv

\* Steps that touch no handler, no session and no query.
LEMMA OthersKeep ==
    ASSUME MoveInv, UNCHANGED <<stored, sock, asks, answers, shown, owed>>,
           up' \subseteq Nodes, page' \in Sockets \cup {NoSocket},
           arriving' \in [Outgoing -> SUBSET Nodes]
    PROVE  MoveInv'
<1>1. MoveTypes'  BY DEF MoveInv, MoveTypes, stored
<1>2. OneHandshake' /\ HandshakesWait' /\ SessionsNumbered' /\ ReadsAgree'
  BY DEF MoveInv, OneHandshake, HandshakesWait, SessionsNumbered, ReadsAgree, stored
<1>3. OwedKept'
  <2>1. \A m : Held(m)' = Held(m)  BY HeldSame
  <2>2. \A j \in Sockets : Pending(j)' <=> Pending(j)  BY DEF Pending
  <2> QED  BY <2>1, <2>2 DEF MoveInv, OwedKept, stored
<1> QED  BY <1>1, <1>2, <1>3 DEF MoveInv

LEMMA NetworkKeeps ==
    ASSUME MoveInv,
           \/ \E m \in Outgoing : Send(m)
           \/ Leave
           \/ \E n \in Nodes : Start(n)
    PROVE  MoveInv'
<1>1. /\ up \subseteq Nodes /\ page \in Sockets \cup {NoSocket}
      /\ arriving \in [Outgoing -> SUBSET Nodes]
  BY DEF MoveInv, MoveTypes
<1>2. ASSUME NEW m \in Outgoing, Send(m)  PROVE MoveInv'
  BY <1>1, <1>2, OthersKeep DEF Send
<1>3. CASE Leave  BY <1>1, <1>3, OthersKeep DEF Leave, mesh
<1>4. ASSUME NEW n \in Nodes, Start(n)  PROVE MoveInv'
  BY <1>1, <1>4, OthersKeep DEF Start, mesh
<1> QED  BY <1>2, <1>3, <1>4

\* What a message does to the session of a node.
LEMMA ArriveStores ==
    ASSUME MoveInv, NEW m \in Outgoing, NEW n \in Nodes, Arrive(m, n), live[n] # NoSession
    PROVE  /\ live[n] \in Session /\ live[n].next \in Seqs /\ disk[n] \in Sessions
           /\ Numbered(live[n]) /\ Numbered(disk[n]) /\ TablesLag(live[n], disk[n])
           /\ live' = [live EXCEPT ![n] = PrepareOutbound(live[n], m)]
           /\ disk' = [disk EXCEPT ![n] = Written(disk[n], live[n], m)]
<1>1. /\ live[n] \in Session /\ disk[n] \in Sessions /\ disk \in [Nodes -> Sessions]
      /\ Numbered(live[n]) /\ Numbered(disk[n]) /\ TablesLag(live[n], disk[n])
  BY DEF MoveInv, MoveTypes, SessionsNumbered, Sessions
<1> QED  BY <1>1 DEF Arrive, Written

LEMMA ArriveKeeps ==
    ASSUME MoveInv, NEW m \in Outgoing, NEW n \in Nodes, Arrive(m, n)
    PROVE  MoveInv'
<1>1. /\ arriving' \in [Outgoing -> SUBSET Nodes] /\ page \in Sockets \cup {NoSocket}
      /\ up \subseteq Nodes /\ UNCHANGED <<up, sock, page, asks, answers, shown, owed>>
  BY DEF Arrive, MoveInv, MoveTypes
<1>2. CASE live[n] = NoSession
  <2>1. UNCHANGED stored  BY <1>2 DEF Arrive
  <2> QED  BY <2>1, <1>1, OthersKeep
<1>3. CASE live[n] # NoSession
  <2> DEFINE t == PrepareOutbound(live[n], m)
             e == Written(disk[n], live[n], m)
  <2>1. /\ live[n] \in Session /\ live[n].next \in Seqs /\ disk[n] \in Sessions
        /\ Numbered(live[n]) /\ Numbered(disk[n]) /\ TablesLag(live[n], disk[n])
        /\ live' = [live EXCEPT ![n] = t] /\ disk' = [disk EXCEPT ![n] = e]
    BY <1>3, ArriveStores
  <2>2. /\ t \in Session /\ Numbered(t) /\ e \in Session /\ Numbered(e) /\ TablesLag(t, e)
        /\ Buffered(live[n]) \subseteq Buffered(t)
    BY <2>1, MessageAdds
  <2> HIDE DEF t, e
  <2>3. e \in Sessions /\ e # NoSession  BY <2>2, NoSessionIsNone DEF Sessions
  <2> QED  BY <2>1, <2>2, <2>3, <1>1, <1>3, StoreKeeps
<1> QED  BY <1>2, <1>3

\* What the ACK of a displayed message does to the session of the page's node.
LEMMA ShowStores ==
    ASSUME MoveInv, NEW i \in Seqs, Show(i)
    PROVE  LET n == sock[page].node IN
           /\ page \in Sockets /\ n \in Nodes /\ live[n] # NoSession
           /\ live[n] \in Session /\ disk[n] \in Sessions
           /\ Numbered(live[n]) /\ Numbered(disk[n]) /\ TablesLag(live[n], disk[n])
<1>1. page \in Sockets /\ sock[page].stage = "serving"
  BY DEF Show, MoveInv, MoveTypes
<1>2. sock[page].node \in Nodes /\ live[sock[page].node] # NoSession
  BY <1>1 DEF MoveInv, HandshakesWait
<1> QED  BY <1>1, <1>2 DEF MoveInv, MoveTypes, SessionsNumbered, Sessions

\* With the tables empty the ACK changes memory alone.
LEMMA AckWithoutRow ==
    ASSUME NEW s \in Session, NEW i \in Seqs, Numbered(s)
    PROVE  /\ HandleAck(s, i) \in Session /\ Numbered(HandleAck(s, i))
           /\ Buffered(s) \subseteq Buffered(HandleAck(s, i)) \cup {s.outbox[i]}
<1>1. s # NoSession /\ TablesLag(s, s)
  BY SessionParts DEF TablesLag
<1> QED  BY <1>1, AckSettlesOne

LEMMA ShowKeeps ==
    ASSUME MoveInv, NEW i \in Seqs, Show(i)
    PROVE  MoveInv'
<1> DEFINE n == sock[page].node
<1>1. /\ page \in Sockets /\ n \in Nodes /\ live[n] # NoSession
      /\ live[n] \in Session /\ disk[n] \in Sessions
      /\ Numbered(live[n]) /\ Numbered(disk[n]) /\ TablesLag(live[n], disk[n])
  BY ShowStores
<1>2. /\ shown' = shown \cup {live[n].outbox[i]}
      /\ UNCHANGED <<up, sock, asks, answers, owed>>
      /\ page' \in Sockets \cup {NoSocket} /\ arriving' \in [Outgoing -> SUBSET Nodes]
      /\ live \in [Nodes -> Sessions] /\ disk \in [Nodes -> Sessions]
  BY <1>1 DEF Show, mesh, MoveInv, MoveTypes
<1>3. CASE /\ live' = [live EXCEPT ![n] = HandleAck(live[n], i)]
           /\ disk' = [disk EXCEPT ![n] = IF disk[n] = NoSession THEN NoSession ELSE HandleAck(disk[n], i)]
  <2>1. CASE disk[n] = NoSession
    <3>1. /\ HandleAck(live[n], i) \in Session /\ Numbered(HandleAck(live[n], i))
          /\ Buffered(live[n]) \subseteq Buffered(HandleAck(live[n], i)) \cup {live[n].outbox[i]}
      BY <1>1, AckWithoutRow
    <3>2. PICK t : t = HandleAck(live[n], i)  OBVIOUS
    <3>3. /\ NoSession \in Sessions /\ Numbered(NoSession) /\ TablesLag(t, NoSession)
      BY DEF Sessions, Numbered, TablesLag
    <3>4. disk' = [disk EXCEPT ![n] = NoSession]  BY <1>3, <2>1
    <3> QED  BY <3>1, <3>2, <3>3, <3>4, <1>1, <1>2, <1>3, <2>1, StoreKeeps
  <2>2. CASE disk[n] # NoSession
    <3>1. disk[n] \in Session  BY <2>2, <1>1 DEF Sessions
    <3>2. /\ HandleAck(live[n], i) \in Session /\ Numbered(HandleAck(live[n], i))
          /\ HandleAck(disk[n], i) \in Session /\ Numbered(HandleAck(disk[n], i))
          /\ TablesLag(HandleAck(live[n], i), HandleAck(disk[n], i))
          /\ Buffered(live[n]) \subseteq Buffered(HandleAck(live[n], i)) \cup {live[n].outbox[i]}
      BY <3>1, <1>1, AckSettlesOne
    <3>3. PICK t, e : t = HandleAck(live[n], i) /\ e = HandleAck(disk[n], i)  OBVIOUS
    <3>4. e \in Sessions /\ e # NoSession  BY <3>2, <3>3, NoSessionIsNone DEF Sessions
    <3>5. live' = [live EXCEPT ![n] = t] /\ disk' = [disk EXCEPT ![n] = e]
      BY <1>3, <2>2, <3>3
    <3>6. Buffered(live[n]) \subseteq Buffered(t) \cup shown' /\ shown \subseteq shown'
      BY <3>2, <3>3, <1>2
    <3> QED  BY <3>2, <3>3, <3>4, <3>5, <3>6, <1>1, <1>2, StoreKeeps
  <2> QED  BY <2>1, <2>2
<1>4. CASE UNCHANGED stored
  <2>1. live' = [live EXCEPT ![n] = live[n]] /\ disk' = [disk EXCEPT ![n] = disk[n]]
    BY <1>1, <1>2, <1>4 DEF stored
  <2> QED  BY <2>1, <1>1, <1>2, StoreKeeps
<1>5. \/ /\ live' = [live EXCEPT ![n] = HandleAck(live[n], i)]
         /\ disk' = [disk EXCEPT ![n] = IF disk[n] = NoSession THEN NoSession ELSE HandleAck(disk[n], i)]
      \/ UNCHANGED stored
  <2>1. CASE disk[n] = NoSession  BY <2>1, <1>1, <1>2 DEF Show
  <2>2. CASE disk[n] # NoSession  BY <2>2, <1>1, <1>2 DEF Show
  <2> QED  BY <2>1, <2>2
<1> QED  BY <1>3, <1>4, <1>5

\* A crash takes a node's session and its handshakes, and what it was asked.
LEMMA CrashKeeps ==
    ASSUME MoveInv, NEW n \in Nodes, Crash(n)
    PROVE  MoveInv'
<1> DEFINE mine == {k \in Sockets : sock[k].node = n}
<1>1. /\ up' = up \ {n} /\ live' = [live EXCEPT ![n] = NoSession] /\ disk' = disk
      /\ asks' = {q \in asks : q.to # n /\ q.req \notin mine}
      /\ answers' = {a \in answers : a.req \notin mine}
      /\ arriving' = [m \in Outgoing |-> arriving[m] \ {n}]
      /\ owed' = [k \in Sockets |-> {}] /\ shown' = shown
      /\ page' \in {NoSocket, page}
  BY DEF Crash
<1>2. /\ sock' \in [Sockets -> Handlers]
      /\ \A k \in Sockets : sock[k].node = n =>
            sock'[k].stage = "closed" /\ sock'[k].node = n /\ sock'[k].found = NoSession
      /\ \A k \in Sockets : sock[k].node # n => sock'[k] = sock[k]
  <2>1. sock' = [k \in Sockets |-> IF k \in mine THEN [sock[k] EXCEPT !.stage = "closed", !.found = NoSession]
                                   ELSE sock[k]]
    BY DEF Crash
  <2>2. ASSUME NEW k \in Sockets
        PROVE  /\ sock'[k] \in Handlers
               /\ sock[k].node = n => /\ sock'[k].stage = "closed" /\ sock'[k].node = n
                                      /\ sock'[k].found = NoSession
               /\ sock[k].node # n => sock'[k] = sock[k]
    <3>1. sock[k] \in Handlers  BY DEF MoveInv, MoveTypes
    <3>2. PICK h : h = [sock[k] EXCEPT !.stage = "closed", !.found = NoSession]  OBVIOUS
    <3>3. h \in Handlers /\ h.stage = "closed" /\ h.node = sock[k].node /\ h.found = NoSession
      BY <3>1, <3>2 DEF Handlers, Stages, Sessions
    <3>4. sock'[k] = IF sock[k].node = n THEN h ELSE sock[k]  BY <2>1, <3>2
    <3> QED  BY <3>1, <3>3, <3>4
  <2> QED  BY <2>1, <2>2
<1>3. /\ live' \in [Nodes -> Sessions] /\ live'[n] = NoSession
      /\ \A m \in Nodes : m # n => live'[m] = live[m]
  BY <1>1 DEF MoveInv, MoveTypes, Sessions
<1>4. /\ \A q \in asks' : q \in asks /\ q.to \in Nodes /\ q.to # n /\ q.req \in Sockets /\ sock[q.req].node # n
      /\ \A a \in answers' : a \in answers /\ a.req \in Sockets /\ sock[a.req].node # n
  BY <1>1 DEF MoveInv, MoveTypes
<1> HIDE DEF mine
<1>5. MoveTypes'
  <2>1. arriving' \in [Outgoing -> SUBSET Nodes] /\ owed' \in [Sockets -> SUBSET Outgoing]
    BY <1>1 DEF MoveInv, MoveTypes
  <2> QED  BY <2>1, <1>1, <1>2, <1>3, <1>4 DEF MoveInv, MoveTypes
<1>6. OneHandshake'  BY <1>2 DEF MoveInv, OneHandshake, Ended
<1>7. HandshakesWait'
  <2> SUFFICES ASSUME NEW k \in Sockets
               PROVE  LET h == sock'[k] IN
                  /\ h.stage # "new" => h.node \in Nodes
                  /\ h.stage \in {"record", "query", "answered", "recover", "install"} =>
                        live'[h.node] = NoSession
                  /\ h.stage \in {"query", "answered"} => disk[h.node] = NoSession
                  /\ h.stage = "answered" => h.found # NoSession
                  /\ h.stage = "install" =>
                        h.found = IF disk[h.node] = NoSession THEN FreshSession ELSE disk[h.node]
                  /\ h.stage = "serving" => live'[h.node] # NoSession
    BY <1>1 DEF HandshakesWait
  <2>1. CASE sock[k].node = n  BY <2>1, <1>2
  <2>2. CASE sock[k].node # n  BY <2>2, <1>2, <1>3 DEF MoveInv, HandshakesWait
  <2> QED  BY <2>1, <2>2
<1>8. SessionsNumbered'
  <2>1. Numbered(NoSession) /\ \A d : TablesLag(NoSession, d)  BY DEF Numbered, TablesLag
  <2>2. ASSUME NEW m \in Nodes
        PROVE  Numbered(live'[m]) /\ Numbered(disk[m]) /\ TablesLag(live'[m], disk[m])
    <3>1. CASE m = n  BY <3>1, <2>1, <1>3 DEF MoveInv, SessionsNumbered
    <3>2. CASE m # n  BY <3>2, <1>3 DEF MoveInv, SessionsNumbered
    <3> QED  BY <3>1, <3>2
  <2>3. ASSUME NEW k \in Sockets  PROVE Numbered(sock'[k].found)
    <3>1. CASE sock[k].node = n  BY <3>1, <2>1, <1>2
    <3>2. CASE sock[k].node # n  BY <3>2, <1>2 DEF MoveInv, SessionsNumbered
    <3> QED  BY <3>1, <3>2
  <2> QED  BY <2>2, <2>3, <1>1 DEF SessionsNumbered
<1>9. ReadsAgree'  BY <1>1, <1>2, <1>3, <1>4 DEF MoveInv, ReadsAgree
<1>10. OwedKept'
  <2>1. \A k \in Sockets : owed'[k] = {}  BY <1>1
  <2> QED  BY <2>1 DEF OwedKept
<1> QED  BY <1>5, <1>6, <1>7, <1>8, <1>9, <1>10 DEF MoveInv

LEMMA MoveInductive == ~Overlap /\ MoveInv /\ [Next]_vars => MoveInv'
<1> SUFFICES ASSUME ~Overlap, MoveInv, [Next]_vars  PROVE MoveInv'  OBVIOUS
<1>1. CASE Next
  <2>1. ASSUME NEW k \in Sockets, Handshake(k)  PROVE MoveInv'
    BY <2>1, WaitsKeep, CheckRecordKeeps, InstallKeeps, GetOrCreateKeeps DEF Handshake
  <2> QED  BY <2>1, <1>1, ConnectKeeps, ProvideKeeps, ProvideOutboxKeeps, AnswerKeeps,
              NetworkKeeps, ArriveKeeps, ShowKeeps, CrashKeeps DEF Next
<1>2. CASE UNCHANGED vars
  <2>1. up \subseteq Nodes /\ page \in Sockets \cup {NoSocket}
        /\ arriving \in [Outgoing -> SUBSET Nodes]
    BY DEF MoveInv, MoveTypes
  <2> QED  BY <2>1, <1>2, OthersKeep DEF vars, mesh
<1> QED  BY <1>1, <1>2

LEMMA MoveInvHolds == ~Overlap => (Spec => []MoveInv)
<1> SUFFICES ASSUME ~Overlap PROVE Spec => []MoveInv  OBVIOUS
<1>1. MoveInv /\ [Next]_vars => MoveInv'  BY MoveInductive
<1> QED  BY <1>1, MoveInit, PTL DEF Spec

----------------------------------------------------------------------------
\* A session without texts is numbered above everything it has buffered, in memory
\* and in the tables of every node it has been to, so that the message after a move,
\* a replay or a crash takes no seq of one that waits (session_manager.py:115-132,
\* 220-246).  It says nothing of a session with texts, whose recovery merges log rows.
THEOREM NumbersGoOn == ~Overlap => (Spec => []NumberedAbove)
<1> SUFFICES ASSUME ~Overlap PROVE Spec => []NumberedAbove  OBVIOUS
<1>1. MoveInv => NumberedAbove
  BY DEF MoveInv, SessionsNumbered, Numbered, NumberedAbove
<1> QED  BY <1>1, MoveInvHolds, PTL

\* A page that moves, and whose query is answered before it times out, finds at
\* its new node everything its peers held for it when they were asked, unless
\* it has displayed it already (session_manager.py:175-246).
THEOREM MovesBringMessages == ~Overlap => (Spec => []MoveBringsOwed)
<1> SUFFICES ASSUME ~Overlap PROVE Spec => []MoveBringsOwed  OBVIOUS
<1>1. MoveInv => MoveBringsOwed  BY DEF MoveInv, OwedKept, MoveBringsOwed
<1> QED  BY <1>1, MoveInvHolds, PTL

\* What a node's tables say of a session without texts is never taken back, by no
\* snapshot of a peer and no late recovery: the next seq does not fall, and a message
\* leaves the tables only once it has been displayed.  Writes commit at once, so that
\* a crash takes none back.
THEOREM TablesGoForward == ~Overlap => (Spec => NeverTakenBack)
<1> DEFINE A == \A n \in Nodes : disk[n] # NoSession =>
                  /\ disk'[n].next >= disk[n].next
                  /\ Buffered(disk[n]) \ Buffered(disk'[n]) \subseteq shown'
<1> SUFFICES ASSUME ~Overlap PROVE Spec => NeverTakenBack  OBVIOUS
<1>1. ASSUME MoveInv, [Next]_vars  PROVE [A]_vars
  <2>1. \A n \in Nodes : disk[n] # NoSession => disk[n].next \in Nat
    <3>1. \A n \in Nodes : disk[n] # NoSession => disk[n] \in Session
      BY <1>1 DEF MoveInv, MoveTypes, Sessions
    <3> QED  BY <3>1, SessionParts
  <2>2. CASE disk' = disk  BY <2>1, <2>2
  <2>3. ASSUME NEW k \in Sockets, Hydrate(k)  PROVE A
    <3>1. sock[k].node \in Nodes /\ disk[sock[k].node] = NoSession
      BY <1>1, <2>3 DEF Hydrate, MoveInv, HandshakesWait
    <3>2. \A n \in Nodes : n # sock[k].node => disk'[n] = disk[n]
      BY <1>1, <2>3 DEF Hydrate, MoveInv, MoveTypes
    <3> QED  BY <2>1, <3>1, <3>2
  <2>4. ASSUME NEW m \in Outgoing, NEW n \in Nodes, Arrive(m, n), disk' # disk  PROVE A
    <3>1. live[n] # NoSession  BY <2>4 DEF Arrive, stored
    <3>2. /\ live[n] \in Session /\ live[n].next \in Seqs /\ disk[n] \in Sessions
          /\ Numbered(live[n]) /\ Numbered(disk[n]) /\ TablesLag(live[n], disk[n])
          /\ disk' = [disk EXCEPT ![n] = Written(disk[n], live[n], m)]
      BY <1>1, <2>4, <3>1, ArriveStores
    <3>3. PICK w : w = Written(disk[n], live[n], m)  OBVIOUS
    <3>4. /\ w \in Session /\ Buffered(disk[n]) \subseteq Buffered(w)
          /\ disk[n] # NoSession => disk[n].next <= w.next
      BY <3>2, <3>3, MessageAdds
    <3>5. disk'[n] = w /\ \A j \in Nodes : j # n => disk'[j] = disk[j]
      BY <1>1, <3>2, <3>3 DEF MoveInv, MoveTypes
    <3>6. w.next \in Nat  BY <3>4, SessionParts
    <3> QED  BY <2>1, <3>4, <3>5, <3>6
  <2>5. ASSUME NEW i \in Seqs, Show(i), disk' # disk  PROVE A
    <3> DEFINE n == sock[page].node
    <3>1. /\ n \in Nodes /\ live[n] \in Session /\ disk[n] \in Sessions
          /\ Numbered(live[n]) /\ Numbered(disk[n]) /\ TablesLag(live[n], disk[n])
      BY <1>1, <2>5, ShowStores
    <3>2. /\ shown' = shown \cup {live[n].outbox[i]} /\ disk \in [Nodes -> Sessions]
          /\ disk' = [disk EXCEPT ![n] = IF disk[n] = NoSession THEN disk[n] ELSE HandleAck(disk[n], i)]
      BY <1>1, <2>5 DEF Show, stored, MoveInv, MoveTypes
    <3>3. disk[n] # NoSession =>
             /\ HandleAck(disk[n], i).next = disk[n].next
             /\ Buffered(disk[n]) \subseteq Buffered(HandleAck(disk[n], i)) \cup {live[n].outbox[i]}
      BY <3>1, AckSettlesOne DEF Sessions
    <3>4. PICK v : v = HandleAck(disk[n], i)  OBVIOUS
    <3>5. /\ disk[n] # NoSession => disk'[n] = v
          /\ \A j \in Nodes : j # n => disk'[j] = disk[j]
      BY <3>1, <3>2, <3>4
    <3> QED  BY <2>1, <3>2, <3>3, <3>4, <3>5
  <2>6. \/ disk' = disk
        \/ \E k \in Sockets : Hydrate(k)
        \/ \E m \in Outgoing, n \in Nodes : Arrive(m, n)
        \/ \E i \in Seqs : Show(i)
    BY <1>1 DEF Next, Handshake, Connect, CheckMemory, CheckRecord, Timeout, GetOrCreate, Install,
       Cleanup, Provide, ProvideOutbox, Answer, Send, Leave, Crash, Start, stored, vars
  <2> QED  BY <2>2, <2>3, <2>4, <2>5, <2>6
<1>2. MoveInv /\ [Next]_vars => [A]_vars  BY <1>1
<1> QED  BY <1>2, MoveInvHolds, PTL DEF Spec, NeverTakenBack
=============================================================================
