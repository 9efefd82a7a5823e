------------------------------ MODULE Recovery ------------------------------
(***************************************************************************)
(* One session on several nodes: a page that moves, the handshake that     *)
(* looks for the session at home, asks the mesh and adopts what a peer     *)
(* answers (session_manager.py, mesh.py query_session, server.py), and the *)
(* messages of the room, which every node with the session loaded buffers. *)
(*                                                                         *)
(* A write is committed at once and a replayed message is acknowledged or  *)
(* not: ChatNode has the steps in between, for one node, and what a crash  *)
(* does to writes that are not committed yet.                              *)
(*                                                                         *)
(* The session is one whose user reads and types nothing (SilentUser).     *)
(* With texts, _recover_or_create also puts rows of the message log into   *)
(* the outbox, over unsettled messages and under the seqs of the user's    *)
(* own texts, which may lie above next_send_seq: NumberedAbove and         *)
(* NeverTakenBack do not hold of such a session.  ChatNode has that merge  *)
(* (LoadLog) and says what it takes away.                                  *)
(***************************************************************************)
EXTENDS SessionState, FiniteSets

CONSTANTS Nodes, Sockets,
          NoSession, NoNode, NoSocket,
          Overlap,    \* may the page open a socket while a handshake goes on?
          MaxFaults   \* crashes of nodes and breaks of the page's socket

ASSUME RecoveryAssumption ==
    /\ NoNode \notin Nodes /\ NoSocket \notin Sockets /\ NoSession \notin Session
    /\ Overlap \in BOOLEAN /\ MaxFaults \in Nat

\* last_processed_seq is then 0 in memory, in the tables and in every snapshot, and
\* the log is not read (session_manager.py:86).
ASSUME SilentUser == Texts = {}

VARIABLES up,       \* nodes that run
          live,     \* [Nodes -> the session in _sessions]
          disk,     \* [Nodes -> the session in the tables]
          sock,     \* [Sockets -> handler: node, stage, and the session it is to install]
          page,     \* the page's socket
          asks,     \* SESSION_QUERY frames and the provider calls they start
          answers,  \* SESSION_STATE frames
          arriving, \* [Outgoing -> nodes the message is still to be handled by, once sent]
          sent, faults,
          shown,    \* history: messages the page has displayed
          owed      \* history: [Sockets -> what the peers held for the page when asked]

stored == <<live, disk>>
mesh == <<asks, answers, arriving, sent>>
vars == <<up, stored, sock, page, mesh, faults, shown, owed>>

NoHandler == [node |-> NoNode, stage |-> "new", found |-> NoSession]
Stages == {"new", "check", "record", "query", "answered", "recover", "install", "serving", "closed"}
Ended == {"new", "serving", "closed"}
Buffered(s) == IF s = NoSession THEN {} ELSE {s.outbox[n] : n \in Seqs} \ {NoPayload}

Init ==
    /\ up = Nodes
    /\ live = [n \in Nodes |-> NoSession] /\ disk = [n \in Nodes |-> NoSession]
    /\ sock = [k \in Sockets |-> NoHandler] /\ page = NoSocket
    /\ asks = {} /\ answers = {}
    /\ arriving = [m \in Outgoing |-> {}] /\ sent = {}
    /\ faults = 0 /\ shown = {} /\ owed = [k \in Sockets |-> {}]

Fault == faults < MaxFaults /\ faults' = faults + 1
To(k, stage) == sock' = [sock EXCEPT ![k].stage = stage]

----------------------------------------------------------------------------
\* The handshake

\* The balancer sends the page to some node; its old socket is gone.
Connect(k, n) ==
    /\ sock[k].stage = "new" /\ n \in up
    /\ Overlap \/ \A j \in Sockets : sock[j].stage \in Ended
    /\ sock' = [sock EXCEPT ![k] = [@ EXCEPT !.node = n, !.stage = "check"]]
    /\ page' = k
    /\ UNCHANGED <<up, stored, mesh, faults, shown, owed>>

\* has_local_record: memory, or else a read of the sessions table.
CheckMemory(k) ==
    /\ sock[k].stage = "check"
    /\ To(k, IF live[sock[k].node] # NoSession THEN "serving" ELSE "record")
    /\ UNCHANGED <<up, stored, page, mesh, faults, shown, owed>>

\* Faulty variant: only what is loaded counts as a local record.
NotOnDisk(n) == FALSE
OnDisk(n) == disk[n] # NoSession

Held(n) == Buffered(IF live[n] # NoSession THEN live[n] ELSE disk[n])
Settled(m) == m \in sent /\ arriving[m] = {}

\* No record here: every connected peer is asked, under a request id of its own.
CheckRecord(k) ==
    LET n == sock[k].node  peers == up \ {n} IN
    /\ sock[k].stage = "record"
    /\ \/ (OnDisk(n) \/ peers = {}) /\ To(k, "recover") /\ UNCHANGED <<asks, owed>>
       \/ /\ ~OnDisk(n) /\ peers # {} /\ To(k, "query")
          /\ asks' = asks \cup {[req |-> k, to |-> m, row |-> NoSession] : m \in peers}
          /\ owed' = [owed EXCEPT ![k] =
                 {m \in Outgoing \ shown : Settled(m) /\ \A p \in peers : m \in Held(p)}]
    /\ UNCHANGED <<up, stored, page, answers, arriving, sent, faults, shown>>

Reply(ask, s) == answers' = answers \cup {[req |-> ask.req, found |-> s]}

\* Faulty variant: a session that is not loaded is not found.
NoRowRead(n) == NoSession
RowRead(n) == disk[n]

\* _handle_session_query, snapshot_session: from memory at once, or from the two
\* tables in two reads; silence if there is nothing.
Provide(ask) ==
    LET s == live[ask.to] IN
    /\ ask.row = NoSession
    /\ \/ s # NoSession /\ Reply(ask, s) /\ asks' = asks \ {ask}
       \/ /\ s = NoSession /\ RowRead(ask.to) # NoSession
          /\ asks' = (asks \ {ask}) \cup {[ask EXCEPT !.row = RowRead(ask.to)]}
          /\ UNCHANGED answers
       \/ /\ s = NoSession /\ RowRead(ask.to) = NoSession
          /\ asks' = asks \ {ask} /\ UNCHANGED answers
    /\ UNCHANGED <<up, stored, sock, page, arriving, sent, faults, shown, owed>>

\* Faulty variant: the snapshot carries the outbox only.
OutboxOnly(row, rows) == NewSession(1, 0, rows)
Snapshot(row, rows) == NewSession(row.next, row.last, rows)

ProvideOutbox(ask) ==
    /\ ask.row # NoSession
    /\ Reply(ask, Snapshot(ask.row, disk[ask.to].outbox)) /\ asks' = asks \ {ask}
    /\ UNCHANGED <<up, stored, sock, page, arriving, sent, faults, shown, owed>>

\* _handle_session_state: the first answer counts, and none after the timeout.
\* A frame that is lost is one that stays under way.
Answer(a) ==
    /\ a \in answers /\ answers' = answers \ {a}
    /\ sock' = IF sock[a.req].stage # "query" THEN sock
               ELSE [sock EXCEPT ![a.req] = [@ EXCEPT !.stage = "answered", !.found = a.found]]
    /\ UNCHANGED <<up, stored, page, asks, arriving, sent, faults, shown, owed>>

\* Faulty variant: the handshake waits for as long as it takes.
WaitsForEver(k) == FALSE
TimedOut(k) == sock[k].stage = "query"

Timeout(k) ==
    /\ TimedOut(k) /\ To(k, "recover")
    /\ owed' = [owed EXCEPT ![k] =
                   IF \E q \in asks \cup answers : q.req = k THEN {} ELSE @]
    /\ UNCHANGED <<up, stored, page, mesh, faults, shown>>

\* The tables after save_session and a save_outbound for each row: a row that is
\* already there keeps its payload.
Merged(old, s) ==
    IF old = NoSession THEN s
    ELSE [s EXCEPT !.outbox = [i \in Seqs |-> IF old.outbox[i] = NoPayload THEN @[i] ELSE old.outbox[i]]]

\* hydrate_from_snapshot, the registration and get_or_create, without a pause.
Hydrate(k) ==
    LET n == sock[k].node  s == sock[k].found IN
    /\ sock[k].stage = "answered"
    /\ live' = [live EXCEPT ![n] = ResetInbound(s)]
    /\ disk' = [disk EXCEPT ![n] = Merged(@, s)]
    /\ sock' = [sock EXCEPT ![k] = [@ EXCEPT !.stage = "serving", !.found = NoSession]]
    /\ UNCHANGED <<up, page, mesh, faults, shown, owed>>

\* get_or_create: loaded, or read and then installed whatever has happened since.
\* The mark that is read is 0 (SilentUser), and with it the log has no part in it.
GetOrCreate(k) ==
    LET n == sock[k].node IN
    /\ sock[k].stage = "recover"
    /\ \/ live[n] # NoSession /\ To(k, "serving")
       \/ /\ live[n] = NoSession
          /\ sock' = [sock EXCEPT ![k] = [@ EXCEPT !.stage = "install",
                         !.found = IF disk[n] = NoSession THEN FreshSession ELSE disk[n]]]
    /\ UNCHANGED <<up, stored, page, mesh, faults, shown, owed>>

Install(k) ==
    /\ sock[k].stage = "install"
    /\ live' = [live EXCEPT ![sock[k].node] = ResetInbound(sock[k].found)]
    /\ sock' = [sock EXCEPT ![k] = [@ EXCEPT !.stage = "serving", !.found = NoSession]]
    /\ UNCHANGED <<up, disk, page, mesh, faults, shown, owed>>

----------------------------------------------------------------------------
\* Messages

Send(m) ==
    /\ m \notin sent /\ sent' = sent \cup {m}
    /\ arriving' = [arriving EXCEPT ![m] = up]
    /\ UNCHANGED <<up, stored, sock, page, asks, answers, faults, shown, owed>>

\* _broadcast_local at one node, and the writes of send_message.
Arrive(m, n) ==
    LET s == live[n]  t == PrepareOutbound(s, m) IN
    /\ n \in arriving[m] /\ (s # NoSession => s.next \in Seqs)
    /\ arriving' = [arriving EXCEPT ![m] = @ \ {n}]
    /\ IF s = NoSession THEN UNCHANGED stored
       ELSE live' = [live EXCEPT ![n] = t] /\ disk' = [disk EXCEPT ![n] =
                IF @ = NoSession THEN NewSession(t.next, 0, [EmptyBuffer EXCEPT ![s.next] = m])
                ELSE Merged(@, [t EXCEPT !.outbox = [EmptyBuffer EXCEPT ![s.next] = m]])]
    /\ UNCHANGED <<up, sock, page, asks, answers, sent, faults, shown, owed>>

\* The page displays what its node has for it; the ACK arrives, or is lost with
\* the socket.
Show(i) ==
    LET n == sock[page].node IN
    /\ page # NoSocket /\ sock[page].stage = "serving" /\ live[n].outbox[i] # NoPayload
    /\ shown' = shown \cup {live[n].outbox[i]}
    /\ \/ /\ live' = [live EXCEPT ![n] = HandleAck(@, i)]
          /\ disk' = [disk EXCEPT ![n] = IF @ = NoSession THEN @ ELSE HandleAck(@, i)]
          /\ UNCHANGED <<page, faults>>
       \/ page' = NoSocket /\ Fault /\ UNCHANGED stored
    /\ UNCHANGED <<up, sock, mesh, owed>>

\* The page's socket breaks, or the handler of a socket it has left ends.
Leave == /\ page # NoSocket /\ Fault /\ page' = NoSocket
         /\ UNCHANGED <<up, stored, sock, mesh, shown, owed>>
Cleanup(k) == /\ sock[k].stage = "serving" /\ page # k /\ To(k, "closed")
              /\ UNCHANGED <<up, stored, page, mesh, faults, shown, owed>>

Crash(n) ==
    LET mine == {k \in Sockets : sock[k].node = n} IN
    /\ n \in up /\ Fault
    /\ up' = up \ {n}
    /\ live' = [live EXCEPT ![n] = NoSession]
    /\ sock' = [k \in Sockets |-> IF k \in mine THEN [sock[k] EXCEPT !.stage = "closed", !.found = NoSession]
                                  ELSE sock[k]]
    /\ page' = IF page \in mine THEN NoSocket ELSE page
    /\ asks' = {q \in asks : q.to # n /\ q.req \notin mine}
    /\ answers' = {a \in answers : a.req \notin mine}
    /\ arriving' = [m \in Outgoing |-> arriving[m] \ {n}]
    /\ owed' = [k \in Sockets |-> {}]
    /\ UNCHANGED <<disk, sent, shown>>
Start(n) == /\ n \notin up /\ up' = up \cup {n}
            /\ UNCHANGED <<stored, sock, page, mesh, faults, shown, owed>>

Handshake(k) == \/ CheckMemory(k) \/ CheckRecord(k) \/ Timeout(k)
                \/ Hydrate(k) \/ GetOrCreate(k) \/ Install(k) \/ Cleanup(k)
Next ==
    \/ \E k \in Sockets : Handshake(k) \/ \E n \in Nodes : Connect(k, n)
    \/ \E ask \in asks : Provide(ask) \/ ProvideOutbox(ask)
    \/ \E a \in answers : Answer(a)
    \/ \E m \in Outgoing : Send(m) \/ \E n \in Nodes : Arrive(m, n)
    \/ \E i \in Seqs : Show(i)
    \/ Leave
    \/ \E n \in Nodes : Crash(n) \/ Start(n)

\* Handlers go on and a query times out; what the balancer, the page's user and
\* the network do is open.
Fairness == /\ \A k \in Sockets : WF_vars(Handshake(k))
            /\ \A i \in Seqs : WF_vars(Show(i))

Spec == Init /\ [][Next]_vars
FairSpec == Spec /\ Fairness
----------------------------------------------------------------------------
\* Properties

\* What the tables of a node say of a session without texts is never taken back,
\* neither by a snapshot from a peer nor by a late recovery: the next seq does not
\* fall, and a row goes only for a message that has been displayed.  A crash takes
\* back nothing here because every write commits at once.
NeverTakenBack == [][\A n \in Nodes :
    disk[n] # NoSession => /\ disk'[n].next >= disk[n].next
                           /\ Buffered(disk[n]) \ Buffered(disk'[n]) \subseteq shown']_vars

\* A session without texts is numbered above everything it has buffered, wherever it
\* has been: the next message of a moved session overwrites none that waits.
NumberedAbove == \A n \in Nodes : \A s \in {live[n], disk[n]} \ {NoSession} :
    \A i \in Seqs : s.outbox[i] # NoPayload => i < s.next

\* A page that moves and whose query is answered in time finds at the new node
\* everything its peers held for it when they were asked.
MoveBringsOwed == \A k \in Sockets : LET n == sock[k].node IN
    sock[k].stage = "serving" => owed[k] \subseteq Buffered(live[n]) \cup shown

\* A page that stays is served in the end, whoever does not answer, and has seen
\* all its node holds for it.
EventuallyServed == \A k \in Sockets : \A n \in Nodes :
    <>[](page = k /\ sock[k].node = n /\ faults = MaxFaults)
      => <>[](sock[k].stage = "serving" /\ Buffered(live[n]) = {})
=============================================================================
