------------------------------ MODULE ChatNode ------------------------------
(***************************************************************************)
(* One chat node (node/server.py, node/session_manager.py), its store, and *)
(* the page of one user (frontend/app.js) that connects to it, loses the   *)
(* connection and connects again, while the node is stopped, crashes and   *)
(* recovers the session from disk.                                         *)
(*                                                                         *)
(* Outbound: another member of the room sends a message to the session; it *)
(* is buffered under a seq, queued for disk, written to the connection if  *)
(* there is one, resent until the page acknowledges it, and replayed when  *)
(* the page connects again.                                                *)
(* Inbound: the page sends the texts its user types under seqs of its own; *)
(* the node acknowledges each one, drops duplicates and relays the rest.   *)
(*                                                                         *)
(* An action is the code between two awaits that can really suspend: a     *)
(* read of the store (a thread), a read of a frame, or a write that finds  *)
(* the send buffer full.  Awaits of the store's write API and of           *)
(* get_or_create on a loaded session never suspend.                        *)
(***************************************************************************)
EXTENDS OutboxStore, FiniteSets

CONSTANTS
    Sockets,          \* bound: connections the node can be handling at once
    NoSocket,         \* the session has no entry in _connections
    NotLoaded,        \* the session has no entry in _sessions
    MaxInFlight,      \* bound: frames under way on a socket before another waits
    MaxQueue,         \* bound: queued writes beyond which the handlers wait
    Crashes,          \* may the process die without ChatNode.stop()?
    Restarts,         \* may the node be stopped in an orderly way and started?
    OverlapRecovery,  \* may a page connect while another handler recovers the session?
    WaitClosed,       \* does Server.wait_closed() wait for open connections (Python 3.12 on)?
    Reloads,          \* may the page be reloaded, so that its seqs restart at 1?
    Retransmits       \* does the client resend texts it has seen no ACK for?

ASSUME SocketAssumption == NoSocket \notin Sockets /\ NotLoaded \notin Session
ASSUME BoundAssumption == MaxInFlight \in Nat \ {0} /\ MaxQueue \in Nat
ASSUME ModeAssumption ==
    {Crashes, Restarts, OverlapRecovery, WaitClosed, Reloads, Retransmits} \subseteq BOOLEAN

VARIABLES
    process,     \* the node's process
    session,     \* _sessions[sid]
    registered,  \* _connections[sid]
    evicted,     \* sockets whose _evict task has not run yet
    pc,          \* where the handler of a socket stands
    row,         \* the sessions row a recovering handler has read
    rows,        \* the outbox a handler has read from disk, later what it has to replay
    link,        \* a socket as the page sees it
    toClient,    \* frames from the node to the page
    toNode,      \* frames from the page to the node
    pageNext,    \* _nextSeq of the page
    textSeq      \* the seq the page sent a text under, 0 if it sent none

nodeVars == <<process, session, registered, evicted, pc, row, rows>>
netVars  == <<link, toClient, toNode>>
pageVars == <<pageNext, textSeq>>

\* History variables: what the properties compare.
VARIABLES
    typed,       \* texts typed so far, each once
    assigned,    \* the message last given each outbound seq
    shown,       \* messages the page has displayed
    ackedSeqs,   \* seqs of which the node has ever settled a message
    confirmed,   \* texts the page has seen an ACK for
    handled,     \* texts relayed to the room, or given up with a handler whose write failed
    since,       \* inbound seqs processed since the tracking was last reset
    overlaid     \* seqs under which a recovery has put a row of the message log

history == <<typed, assigned, shown, ackedSeqs, confirmed, handled, since, overlaid>>
vars == <<storeVars, nodeVars, netVars, pageVars, history>>

Frames == [kind : {"msg"}, seq : Seqs, payload : Payloads]
          \cup [kind : {"ack"}, seq : Seqs]

Msg(n, p) == [kind |-> "msg", seq |-> n, payload |-> p]
Ack(n)    == [kind |-> "ack", seq |-> n]

Stages == {"idle", "hello", "loadSession", "loadOutbox", "loadLog", "install",
           "attached", "replay", "reading", "processing"}

TypeOK ==
    /\ StoreTypeOK
    /\ process \in {"up", "closing", "stopping", "down"}
    /\ session \in Session \cup {NotLoaded}
    /\ registered \in Sockets \cup {NoSocket}
    /\ evicted \subseteq Sockets
    /\ pc \in [Sockets -> Stages]
    /\ row \in [Sockets -> SessionRow \cup {NoRow}]
    /\ rows \in [Sockets -> Buffer]
    /\ link \in [Sockets -> {"closed", "open", "broken"}]
    /\ toClient \in [Sockets -> Seq(Frames)]
    /\ toNode \in [Sockets -> Seq(Frames)]
    /\ pageNext \in 1 .. MaxSeq + 1
    /\ textSeq \in [Texts -> 0 .. MaxSeq]
    /\ typed \subseteq Texts
    /\ assigned \in Buffer
    /\ shown \subseteq Payloads
    /\ ackedSeqs \subseteq Seqs
    /\ confirmed \subseteq Texts
    /\ handled \subseteq Payloads
    /\ since \subseteq Seqs
    /\ overlaid \subseteq Seqs

Init ==
    /\ StoreInit
    /\ process = "up"
    /\ session = NotLoaded
    /\ registered = NoSocket
    /\ evicted = {}
    /\ pc = [k \in Sockets |-> "idle"]
    /\ row = [k \in Sockets |-> NoRow]
    /\ rows = [k \in Sockets |-> EmptyBuffer]
    /\ link = [k \in Sockets |-> "closed"]
    /\ toClient = [k \in Sockets |-> <<>>]
    /\ toNode = [k \in Sockets |-> <<>>]
    /\ pageNext = 1
    /\ textSeq = [c \in Texts |-> 0]
    /\ typed = {}
    /\ assigned = EmptyBuffer
    /\ shown = {}
    /\ ackedSeqs = {}
    /\ confirmed = {}
    /\ handled = {}
    /\ since = {}
    /\ overlaid = {}

\* The event loop runs the handlers; it accepts connections until stop() begins.
Up      == process \in {"up", "closing"}
Serving == process = "up"
Room   == Len(queue) <= MaxQueue
Loaded == session # NotLoaded

\* write_frame: a frame written to a connection that is gone vanishes.
Written(k, f) ==
    IF k # NoSocket /\ link[k] = "open"
    THEN [toClient EXCEPT ![k] = Append(@, f)]
    ELSE toClient

----------------------------------------------------------------------------
(***************************************************************************)
(* The page and the network.                                               *)
(***************************************************************************)
Recovering(k) == pc[k] \in {"hello", "loadSession", "loadOutbox", "loadLog", "install"}

\* What the page sent before the break may still reach the node.  The frame a
\* handler is working on has arrived.
Arrived(k) == IF pc[k] = "processing" THEN 1 ELSE 0

\* connect(): the page drops the socket it had and opens another one.
Connect(k) ==
    /\ Serving
    /\ pc[k] = "idle" /\ link[k] = "closed"
    /\ OverlapRecovery \/ \A j \in Sockets : ~Recovering(j)
    /\ link' = [j \in Sockets |-> IF j = k THEN "open"
                                  ELSE IF link[j] = "open" THEN "broken" ELSE link[j]]
    /\ toClient' = [j \in Sockets |-> <<>>]
    /\ pc' = [pc EXCEPT ![k] = "hello"]
    /\ \/ UNCHANGED pageVars
       \/ Reloads /\ pageNext' = 1 /\ textSeq' = [c \in Texts |-> 0]
    /\ UNCHANGED <<storeVars, process, session, registered, evicted, row, rows,
                   toNode, history>>

Break(k) ==
    /\ link[k] = "open"
    /\ link' = [link EXCEPT ![k] = "broken"]
    /\ toClient' = [toClient EXCEPT ![k] = <<>>]
    /\ \E n \in Arrived(k) .. Len(toNode[k]) :
           toNode' = [toNode EXCEPT ![k] = SubSeq(@, 1, n)]
    /\ UNCHANGED <<storeVars, process, session, registered, pc, row, rows,
                   pageVars, history>>

\* The connection is lost.
Lose(k) == Break(k) /\ UNCHANGED evicted

\* The _evict task closes a superseded connection.
Evict(k) ==
    /\ Up
    /\ k \in evicted
    /\ Break(k)
    /\ evicted' = evicted \ {k}

\* The page displays a message and acknowledges it.
ReceiveMessage(k) ==
    /\ link[k] = "open"
    /\ toClient[k] # <<>> /\ Head(toClient[k]).kind = "msg"
    /\ Len(toNode[k]) <= MaxInFlight
    /\ LET f == Head(toClient[k])
       IN  /\ shown' = shown \cup {f.payload}
           /\ toNode' = [toNode EXCEPT ![k] = Append(@, Ack(f.seq))]
    /\ toClient' = [toClient EXCEPT ![k] = Tail(@)]
    /\ UNCHANGED <<storeVars, nodeVars, link, pageVars,
                   typed, assigned, ackedSeqs, confirmed, handled, since, overlaid>>

\* The page learns that one of its texts has been accepted.
ReceiveAck(k) ==
    /\ link[k] = "open"
    /\ toClient[k] # <<>> /\ Head(toClient[k]).kind = "ack"
    /\ confirmed' = confirmed \cup {c \in Texts : textSeq[c] = Head(toClient[k]).seq}
    /\ toClient' = [toClient EXCEPT ![k] = Tail(@)]
    /\ UNCHANGED <<storeVars, nodeVars, link, toNode, pageVars,
                   typed, assigned, shown, ackedSeqs, handled, since, overlaid>>

\* sendMessage(): a text goes out under the page's next seq.
SendText(k, c) ==
    /\ link[k] = "open"
    /\ c \notin typed
    /\ pageNext <= MaxSeq
    /\ Len(toNode[k]) < MaxInFlight
    /\ typed' = typed \cup {c}
    /\ textSeq' = [textSeq EXCEPT ![c] = pageNext]
    /\ pageNext' = pageNext + 1
    /\ toNode' = [toNode EXCEPT ![k] = Append(@, Msg(pageNext, c))]
    /\ UNCHANGED <<storeVars, nodeVars, link, toClient,
                   assigned, shown, ackedSeqs, confirmed, handled, since, overlaid>>

\* The client the protocol is made for: it resends a text it saw no ACK for,
\* under the same seq.
ResendText(k, c) ==
    /\ Retransmits
    /\ link[k] = "open"
    /\ textSeq[c] # 0 /\ c \notin confirmed
    /\ Len(toNode[k]) < MaxInFlight
    /\ toNode' = [toNode EXCEPT ![k] = Append(@, Msg(textSeq[c], c))]
    /\ UNCHANGED <<storeVars, nodeVars, link, toClient, pageVars, history>>

----------------------------------------------------------------------------
(***************************************************************************)
(* The handshake of a connection and the recovery of its session.          *)
(***************************************************************************)

\* LOGIN or HELLO: the connection takes the session's place in _connections, an
\* older one is evicted, and get_or_create returns the session if it is loaded.
\* HELLO resets the inbound tracking here already, LOGIN leaves it.
Hello(k) ==
    /\ Up
    /\ pc[k] = "hello"
    /\ registered' = k
    /\ evicted' = evicted \cup ({registered} \ {k, NoSocket})
    /\ IF Loaded
       THEN /\ pc' = [pc EXCEPT ![k] = "attached"]
            /\ \/ UNCHANGED <<session, since>>
               \/ session' = ResetInbound(session) /\ since' = {}
       ELSE /\ pc' = [pc EXCEPT ![k] = "loadSession"]
            /\ UNCHANGED <<session, since>>
    /\ UNCHANGED <<storeVars, process, row, rows, netVars, pageVars,
                   typed, assigned, shown, ackedSeqs, confirmed, handled, overlaid>>

\* _recover_or_create reads the committed tables one after the other, and the
\* rest of the node goes on between two reads.
LoadSession(k) ==
    /\ Up
    /\ pc[k] = "loadSession"
    /\ row' = [row EXCEPT ![k] = disk.row]
    /\ pc' = [pc EXCEPT ![k] = "loadOutbox"]
    /\ UNCHANGED <<storeVars, process, session, registered, evicted, rows,
                   netVars, pageVars, history>>

LoadOutbox(k) ==
    /\ Up
    /\ pc[k] = "loadOutbox"
    /\ rows' = [rows EXCEPT ![k] = disk.outbox]
    /\ pc' = [pc EXCEPT ![k] = IF row[k] # NoRow /\ row[k].last > 0
                               THEN "loadLog" ELSE "install"]
    /\ UNCHANGED <<storeVars, process, session, registered, evicted, row,
                   netVars, pageVars, history>>

\* The log rows above the inbound mark join the outbox, over what is there.
WithHistory(buffer, log, after) ==
    [n \in Seqs |-> IF n > after /\ log[n] # NoPayload THEN log[n] ELSE buffer[n]]

LoadLog(k) ==
    /\ Up
    /\ pc[k] = "loadLog"
    /\ LET merged == WithHistory(rows[k], disk.log, row[k].last)
       IN  /\ rows' = [rows EXCEPT ![k] = merged]
           /\ overlaid' = overlaid \cup {n \in Seqs : merged[n] # rows[k][n]}
    /\ pc' = [pc EXCEPT ![k] = "install"]
    /\ UNCHANGED <<storeVars, process, session, registered, evicted, row, netVars, pageVars,
                   typed, assigned, shown, ackedSeqs, confirmed, handled, since>>

\* Faulty variant: the recovered session numbers its messages from 1 again.
RecoveredAfresh(r, buffer) ==
    IF r = NoRow THEN FreshSession ELSE NewSession(1, r.last, buffer)

Recovered(r, buffer) ==
    IF r = NoRow THEN FreshSession ELSE NewSession(r.next, r.last, buffer)

\* get_or_create stores what it recovered, whatever is there by now.
Install(k) ==
    /\ Up
    /\ pc[k] = "install"
    /\ session' = Recovered(row[k], rows[k])
    /\ since' = Processed(session')
    /\ pc' = [pc EXCEPT ![k] = "attached"]
    /\ row' = [row EXCEPT ![k] = NoRow]
    /\ rows' = [rows EXCEPT ![k] = EmptyBuffer]
    /\ UNCHANGED <<storeVars, process, registered, evicted, netVars, pageVars,
                   typed, assigned, shown, ackedSeqs, confirmed, handled, overlaid>>

\* The handshake is answered, the inbound side starts afresh for the new
\* connection, and the unacked messages are lined up for it.
StartReplay(k) ==
    /\ Up
    /\ pc[k] = "attached"
    /\ session' = ResetInbound(session)
    /\ since' = {}
    /\ rows' = [rows EXCEPT ![k] = ReplayFrom(session, 0)]
    /\ pc' = [pc EXCEPT ![k] = "replay"]
    /\ UNCHANGED <<storeVars, process, registered, evicted, row, netVars, pageVars,
                   typed, assigned, shown, ackedSeqs, confirmed, handled, overlaid>>

\* The first frame never comes, or the answer cannot be written: the handler
\* ends before _handle_client knows the session id, so its cleanup finds
\* nothing to remove.
HandshakeFails(k) ==
    /\ Up
    /\ pc[k] \in {"hello", "attached"} /\ link[k] = "broken"
    /\ pc' = [pc EXCEPT ![k] = "idle"]
    /\ link' = [link EXCEPT ![k] = "closed"]
    /\ toNode' = [toNode EXCEPT ![k] = <<>>]
    /\ evicted' = evicted \ {k}
    /\ UNCHANGED <<storeVars, process, session, registered, row, rows, toClient,
                   pageVars, history>>

ReplayOne(k) ==
    /\ Up
    /\ pc[k] = "replay"
    /\ \E n \in Seqs :
          /\ rows[k][n] # NoPayload
          /\ \A i \in 1 .. n - 1 : rows[k][i] = NoPayload
          /\ toClient' = Written(k, Msg(n, rows[k][n]))
          /\ rows' = [rows EXCEPT ![k] = [@ EXCEPT ![n] = NoPayload]]
    /\ UNCHANGED <<storeVars, process, session, registered, evicted, pc, row,
                   link, toNode, pageVars, history>>

ReplayDone(k) ==
    /\ Up
    /\ pc[k] = "replay" /\ rows[k] = EmptyBuffer
    /\ pc' = [pc EXCEPT ![k] = "reading"]
    /\ UNCHANGED <<storeVars, process, session, registered, evicted, row, rows,
                   netVars, pageVars, history>>

----------------------------------------------------------------------------
(***************************************************************************)
(* Messages to the session.                                                *)
(***************************************************************************)

\* _broadcast_local for this recipient: allocate a seq and buffer the message,
\* queue the three writes of send_message, write to the connection if any.
Broadcast(p) ==
    /\ Up /\ Room
    /\ Loaded
    /\ session.next <= MaxSeq
    /\ \A n \in Seqs : assigned[n] # p
    /\ LET n == session.next
           s == PrepareOutbound(session, p)
       IN  /\ session' = s
           /\ Put(<<SaveOutbound(n, p), SaveMessageLog(n, p), SaveSession(s)>>)
           /\ toClient' = Written(registered, Msg(n, p))
           /\ assigned' = [assigned EXCEPT ![n] = p]
    /\ UNCHANGED <<process, registered, evicted, pc, row, rows, link, toNode,
                   pageVars, typed, shown, ackedSeqs, confirmed, handled, since, overlaid>>

\* _retry_loop: an unacked message is written again to whatever connection is
\* registered, also while that connection is still in its handshake.
Retry(n) ==
    /\ Serving
    /\ Loaded
    /\ registered # NoSocket
    /\ session.outbox[n] # NoPayload
    /\ link[registered] = "open" /\ Len(toClient[registered]) < MaxInFlight
    /\ toClient' = Written(registered, Msg(n, session.outbox[n]))
    /\ UNCHANGED <<storeVars, nodeVars, link, toNode, pageVars, history>>

Reading(k) == Up /\ pc[k] = "reading" /\ toNode[k] # <<>>

\* ACK frame: pop the message, and queue the delete if it was there.
HandleAckFrame(k) ==
    /\ Reading(k) /\ Room
    /\ Head(toNode[k]).kind = "ack"
    /\ LET n == Head(toNode[k]).seq
       IN  IF session.outbox[n] # NoPayload
           THEN /\ session' = HandleAck(session, n)
                /\ Put(<<DeleteOutbound(n)>>)
                /\ ackedSeqs' = ackedSeqs \cup {n}
           ELSE UNCHANGED <<session, storeVars, ackedSeqs>>
    /\ toNode' = [toNode EXCEPT ![k] = Tail(@)]
    /\ UNCHANGED <<process, registered, evicted, pc, row, rows, link, toClient,
                   pageVars, typed, assigned, shown, confirmed, handled, since, overlaid>>

----------------------------------------------------------------------------
(***************************************************************************)
(* Messages from the session.                                              *)
(***************************************************************************)

\* _handle_inbound_message acknowledges first, and may wait in drain() for the
\* write.  The frame stays at the head of toNode until the handler is done with it.
AckText(k) ==
    /\ Reading(k)
    /\ Head(toNode[k]).kind = "msg"
    /\ Len(toClient[k]) <= MaxInFlight
    /\ toClient' = Written(k, Ack(Head(toNode[k]).seq))
    /\ pc' = [pc EXCEPT ![k] = "processing"]
    /\ UNCHANGED <<storeVars, process, session, registered, evicted, row, rows,
                   link, toNode, pageVars, history>>

\* receive_message and, for a new text, the relay to the room.
ProcessText(k) ==
    /\ Up /\ Room
    /\ pc[k] = "processing"
    /\ LET f == Head(toNode[k])
           s == MarkInboundProcessed(session, f.seq)
       IN  IF ShouldProcessInbound(session, f.seq)
           THEN /\ session' = s
                /\ Put(<<SaveMessageLog(f.seq, f.payload), SaveSession(s)>>)
                /\ handled' = handled \cup {f.payload}
                /\ since' = since \cup {f.seq}
           ELSE UNCHANGED <<session, storeVars, handled, since>>
    /\ toNode' = [toNode EXCEPT ![k] = Tail(@)]
    /\ pc' = [pc EXCEPT ![k] = "reading"]
    /\ UNCHANGED <<process, registered, evicted, row, rows, link, toClient,
                   pageVars, typed, assigned, shown, ackedSeqs, confirmed, overlaid>>

----------------------------------------------------------------------------
(***************************************************************************)
(* The end of a connection, and of the process.                            *)
(***************************************************************************)

\* The task of a connection is over and its writer closed.
TaskEnds(k) ==
    /\ pc' = [pc EXCEPT ![k] = "idle"]
    /\ rows' = [rows EXCEPT ![k] = EmptyBuffer]
    /\ link' = [link EXCEPT ![k] = "closed"]
    /\ toClient' = [toClient EXCEPT ![k] = <<>>]
    /\ toNode' = [toNode EXCEPT ![k] = <<>>]
    /\ evicted' = evicted \ {k}

\* A write of the fan-out to another member fails after the text has been marked:
\* the exception ends the handler of the sender, before the flood to the mesh.
FanoutFails(k) ==
    /\ Up /\ Room
    /\ pc[k] = "processing"
    /\ LET f == Head(toNode[k])
           s == MarkInboundProcessed(session, f.seq)
       IN  /\ ShouldProcessInbound(session, f.seq)
           /\ session' = s
           /\ Put(<<SaveMessageLog(f.seq, f.payload), SaveSession(s)>>)
           /\ handled' = handled \cup {f.payload}
           /\ since' = since \cup {f.seq}
    /\ registered' = IF registered = k THEN NoSocket ELSE registered
    /\ TaskEnds(k)
    /\ UNCHANGED <<process, row, pageVars,
                   typed, assigned, shown, ackedSeqs, confirmed, overlaid>>

\* A read finds the end of the stream, or a write raises ConnectionResetError: of
\* the replay, or of the ACK that comes before the processing of a text.
HandlerEnds(k) ==
    /\ link[k] = "broken"
    /\ \/ pc[k] \in {"replay", "processing"}
       \/ pc[k] = "reading" /\ ~(toNode[k] # <<>> /\ Head(toNode[k]).kind = "ack")

\* What is dropped with a handler: the text it has acknowledged only.
InHand(k) == IF pc[k] = "processing" THEN {Head(toNode[k]).payload} ELSE {}

\* Faulty variant: the entry goes, whichever connection it names.
CleanupUnguarded(k) ==
    /\ Up
    /\ HandlerEnds(k)
    /\ registered' = NoSocket
    /\ handled' = handled \cup InHand(k)
    /\ TaskEnds(k)
    /\ UNCHANGED <<storeVars, process, session, row, pageVars, typed, assigned,
                   shown, ackedSeqs, confirmed, since, overlaid>>

\* _cleanup_connection: the entry goes only if it is still this connection's.
Cleanup(k) ==
    /\ Up
    /\ HandlerEnds(k)
    /\ registered' = IF registered = k THEN NoSocket ELSE registered
    /\ handled' = handled \cup InHand(k)
    /\ TaskEnds(k)
    /\ UNCHANGED <<storeVars, process, session, row, pageVars, typed, assigned,
                   shown, ackedSeqs, confirmed, since, overlaid>>

\* ChatNode.stop() cancels the retry loop and closes the server, and awaits
\* wait_closed() and the end of the mesh: the handlers go on meanwhile.
Stop ==
    /\ Restarts
    /\ Serving
    /\ process' = "closing"
    /\ UNCHANGED <<storeVars, session, registered, evicted, pc, row, rows, netVars,
                   pageVars, history>>

\* Nothing in stop() closes the connections of the clients, for which
\* wait_closed() waits or not.  The join in store.stop() holds the event loop, so
\* nothing but the writer thread moves from here on.
StopStore ==
    /\ process = "closing"
    /\ WaitClosed => \A k \in Sockets : pc[k] = "idle"
    /\ process' = "stopping"
    /\ StopWorker
    /\ UNCHANGED <<session, registered, evicted, pc, row, rows, netVars, pageVars,
                   history>>

\* The process is gone, and with it the memory, the connections and the queue.
Die ==
    /\ process' = "down"
    /\ session' = NotLoaded
    /\ registered' = NoSocket
    /\ evicted' = {}
    /\ pc' = [k \in Sockets |-> "idle"]
    /\ row' = [k \in Sockets |-> NoRow]
    /\ rows' = [k \in Sockets |-> EmptyBuffer]
    /\ link' = [k \in Sockets |-> "closed"]
    /\ toClient' = [k \in Sockets |-> <<>>]
    /\ toNode' = [k \in Sockets |-> <<>>]
    /\ since' = {}
    /\ StoreLost
    /\ UNCHANGED <<pageVars, typed, assigned, shown, ackedSeqs, confirmed, handled, overlaid>>

\* The join returns when the thread has ended, or after 5 seconds.
Exit ==
    /\ process = "stopping"
    /\ worker \in {"stopped", "dead"} \/ Crashes
    /\ Die

Crash == Crashes /\ Up /\ Die

Restart ==
    /\ process = "down"
    /\ process' = "up"
    /\ StartWorker
    /\ UNCHANGED <<session, registered, evicted, pc, row, rows, netVars, pageVars,
                   history>>

Writer ==
    /\ process # "down"
    /\ WriterStep
    /\ UNCHANGED <<nodeVars, netVars, pageVars, history>>

----------------------------------------------------------------------------
Handshake(k) ==
    \/ Hello(k) \/ LoadSession(k) \/ LoadOutbox(k) \/ LoadLog(k) \/ Install(k)
    \/ StartReplay(k) \/ ReplayOne(k) \/ ReplayDone(k)

Handler(k) ==
    \/ Handshake(k) \/ HandshakeFails(k)
    \/ HandleAckFrame(k) \/ AckText(k) \/ ProcessText(k) \/ FanoutFails(k) \/ Cleanup(k)

Page(k) ==
    \/ Connect(k) \/ ReceiveMessage(k) \/ ReceiveAck(k)
    \/ \E c \in Texts : SendText(k, c) \/ ResendText(k, c)

Next ==
    \/ \E k \in Sockets : Page(k) \/ Lose(k) \/ Evict(k) \/ Handler(k)
    \/ \E p \in Outgoing : Broadcast(p)
    \/ \E n \in Seqs : Retry(n)
    \/ Writer
    \/ Stop \/ StopStore \/ Exit \/ Crash \/ Restart

Spec == Init /\ [][Next]_vars

----------------------------------------------------------------------------
(***************************************************************************)
(* Properties of the outbound direction.                                   *)
(***************************************************************************)

\* What the node holds for the user: the live session's outbox or, while none
\* is loaded, the rows a recovery would find (get_or_create).
Held == IF Loaded THEN session.outbox ELSE disk.outbox

\* The seqs that still mean what send_message made them mean.  A recovery fills
\* the outbox from message_log, which also holds settled messages and, under the
\* page's own seqs, the texts of the user: for the seqs it fills nothing below is
\* promised, and the README shows what happens to them.
Plain == Seqs \ overlaid

\* A message handed to the session is held under the seq it was given until the
\* page has displayed it, whatever the connections do and however often the node
\* is stopped and started, unless a recovery has filled that seq from the message
\* log (SessionManager.send_message, handle_ack, _recover_or_create).
NoLoss ==
    \A n \in Plain : assigned[n] # NoPayload =>
        assigned[n] \in shown \/ Held[n] = assigned[n]

Stale(payload, n) == payload \notin {NoPayload, assigned[n]}

\* One seq names one message: the outbox tables hold no other message under it,
\* and unless a recovery has filled the seq from the message log no session, replay
\* list or frame on its way does, so that the ACK of a seq can only settle the
\* message the page has displayed (prepare_outbound, handle_ack).
SeqNamesOneMessage ==
    /\ \A n \in Seqs : ~Stale(staged.outbox[n], n) /\ ~Stale(disk.outbox[n], n)
    /\ \A n \in Plain :
        /\ Loaded => ~Stale(session.outbox[n], n)
        /\ \A k \in Sockets :
              /\ ~Stale(rows[k][n], n)
              /\ \A i \in 1 .. Len(toClient[k]) :
                    toClient[k][i].kind = "msg" /\ toClient[k][i].seq = n =>
                        ~Stale(toClient[k][i].payload, n)

\* Once the writer thread has caught up, the tables it is about to commit are
\* the live session's outbox and next seq: every change of the session was
\* queued, and in the order it was made (session_manager.py:5-7).  What a recovery
\* takes from the message log is the exception: it is in memory only.
DiskFollowsMemory ==
    Loaded /\ queue = <<>> /\ WorkerAlive =>
        /\ \A n \in Plain : staged.outbox[n] = session.outbox[n]
        /\ IF staged.row = NoRow THEN session.next = 1
                                 ELSE staged.row.next = session.next

\* The open connection of the page, once its handshake is under way, is the one
\* _connections names: the cleanup of a superseded connection never takes the
\* entry of its successor (server.py:955-960).
OpenConnectionRegistered ==
    \A k \in Sockets :
        link[k] = "open" /\ pc[k] \notin {"idle", "hello"} => registered = k

\* The committed next_send_seq never moves back, over crashes too: operations
\* are committed in the order they were queued and a recovered session goes on
\* from the committed value.
DurableNextGrows ==
    [][disk.row # NoRow =>
          disk'.row # NoRow /\ disk'.row.next >= disk.row.next]_vars

\* A committed outbox row is neither removed nor replaced by another message
\* before the page has acknowledged its seq, over crashes too (_apply_batch).
DurableRowsSettle ==
    [][\A n \in Seqs : disk.outbox[n] \notin {NoPayload, disk'.outbox[n]} =>
          n \in ackedSeqs]_vars

----------------------------------------------------------------------------
(***************************************************************************)
(* Properties of the inbound direction.                                    *)
(***************************************************************************)

\* Mark and set together are exactly the seqs processed since the tracking was
\* last reset, the mark is as far up as it can be and the set holds nothing
\* below it (mark_inbound_processed, reset_inbound).
InboundTracking ==
    Loaded =>
        /\ Processed(session) = since
        /\ session.last + 1 \notin session.seen
        /\ session.seen \cap (1 .. session.last) = {}

Relays(k) == (ProcessText(k) \/ FanoutFails(k)) /\ ShouldProcessInbound(session, Head(toNode[k]).seq)

\* However often the client resends a text and connections replace each other,
\* the node never relays a seq twice between two resets of the tracking
\* (should_process_inbound).
NothingRepeated ==
    [][\A k \in Sockets : Relays(k) => Head(toNode[k]).seq \notin since]_vars

\* While the process lives, a text the page has seen an ACK for has been relayed,
\* is in the hands of a handler that will relay it, or was in the hands of one that
\* a failed write ended, of its own ACK or of the fan-out: nothing else comes between
\* the ACK, which is written first, and the relay; no duplicate check drops a text
\* that was not processed (_handle_inbound_message).
ConfirmedIsHandled ==
    \A c \in confirmed :
        c \in handled \/ \E k \in Sockets :
            pc[k] = "processing" /\ Head(toNode[k]).payload = c

----------------------------------------------------------------------------
(***************************************************************************)
(* Refinement and liveness.                                                *)
(***************************************************************************)

Contents(buffer, seqs) == {buffer[n] : n \in seqs} \ {NoPayload}

Abstract == INSTANCE Mailbox
    WITH accepted <- Contents(assigned, Seqs), waived <- Contents(assigned, overlaid),
         kept <- Contents(Held, Plain), delivered <- shown \cap Outgoing

\* The session keeps the promise of a mailbox: what is accepted stays until the
\* user has seen it, a reconnect changes nothing, and an orderly restart gives up
\* the messages whose seqs the recovery fills from the message log and no other.
ImplementsMailbox == Abstract!MailboxSpec

\* The event loop and the threads are scheduled, a page without a connection
\* tries again (_scheduleReconnect), the retry loop comes round, and a stopped
\* node is started again.
Reconnect == (\A k \in Sockets : link[k] # "open") /\ \E k \in Sockets : Connect(k)

Fairness ==
    /\ WF_vars(Writer) /\ WF_vars(StopStore) /\ WF_vars(Exit) /\ WF_vars(Restart)
    /\ WF_vars(Reconnect)
    /\ \A k \in Sockets :
          /\ WF_vars(Handler(k))
          /\ WF_vars(ReceiveMessage(k) \/ ReceiveAck(k))
    /\ \A n \in Seqs : WF_vars(Retry(n))

FairSpec == Spec /\ Fairness

\* From some point on no connection is lost and the node is not stopped.
Calm ==
    /\ <>[][\A k \in Sockets : link[k] = "open" => link'[k] = "open"]_vars
    /\ <>[]Serving

\* In calm times every message is in the end displayed, acknowledged and gone
\* from the outbox, whichever losses and restarts came before, unless its seq was
\* filled from the message log (_retry_loop, _replay_unacked, handle_ack).
EventuallySettled ==
    Calm => \A n \in Seqs :
        assigned[n] # NoPayload ~> \/ assigned[n] \in shown /\ Held[n] = NoPayload
                                   \/ n \in overlaid

\* stop() comes to an end, the writer thread having emptied its queue, unless it
\* waits for ever for a client that stays: where wait_closed() waits for connections,
\* a single page that keeps its own open is enough (ChatNode.stop, _run_writer_loop).
StopEnds ==
    \/ <>[](process = "closing" /\ \E k \in Sockets : link[k] = "open")
    \/ process \in {"closing", "stopping"} ~> process = "down"
=============================================================================
