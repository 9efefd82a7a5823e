--------------------------- MODULE DeliveryProofs ---------------------------
(***************************************************************************)
(* Theorems about the outbound direction of the node: what is committed,   *)
(* in every mode, and what is kept for the user.                           *)
(***************************************************************************)
EXTENDS ChatNodeProofs

(***************************************************************************)
(* Committed rows.  A delete is queued only by an ACK, so a row the batch  *)
(* is about to take away or replace belongs to a seq that has been settled.*)
(***************************************************************************)
OnlyAckedGo ==
    /\ \A i \in 1 .. Len(queue), n \in Seqs : Deletes(queue[i], n) => n \in ackedSeqs
    /\ \A n \in Seqs : disk.outbox[n] \notin {NoPayload, staged.outbox[n]} => n \in ackedSeqs

LEMMA AckedSame ==
    ASSUME OnlyAckedGo, UNCHANGED <<queue, staged, disk>>, ackedSeqs \subseteq ackedSeqs'
    PROVE  OnlyAckedGo'
  BY DEF OnlyAckedGo

LEMMA AckedPut ==
    ASSUME OnlyAckedGo, queue \in Seq(Ops), NEW ops \in Seq(Ops), Put(ops),
           ackedSeqs \subseteq ackedSeqs',
           \A i \in 1 .. Len(ops), n \in Seqs : Deletes(ops[i], n) => n \in ackedSeqs'
    PROVE  OnlyAckedGo'
<1>1. \A i \in 1 .. Len(queue') : \/ i \in 1 .. Len(queue) /\ queue'[i] = queue[i]
                                  \/ \E j \in 1 .. Len(ops) : queue'[i] = ops[j]
  BY PutEffect
<1>. QED
  BY <1>1 DEF OnlyAckedGo, Put

LEMMA AckedWriter ==
    ASSUME OnlyAckedGo, StoreTypeOK, WriterStep, UNCHANGED ackedSeqs
    PROVE  OnlyAckedGo'
<1>1. CASE TakeOp
  BY <1>1, TakeEffect DEF OnlyAckedGo, TakeOp
<1>2. CASE Flush
  BY <1>2 DEF Flush, OnlyAckedGo
<1>3. CASE WriterError
  BY <1>3 DEF WriterError, OnlyAckedGo
<1>4. CASE WorkerExit
  BY <1>4, AckedSame DEF WorkerExit
<1>. QED
  BY <1>1, <1>2, <1>3, <1>4 DEF WriterStep

LEMMA NextOnlyAcked == NodeInv /\ OnlyAckedGo /\ [Next]_vars => OnlyAckedGo'
<1>. SUFFICES ASSUME NodeInv, OnlyAckedGo, [Next]_vars
              PROVE  OnlyAckedGo'
  OBVIOUS
<1>. StoreTypeOK /\ queue \in Seq(Ops)
  BY DEF NodeInv, TypeOK, StoreTypeOK
<1>1. ASSUME NEW k \in Sockets, Page(k) \/ Lose(k) \/ Evict(k)
      PROVE  OnlyAckedGo'
  BY <1>1, AckedSame DEF Page, Connect, ReceiveMessage, ReceiveAck, SendText, ResendText,
     Lose, Evict, Break, storeVars, history
<1>2. ASSUME NEW k \in Sockets, HandleAckFrame(k)
      PROVE  OnlyAckedGo'
  <2>. DEFINE n == Head(toNode[k]).seq
  <2>1. \/ UNCHANGED <<session, storeVars, ackedSeqs>>
        \/ /\ ackedSeqs' = ackedSeqs \cup {n}
           /\ \E ops \in Seq(Ops) :
                 Put(ops) /\ Len(ops) = 1 /\ ops[1] = DeleteOutbound(n)
    BY <1>2, AckQueues
  <2>. HIDE DEF n
  <2>2. CASE UNCHANGED <<session, storeVars, ackedSeqs>>
    BY <2>2, AckedSame DEF storeVars
  <2>3. ASSUME ackedSeqs' = ackedSeqs \cup {n}, NEW ops \in Seq(Ops),
               Put(ops), Len(ops) = 1, ops[1] = DeleteOutbound(n)
        PROVE  OnlyAckedGo'
    <3>1. \A i \in 1 .. Len(ops), m \in Seqs : Deletes(ops[i], m) => m \in ackedSeqs'
      BY <2>3 DEF Deletes, DeleteOutbound
    <3>. QED
      BY <2>3, <3>1, AckedPut
  <2>. QED
    BY <2>1, <2>2, <2>3
<1>3. ASSUME NEW k \in Sockets, ProcessText(k) \/ FanoutFails(k)
      PROVE  OnlyAckedGo'
  <2>. DEFINE f == Head(toNode[k])
  <2>1. /\ UNCHANGED ackedSeqs
        /\ \/ UNCHANGED storeVars
           \/ \E ops \in Seq(Ops) : /\ Put(ops) /\ Len(ops) = 2
                                    /\ ops[1] = SaveMessageLog(f.seq, f.payload)
                                    /\ ops[2] = SaveSession(session')
    BY <1>3, TextQueues
  <2>. HIDE DEF f
  <2>2. CASE UNCHANGED storeVars
    BY <2>1, <2>2, AckedSame DEF storeVars
  <2>3. ASSUME NEW ops \in Seq(Ops), Put(ops), Len(ops) = 2,
               ops[1] = SaveMessageLog(f.seq, f.payload), ops[2] = SaveSession(session')
        PROVE  OnlyAckedGo'
    <3>1. \A i \in 1 .. Len(ops), m \in Seqs : ~Deletes(ops[i], m)
      BY <2>3 DEF Deletes, SaveMessageLog, SaveSession
    <3>. QED
      BY <2>1, <2>3, <3>1, AckedPut
  <2>. QED
    BY <2>1, <2>2, <2>3
<1>4. ASSUME NEW p \in Outgoing, Broadcast(p)
      PROVE  OnlyAckedGo'
  <2>1. UNCHANGED ackedSeqs
    BY <1>4 DEF Broadcast
  <2>2. PICK ops \in Seq(Ops) : /\ Put(ops) /\ Len(ops) = 3
                                /\ ops[1] = SaveOutbound(session.next, p)
                                /\ ops[2] = SaveMessageLog(session.next, p)
                                /\ ops[3] = SaveSession(session')
    BY <1>4, BroadcastQueues
  <2>3. \A i \in 1 .. Len(ops), m \in Seqs : ~Deletes(ops[i], m)
    BY <2>2 DEF Deletes, SaveOutbound, SaveMessageLog, SaveSession
  <2>. QED
    BY <2>1, <2>2, <2>3, AckedPut
<1>5. ASSUME NEW k \in Sockets, Handshake(k) \/ HandshakeFails(k) \/ AckText(k) \/ Cleanup(k)
      PROVE  OnlyAckedGo'
  BY <1>5, AckedSame DEF Handshake, Hello, LoadSession, LoadOutbox, LoadLog, Install,
     StartReplay, ReplayOne, ReplayDone, HandshakeFails, AckText, Cleanup, TaskEnds, storeVars,
     history
<1>6. CASE Writer
  BY <1>6, AckedWriter DEF Writer, history
<1>7. CASE Exit \/ Crash
  BY <1>7 DEF Exit, Crash, Die, StoreLost, OnlyAckedGo
<1>8. CASE Stop \/ StopStore \/ Restart \/ UNCHANGED vars \/ \E n \in Seqs : Retry(n)
  BY <1>8, AckedSame DEF Stop, StopStore, Restart, Retry, StopWorker, StartWorker, vars, storeVars, history
<1>. QED
  BY <1>1, <1>2, <1>3, <1>4, <1>5, <1>6, <1>7, <1>8 DEF Next, Handler

\* Committed tables change to the ones the batch leads to.
LEMMA DiskTakesBatch ==
    ASSUME [Next]_vars
    PROVE  disk' = disk \/ disk' = staged
<1>1. ASSUME NEW k \in Sockets, Page(k) \/ Lose(k) \/ Evict(k)
      PROVE  disk' = disk
  BY <1>1 DEF Page, Connect, ReceiveMessage, ReceiveAck, SendText, ResendText, Lose, Evict, Break,
     storeVars
<1>2. ASSUME NEW k \in Sockets, Handler(k)
      PROVE  disk' = disk
  BY <1>2 DEF Handler, Handshake, Hello, LoadSession, LoadOutbox, LoadLog, Install, StartReplay,
     ReplayOne, ReplayDone, HandshakeFails, HandleAckFrame, AckText, ProcessText, FanoutFails,
     Cleanup, Put, storeVars
<1>3. CASE (\E p \in Outgoing : Broadcast(p)) \/ (\E n \in Seqs : Retry(n)) \/ Writer
  BY <1>3 DEF Broadcast, Retry, Put, Writer, WriterStep, TakeOp, Flush, WriterError, WorkerExit,
     storeVars
<1>4. CASE Stop \/ StopStore \/ Exit \/ Crash \/ Restart \/ UNCHANGED vars
  BY <1>4 DEF Stop, StopStore, StopWorker, Exit, Crash, Die, StoreLost, Restart, StartWorker,
     storeVars, vars
<1>. QED
  BY <1>1, <1>2, <1>3, <1>4 DEF Next

\* A committed row of the outbox stays as it is until the page has acknowledged
\* its seq (_apply_batch), in every mode: over crashes, failing batches, reloads of
\* the page and recoveries that overlap.
THEOREM CommittedRowsStay == Spec => DurableRowsSettle
<1>1. Init => OnlyAckedGo
  BY DEF Init, StoreInit, OnlyAckedGo, EmptyTables
<1>2. OnlyAckedGo /\ NodeInv /\ [Next]_vars =>
          [\A n \in Seqs : disk.outbox[n] \notin {NoPayload, disk'.outbox[n]} => n \in ackedSeqs]_vars
  <2>. SUFFICES ASSUME OnlyAckedGo, Next, NEW n \in Seqs,
                       disk.outbox[n] \notin {NoPayload, disk'.outbox[n]}
                PROVE  n \in ackedSeqs
    OBVIOUS
  <2>. QED
    BY DiskTakesBatch DEF OnlyAckedGo
<1>. QED
  BY <1>1, <1>2, InitNodeInv, NextNodeInv, NextOnlyAcked, PTL DEF Spec, DurableRowsSettle

----------------------------------------------------------------------------
(***************************************************************************)
(* The connection.                                                         *)
(***************************************************************************)
OneConnection ==
    /\ \A j, k \in Sockets : link[j] = "open" /\ link[k] = "open" => j = k
    /\ \A j, k \in Sockets : Recovering(j) /\ Recovering(k) => j = k
    /\ \A j, k \in Sockets : Recovering(j) /\ link[k] = "open" => j = k
    /\ OpenConnectionRegistered


\* Who touches neither a socket nor a stage of the handshake.
LEMMA ConnectionSame ==
    ASSUME OneConnection, UNCHANGED <<link, registered>>,
           \A k \in Sockets : pc'[k] = pc[k] \/ (~Recovering(k) /\ ~Recovering(k)' /\ pc[k] # "idle")
    PROVE  OneConnection'
  BY DEF OneConnection, OpenConnectionRegistered, Recovering

\* The end of a socket.
LEMMA ConnectionEnds ==
    ASSUME OneConnection, NodeInv, NEW k \in Sockets, NEW l \in {"closed", "broken"},
           link' = [link EXCEPT ![k] = l],
           pc' = pc \/ pc' = [pc EXCEPT ![k] = "idle"],
           UNCHANGED registered \/ registered = k
    PROVE  OneConnection'
  BY DEF OneConnection, OpenConnectionRegistered, Recovering, NodeInv, TypeOK

LEMMA NextOneConnection ==
    ASSUME OverlapRecovery = FALSE, NodeInv, OneConnection, [Next]_vars
    PROVE  OneConnection'
<1>. pc \in [Sockets -> Stages] /\ link \in [Sockets -> {"closed", "open", "broken"}]
  BY DEF NodeInv, TypeOK
<1>1. ASSUME NEW k \in Sockets, Connect(k)
      PROVE  OneConnection'
  BY <1>1 DEF Connect, OneConnection, OpenConnectionRegistered, Recovering
<1>2. ASSUME NEW k \in Sockets, Hello(k)
      PROVE  OneConnection'
  <2>1. pc' = [pc EXCEPT ![k] = "attached"] \/ pc' = [pc EXCEPT ![k] = "loadSession"]
    BY <1>2 DEF Hello
  <2>. QED
    BY <1>2, <2>1 DEF Hello, OneConnection, OpenConnectionRegistered, Recovering, netVars
<1>3. ASSUME NEW k \in Sockets, LoadSession(k) \/ LoadOutbox(k) \/ LoadLog(k) \/ Install(k)
      PROVE  OneConnection'
  <2>1. /\ Recovering(k) /\ pc[k] # "hello" /\ UNCHANGED <<link, registered>>
        /\ \/ pc' = [pc EXCEPT ![k] = "loadOutbox"] \/ pc' = [pc EXCEPT ![k] = "loadLog"]
           \/ pc' = [pc EXCEPT ![k] = "install"] \/ pc' = [pc EXCEPT ![k] = "attached"]
    BY <1>3 DEF LoadSession, LoadOutbox, LoadLog, Install, Recovering, netVars
  <2>. QED
    BY <2>1 DEF OneConnection, OpenConnectionRegistered, Recovering
<1>4. ASSUME NEW k \in Sockets, \/ Lose(k) \/ Evict(k) \/ HandshakeFails(k)
                                \/ Cleanup(k) \/ FanoutFails(k)
      PROVE  OneConnection'
  <2>1. CASE Lose(k) \/ Evict(k)
    BY <2>1, ConnectionEnds DEF Lose, Evict, Break
  <2>2. CASE HandshakeFails(k)
    BY <2>2, ConnectionEnds DEF HandshakeFails
  <2>3. CASE Cleanup(k) \/ FanoutFails(k)
    BY <2>3, ConnectionEnds DEF Cleanup, FanoutFails, TaskEnds
  <2>. QED
    BY <1>4, <2>1, <2>2, <2>3
<1>5. ASSUME NEW k \in Sockets,
             \/ StartReplay(k) \/ ReplayDone(k) \/ AckText(k) \/ ProcessText(k)
      PROVE  OneConnection'
  BY <1>5, ConnectionSame DEF StartReplay, ReplayDone, AckText, ProcessText, Reading,
     Recovering, netVars
<1>6. CASE Exit \/ Crash
  BY <1>6 DEF Exit, Crash, Die, OneConnection, OpenConnectionRegistered, Recovering
<1>7. CASE \/ \E k \in Sockets : \/ ReceiveMessage(k) \/ ReceiveAck(k) \/ ReplayOne(k)
                                \/ HandleAckFrame(k)
                                \/ \E c \in Texts : SendText(k, c) \/ ResendText(k, c)
           \/ (\E p \in Outgoing : Broadcast(p)) \/ (\E n \in Seqs : Retry(n))
           \/ Writer \/ Stop \/ StopStore \/ Restart \/ UNCHANGED vars
  BY <1>7, ConnectionSame DEF ReceiveMessage, ReceiveAck, SendText, ResendText, ReplayOne,
     HandleAckFrame, Broadcast, Retry, Writer, Stop, StopStore, Restart, nodeVars, netVars, vars
<1>. QED
  BY <1>1, <1>2, <1>3, <1>4, <1>5, <1>6, <1>7 DEF Next, Page, Handler, Handshake

\* The entry of _connections is never taken from the connection the page uses
\* (_cleanup_connection), in every mode in which a page waits for the recovery
\* another connection has begun.
THEOREM RegistrationFollowsPage ==
    ASSUME OverlapRecovery = FALSE
    PROVE  Spec => []OpenConnectionRegistered
<1>1. Init => OneConnection
  BY DEF Init, OneConnection, OpenConnectionRegistered, Recovering
<1>2. OneConnection => OpenConnectionRegistered
  BY DEF OneConnection
<1>. QED
  BY <1>1, <1>2, InitNodeInv, NextNodeInv, NextOneConnection, PTL DEF Spec

----------------------------------------------------------------------------
(***************************************************************************)
(* The numbering.  The one handler that recovers the session reads what is *)
(* committed, and nothing is queued or changes on disk meanwhile: the      *)
(* counter goes on where the committed one stands.                         *)
(***************************************************************************)
Reads(k) == pc[k] \in {"loadSession", "loadOutbox", "loadLog", "install"}

RecoveryAlone ==
    /\ \A k \in Sockets : Reads(k) => ~Loaded
    /\ \A k \in Sockets : pc[k] \in {"loadOutbox", "loadLog", "install"} => row[k] = disk.row
    /\ ~Loaded => queue = <<>> /\ staged = disk

\* Of two rows of the session, the second is not older.
NotBefore(r, t) == r # NoRow => t # NoRow /\ r.next <= t.next

NumbersGrow ==
    /\ NotBefore(disk.row, staged.row)
    /\ \A i \in 1 .. Len(queue) : SavesRow(queue[i]) =>
          /\ staged.row # NoRow => staged.row.next <= queue[i].next
          /\ queue[i].next <= session.next
          /\ \A j \in 1 .. Len(queue) : i < j /\ SavesRow(queue[j]) => queue[i].next <= queue[j].next
    /\ Loaded /\ staged.row # NoRow => staged.row.next <= session.next

\* Who reads nothing for a recovery and leaves session and tables alone, or
\* changes them while the session is loaded.
LEMMA RecoverySame ==
    ASSUME RecoveryAlone, UNCHANGED row,
           (Loaded /\ Loaded') \/ UNCHANGED <<session, queue, staged, disk>>,
           \A k \in Sockets : pc'[k] = pc[k] \/ ~Reads(k)'
    PROVE  RecoveryAlone'
  BY DEF RecoveryAlone, Reads, Loaded

LEMMA NextRecoveryAlone ==
    ASSUME NodeInv, OneConnection, RecoveryAlone, [Next]_vars
    PROVE  RecoveryAlone'
<1>. /\ pc \in [Sockets -> Stages] /\ row \in [Sockets -> SessionRow \cup {NoRow}]
     /\ StoreTypeOK /\ \A k \in Sockets : row[k] \in SessionRow \cup {NoRow}
  BY DEF NodeInv, TypeOK
<1>1. ASSUME NEW k \in Sockets, Page(k) \/ Lose(k) \/ Evict(k)
      PROVE  RecoveryAlone'
  BY <1>1, RecoverySame DEF Page, Connect, ReceiveMessage, ReceiveAck, SendText, ResendText,
     Lose, Evict, Break, Reads, storeVars, nodeVars
<1>2. ASSUME NEW k \in Sockets, Hello(k)
      PROVE  RecoveryAlone'
  <2>1. CASE Loaded
    <3>1. session' = session \/ session' = ResetInbound(session)
      BY <1>2 DEF Hello
    <3>2. Loaded'
      BY <2>1, <3>1, ResetInboundType, SocketAssumption DEF Loaded, NodeInv, TypeOK
    <3>. QED
      BY <1>2, <2>1, <3>2, RecoverySame DEF Hello, Reads
  <2>2. CASE ~Loaded
    BY <1>2, <2>2 DEF Hello, RecoveryAlone, Reads, Loaded, storeVars
  <2>. QED
    BY <2>1, <2>2
<1>3. ASSUME NEW k \in Sockets, LoadSession(k) \/ LoadOutbox(k) \/ LoadLog(k)
      PROVE  RecoveryAlone'
  <2>1. /\ Reads(k) /\ UNCHANGED <<session, queue, staged, disk>>
        /\ \/ row' = [row EXCEPT ![k] = disk.row]
           \/ UNCHANGED row /\ pc[k] \in {"loadOutbox", "loadLog"}
        /\ \/ pc' = [pc EXCEPT ![k] = "loadOutbox"] \/ pc' = [pc EXCEPT ![k] = "loadLog"]
           \/ pc' = [pc EXCEPT ![k] = "install"]
    BY <1>3 DEF LoadSession, LoadOutbox, LoadLog, Reads, storeVars
  <2>. QED
    BY <2>1 DEF RecoveryAlone, Reads, Loaded
<1>4. ASSUME NEW k \in Sockets, Install(k)
      PROVE  RecoveryAlone'
  <2>1. session' \in Session
    BY <1>4, RecoveredType DEF Install, NodeInv, TypeOK
  <2>2. Loaded'
    BY <2>1, SocketAssumption DEF Loaded
  <2>3. \A j \in Sockets : Reads(j) => j = k
    BY <1>4 DEF Install, OneConnection, Recovering, Reads
  <2>. QED
    BY <1>4, <2>2, <2>3 DEF Install, RecoveryAlone, Reads
<1>5. ASSUME NEW k \in Sockets, StartReplay(k)
      PROVE  RecoveryAlone'
  <2>1. Loaded /\ session \in Session /\ session' = ResetInbound(session)
    BY <1>5 DEF StartReplay, NodeInv, TypeOK, AttachedHandlersHaveSession, Loaded
  <2>2. Loaded'
    BY <2>1, ResetInboundType, SocketAssumption DEF Loaded
  <2>. QED
    BY <1>5, <2>1, <2>2, RecoverySame DEF StartReplay, Reads
<1>6. ASSUME NEW k \in Sockets, HandleAckFrame(k) \/ ProcessText(k) \/ FanoutFails(k)
      PROVE  RecoveryAlone'
  <2>1. Loaded /\ Loaded'
    BY <1>6, AckQueues, TextQueues DEF Loaded
  <2>. QED
    BY <1>6, <2>1, RecoverySame DEF HandleAckFrame, ProcessText, FanoutFails, TaskEnds, Reads
<1>7. ASSUME NEW k \in Sockets, \/ ReplayOne(k) \/ ReplayDone(k) \/ HandshakeFails(k)
                                \/ AckText(k) \/ Cleanup(k)
      PROVE  RecoveryAlone'
  BY <1>7, RecoverySame DEF ReplayOne, ReplayDone, HandshakeFails, AckText, Cleanup, TaskEnds,
     Reads, storeVars
<1>8. ASSUME NEW p \in Outgoing, Broadcast(p)
      PROVE  RecoveryAlone'
  <2>1. Loaded /\ Loaded'
    BY <1>8, BroadcastQueues
  <2>. QED
    BY <1>8, <2>1, RecoverySame DEF Broadcast
<1>9. CASE Writer
  <2>1. Loaded \/ UNCHANGED <<queue, staged, disk>>
    BY <1>9 DEF Writer, WriterStep, TakeOp, Flush, WriterError, WorkerExit, RecoveryAlone
  <2>2. UNCHANGED session
    BY <1>9 DEF Writer, nodeVars
  <2>. QED
    BY <1>9, <2>1, <2>2, RecoverySame DEF Writer, nodeVars, Loaded
<1>10. CASE Exit \/ Crash
  BY <1>10 DEF Exit, Crash, Die, StoreLost, RecoveryAlone, Reads, Loaded
<1>11. CASE Stop \/ StopStore \/ Restart \/ UNCHANGED vars \/ \E n \in Seqs : Retry(n)
  BY <1>11, RecoverySame DEF Stop, StopStore, Restart, Retry, StopWorker, StartWorker, vars,
     storeVars, nodeVars
<1>. QED
  BY <1>1, <1>2, <1>3, <1>4, <1>5, <1>6, <1>7, <1>8, <1>9, <1>10, <1>11 DEF Next, Handler, Handshake

\* Who leaves the store and the next seq of the session alone.
LEMMA NumbersSame ==
    ASSUME NumbersGrow, UNCHANGED <<queue, staged, disk>>,
           UNCHANGED session \/ (Loaded /\ session'.next = session.next)
    PROVE  NumbersGrow'
  BY DEF NumbersGrow, Loaded, NotBefore

LEMMA NumbersPut ==
    ASSUME StoreTypeOK, NumbersGrow, Loaded, session \in Session, session' \in Session,
           session.next <= session'.next, NEW ops \in Seq(Ops), Put(ops),
           \A i \in 1 .. Len(ops) : SavesRow(ops[i]) => ops[i].next = session'.next
    PROVE  NumbersGrow'
<1>1. queue \in Seq(Ops) /\ staged \in Tables
  BY DEF StoreTypeOK
<1>2. /\ session.next \in Int /\ session'.next \in Int
      /\ staged.row # NoRow => staged.row.next \in Int
  BY <1>1, MaxSeqAssumption DEF Session, Tables, SessionRow
<1>3. UNCHANGED <<staged, disk>>
  BY DEF Put
<1>4. \A i \in 1 .. Len(queue') :
         \/ i \in 1 .. Len(queue) /\ queue'[i] = queue[i]
         \/ \E j \in 1 .. Len(ops) : i = Len(queue) + j /\ queue'[i] = ops[j]
  BY <1>1, PutEffect
<1>5. \A i \in 1 .. Len(queue) : SavesRow(queue[i]) => queue[i].next \in Int
  BY <1>1, MaxSeqAssumption DEF SavesRow, Ops
<1>6. ASSUME NEW i \in 1 .. Len(queue'), SavesRow(queue'[i])
      PROVE  /\ queue'[i].next \in Int
             /\ queue'[i].next <= session'.next
             /\ staged.row # NoRow => staged.row.next <= queue'[i].next
             /\ \A j \in 1 .. Len(queue') :
                    i < j /\ SavesRow(queue'[j]) => queue'[i].next <= queue'[j].next
  <2>1. CASE i \in 1 .. Len(queue) /\ queue'[i] = queue[i]
    <3>1. /\ queue[i].next \in Int /\ queue[i].next <= session'.next
          /\ staged.row # NoRow => staged.row.next <= queue[i].next
      BY <1>2, <1>5, <1>6, <2>1 DEF NumbersGrow
    <3>2. ASSUME NEW j \in 1 .. Len(queue'), i < j, SavesRow(queue'[j])
          PROVE  queue[i].next <= queue'[j].next
      <4>1. CASE j \in 1 .. Len(queue) /\ queue'[j] = queue[j]
        BY <1>6, <2>1, <3>2, <4>1 DEF NumbersGrow
      <4>2. CASE \E l \in 1 .. Len(ops) : queue'[j] = ops[l]
        BY <3>1, <3>2, <4>2
      <4>. QED
        BY <1>4, <4>1, <4>2
    <3>. QED
      BY <2>1, <3>1, <3>2
  <2>2. CASE \E l \in 1 .. Len(ops) : i = Len(queue) + l /\ queue'[i] = ops[l]
    <3>1. queue'[i].next = session'.next
      BY <1>6, <2>2
    <3>2. staged.row # NoRow => staged.row.next <= session'.next
      BY <1>2 DEF NumbersGrow
    <3>3. ASSUME NEW j \in 1 .. Len(queue'), i < j, SavesRow(queue'[j])
          PROVE  queue'[j].next = session'.next
      <4>1. j \notin 1 .. Len(queue)
        BY <1>1, <2>2, <3>3
      <4>. QED
        BY <1>4, <3>3, <4>1
    <3>. QED
      BY <1>2, <3>1, <3>2, <3>3
  <2>. QED
    BY <1>4, <2>1, <2>2
<1>7. staged.row # NoRow => staged.row.next <= session'.next
  BY <1>2 DEF NumbersGrow
<1>. QED
  BY <1>3, <1>6, <1>7 DEF NumbersGrow, NotBefore

LEMMA NumbersWriter ==
    ASSUME StoreTypeOK, session \in Session \cup {NotLoaded}, NumbersGrow,
           ~Loaded => queue = <<>>, WriterStep, UNCHANGED session
    PROVE  NumbersGrow'
<1>. disk \in Tables /\ staged \in Tables /\ queue \in Seq(Ops)
  BY DEF StoreTypeOK
<1>1. CASE TakeOp
  <2>1. Loaded /\ UNCHANGED disk
    BY <1>1 DEF TakeOp
  <2>2. /\ queue[1] \in Ops /\ 1 \in 1 .. Len(queue)
        /\ \A i \in 1 .. Len(queue') : /\ i + 1 \in 1 .. Len(queue) /\ queue'[i] = queue[i + 1]
                                       /\ 1 < i + 1
        /\ staged'.row = IF SavesRow(queue[1])
                         THEN [next |-> queue[1].next, last |-> queue[1].last] ELSE staged.row
    BY <1>1, TakeEffect
  <2>3. CASE SavesRow(queue[1])
    <3>1. staged'.row.next = queue[1].next /\ staged'.row # NoRow
      <4>1. [next |-> queue[1].next, last |-> queue[1].last] \in SessionRow
        BY <2>2, <2>3 DEF Ops, SavesRow, SessionRow
      <4>. QED
        BY <2>2, <2>3, <4>1, StoreAssumption
    <3>2. NotBefore(disk.row, staged'.row)
      <4>1. disk.row # NoRow => disk.row.next \in Int /\ staged.row.next \in Int /\ queue[1].next \in Int
        BY <2>2, <2>3, MaxSeqAssumption DEF NumbersGrow, NotBefore, Tables, SessionRow, Ops, SavesRow
      <4>. QED
        BY <2>2, <2>3, <3>1, <4>1 DEF NumbersGrow, NotBefore
    <3>3. \A i \in 1 .. Len(queue') : SavesRow(queue'[i]) =>
              /\ staged'.row.next <= queue'[i].next
              /\ queue'[i].next <= session.next
      BY <2>2, <2>3, <3>1 DEF NumbersGrow
    <3>4. \A i, j \in 1 .. Len(queue') : SavesRow(queue'[i]) /\ SavesRow(queue'[j]) /\ i < j
              => queue'[i].next <= queue'[j].next
      BY <2>2 DEF NumbersGrow
    <3>5. staged'.row.next <= session.next
      BY <2>2, <2>3, <3>1 DEF NumbersGrow
    <3>. QED
      BY <2>1, <3>2, <3>3, <3>4, <3>5 DEF NumbersGrow
  <2>4. CASE ~SavesRow(queue[1])
    <3>1. \A i \in 1 .. Len(queue') : SavesRow(queue'[i]) =>
              /\ staged.row # NoRow => staged.row.next <= queue'[i].next
              /\ queue'[i].next <= session.next
      BY <2>2 DEF NumbersGrow
    <3>2. \A i, j \in 1 .. Len(queue') : SavesRow(queue'[i]) /\ SavesRow(queue'[j]) /\ i < j
              => queue'[i].next <= queue'[j].next
      BY <2>2 DEF NumbersGrow
    <3>. QED
      BY <2>1, <2>2, <2>4, <3>1, <3>2 DEF NumbersGrow
  <2>. QED
    BY <2>3, <2>4
<1>2. CASE Flush
  <2>1. NotBefore(staged.row, staged.row)
    BY MaxSeqAssumption DEF NotBefore, Tables, SessionRow
  <2>. QED
    BY <1>2, <2>1 DEF Flush, NumbersGrow, Loaded
<1>3. CASE WriterError
  <2>1. NotBefore(disk.row, disk.row)
    BY MaxSeqAssumption DEF NotBefore, Tables, SessionRow
  <2>2. disk.row # NoRow => /\ staged.row # NoRow /\ disk.row.next <= staged.row.next
                            /\ disk.row.next \in Int /\ staged.row.next \in Int
    BY MaxSeqAssumption DEF NumbersGrow, NotBefore, Tables, SessionRow
  <2>3. \A i \in 1 .. Len(queue) : SavesRow(queue[i]) => queue[i].next \in Int
    BY MaxSeqAssumption DEF SavesRow, Ops
  <2>4. staged' = disk /\ UNCHANGED <<queue, disk>>
    BY <1>3 DEF WriterError
  <2>5. Loaded => session.next \in Int
    BY MaxSeqAssumption DEF Loaded, Session
  <2>6. \A i \in 1 .. Len(queue) : SavesRow(queue[i]) =>
            (disk.row # NoRow => disk.row.next <= queue[i].next)
    BY <2>2, <2>3 DEF NumbersGrow
  <2>7. Loaded /\ disk.row # NoRow => disk.row.next <= session.next
    BY <2>2, <2>5 DEF NumbersGrow
  <2>. QED
    BY <1>3, <2>1, <2>4, <2>6, <2>7 DEF NumbersGrow, Loaded
<1>4. CASE WorkerExit
  BY <1>4, NumbersSame DEF WorkerExit
<1>. QED
  BY <1>1, <1>2, <1>3, <1>4 DEF WriterStep

LEMMA NextNumbers ==
    ASSUME NodeInv, OneConnection, RecoveryAlone, NumbersGrow, [Next]_vars
    PROVE  NumbersGrow'
<1>. /\ StoreTypeOK /\ session \in Session \cup {NotLoaded} /\ queue \in Seq(Ops)
     /\ staged \in Tables
  BY DEF NodeInv, TypeOK, StoreTypeOK
<1>1. ASSUME NEW k \in Sockets, Page(k) \/ Lose(k) \/ Evict(k)
      PROVE  NumbersGrow'
  BY <1>1, NumbersSame DEF Page, Connect, ReceiveMessage, ReceiveAck, SendText, ResendText,
     Lose, Evict, Break, storeVars, nodeVars
<1>2. ASSUME NEW k \in Sockets, Hello(k) \/ StartReplay(k)
      PROVE  NumbersGrow'
  <2>1. \/ UNCHANGED session
        \/ Loaded /\ session \in Session /\ session' = ResetInbound(session)
    BY <1>2 DEF Hello, StartReplay, NodeInv, AttachedHandlersHaveSession, Loaded
  <2>2. UNCHANGED session \/ (Loaded /\ session'.next = session.next)
    BY <2>1, ResetInboundType
  <2>. QED
    BY <1>2, <2>2, NumbersSame DEF Hello, StartReplay, storeVars
<1>3. ASSUME NEW k \in Sockets, Install(k)
      PROVE  NumbersGrow'
  <2>1. ~Loaded /\ row[k] = disk.row /\ queue = <<>> /\ staged = disk
    BY <1>3 DEF Install, RecoveryAlone, Reads
  <2>2. session' = Recovered(disk.row, rows[k]) /\ UNCHANGED <<queue, staged, disk>>
    BY <1>3, <2>1 DEF Install, storeVars
  <2>3. disk.row # NoRow => session'.next = disk.row.next /\ disk.row.next \in Int
    BY <2>1, <2>2, MaxSeqAssumption DEF Recovered, NewSession, Tables, SessionRow
  <2>. QED
    BY <2>1, <2>2, <2>3 DEF NumbersGrow, NotBefore
<1>4. ASSUME NEW k \in Sockets, HandleAckFrame(k)
      PROVE  NumbersGrow'
  <2>. DEFINE n == Head(toNode[k]).seq
  <2>1. /\ Loaded /\ session \in Session
        /\ \/ UNCHANGED <<session, storeVars>>
           \/ /\ session' \in Session /\ session'.next = session.next
              /\ \E ops \in Seq(Ops) : Put(ops) /\ Len(ops) = 1 /\ ops[1] = DeleteOutbound(n)
    BY <1>4, AckQueues
  <2>. HIDE DEF n
  <2>2. CASE UNCHANGED <<session, storeVars>>
    BY <2>2, NumbersSame DEF storeVars
  <2>3. ASSUME session' \in Session, session'.next = session.next, NEW ops \in Seq(Ops),
               Put(ops), Len(ops) = 1, ops[1] = DeleteOutbound(n)
        PROVE  NumbersGrow'
    <3>1. \A i \in 1 .. Len(ops) : SavesRow(ops[i]) => ops[i].next = session'.next
      BY <2>3 DEF SavesRow, DeleteOutbound
    <3>2. session.next <= session'.next
      BY <2>1, <2>3, MaxSeqAssumption DEF Session
    <3>. QED
      BY <2>1, <2>3, <3>1, <3>2, NumbersPut
  <2>. QED
    BY <2>1, <2>2, <2>3
<1>5. ASSUME NEW k \in Sockets, ProcessText(k) \/ FanoutFails(k)
      PROVE  NumbersGrow'
  <2>. DEFINE f == Head(toNode[k])
  <2>1. /\ Loaded /\ session \in Session
        /\ \/ UNCHANGED <<session, storeVars>>
           \/ /\ session' \in Session /\ session'.next = session.next
              /\ \E ops \in Seq(Ops) : /\ Put(ops) /\ Len(ops) = 2
                                       /\ ops[1] = SaveMessageLog(f.seq, f.payload)
                                       /\ ops[2] = SaveSession(session')
    BY <1>5, TextQueues
  <2>. HIDE DEF f
  <2>2. CASE UNCHANGED <<session, storeVars>>
    BY <2>2, NumbersSame DEF storeVars
  <2>3. ASSUME session' \in Session, session'.next = session.next, NEW ops \in Seq(Ops),
               Put(ops), Len(ops) = 2, ops[1] = SaveMessageLog(f.seq, f.payload),
               ops[2] = SaveSession(session')
        PROVE  NumbersGrow'
    <3>1. \A i \in 1 .. Len(ops) : SavesRow(ops[i]) => ops[i].next = session'.next
      BY <2>3 DEF SavesRow, SaveMessageLog, SaveSession
    <3>2. session.next <= session'.next
      BY <2>1, <2>3, MaxSeqAssumption DEF Session
    <3>. QED
      BY <2>1, <2>3, <3>1, <3>2, NumbersPut
  <2>. QED
    BY <2>1, <2>2, <2>3
<1>6. ASSUME NEW p \in Outgoing, Broadcast(p)
      PROVE  NumbersGrow'
  <2>1. /\ Loaded /\ session \in Session /\ session' \in Session
        /\ session'.next = session.next + 1
    BY <1>6, BroadcastQueues
  <2>2. PICK ops \in Seq(Ops) : /\ Put(ops) /\ Len(ops) = 3
                                /\ ops[1] = SaveOutbound(session.next, p)
                                /\ ops[2] = SaveMessageLog(session.next, p)
                                /\ ops[3] = SaveSession(session')
    BY <1>6, BroadcastQueues
  <2>3. \A i \in 1 .. Len(ops) : SavesRow(ops[i]) => ops[i].next = session'.next
    BY <2>2 DEF SavesRow, SaveOutbound, SaveMessageLog, SaveSession
  <2>4. session.next <= session'.next
    BY <2>1, MaxSeqAssumption DEF Session
  <2>. QED
    BY <2>1, <2>2, <2>3, <2>4, NumbersPut
<1>7. ASSUME NEW k \in Sockets, \/ LoadSession(k) \/ LoadOutbox(k) \/ LoadLog(k)
                                \/ ReplayOne(k) \/ ReplayDone(k) \/ HandshakeFails(k)
                                \/ AckText(k) \/ Cleanup(k)
      PROVE  NumbersGrow'
  BY <1>7, NumbersSame DEF LoadSession, LoadOutbox, LoadLog, ReplayOne, ReplayDone,
     HandshakeFails, AckText, Cleanup, TaskEnds, storeVars
<1>8. CASE Writer
  BY <1>8, NumbersWriter DEF Writer, RecoveryAlone, nodeVars
<1>9. CASE Exit \/ Crash
  <2>1. disk \in Tables /\ queue' = <<>> /\ staged' = disk /\ disk' = disk /\ ~Loaded'
    BY <1>9 DEF Exit, Crash, Die, StoreLost, Loaded, StoreTypeOK
  <2>. QED
    BY <2>1, MaxSeqAssumption DEF NumbersGrow, NotBefore, Tables, SessionRow
<1>10. CASE Stop \/ StopStore \/ Restart \/ UNCHANGED vars \/ \E n \in Seqs : Retry(n)
  BY <1>10, NumbersSame DEF Stop, StopStore, Restart, Retry, StopWorker, StartWorker, vars,
     storeVars, nodeVars
<1>. QED
  BY <1>1, <1>2, <1>3, <1>4, <1>5, <1>6, <1>7, <1>8, <1>9, <1>10 DEF Next, Handler, Handshake

\* The committed next_send_seq never moves back, over crashes, failing batches,
\* restarts and reloads of the page, as long as one handler at a time recovers
\* the session (_recover_or_create, save_session).
THEOREM CommittedNumbersGrow ==
    ASSUME OverlapRecovery = FALSE
    PROVE  Spec => DurableNextGrows
<1>. DEFINE I == NodeInv /\ OneConnection /\ RecoveryAlone /\ NumbersGrow
<1>1. Init => I
  BY InitNodeInv DEF Init, OneConnection, OpenConnectionRegistered, Recovering, StoreInit,
     RecoveryAlone, Reads, Loaded, NumbersGrow, NotBefore, EmptyTables
<1>2. I /\ [Next]_vars => I'
  BY NextNodeInv, NextOneConnection, NextRecoveryAlone, NextNumbers
<1>3. I /\ [Next]_vars =>
          [disk.row # NoRow => disk'.row # NoRow /\ disk'.row.next >= disk.row.next]_vars
  <2>. SUFFICES ASSUME I, Next, disk.row # NoRow
                PROVE  disk'.row # NoRow /\ disk'.row.next >= disk.row.next
    OBVIOUS
  <2>1. staged.row # NoRow /\ disk.row.next <= staged.row.next
    BY DEF NumbersGrow, NotBefore
  <2>2. disk.row.next \in Int /\ staged.row.next \in Int
    BY <2>1, MaxSeqAssumption DEF NodeInv, TypeOK, StoreTypeOK, Tables, SessionRow
  <2>. QED
    BY <2>1, <2>2, DiskTakesBatch
<1>. QED
  BY <1>1, <1>2, <1>3, PTL DEF Spec, DurableNextGrows

----------------------------------------------------------------------------
(***************************************************************************)
(* What is kept for the user, in the mode in which the node keeps it: the  *)
(* writer does not fail, the process is stopped in an orderly way only and *)
(* a page waits for a recovery under way.  A recovery may fill the outbox  *)
(* from the message log; then what was under the seqs it fills (overlaid)  *)
(* is out of the reach of the properties, and must not spoil the others.   *)
(***************************************************************************)
DeliveryMode == SqliteErrors = FALSE /\ Crashes = FALSE /\ OverlapRecovery = FALSE

\* All there is: the user's texts and the messages handed to the session.
Known == Texts \cup Contents(assigned, Seqs)

\* A message under a seq is the one the seq was given to, unless it is overlaid.
Names(n, p)   == p \in Known /\ (n \in overlaid \/ p = assigned[n])
FitsRow(n, p) == p = NoPayload \/ Names(n, p)

\* A frame from the page is a text, or the ACK of a message it has displayed.
Reports(f) ==
    IF f.kind = "ack" THEN f.seq \in overlaid \/ assigned[f.seq] \in shown
                      ELSE f.payload \in Texts

FramesNameAssigned ==
    /\ \A k \in Sockets : \A i \in 1 .. Len(toClient[k]) :
          toClient[k][i].kind = "msg" => Names(toClient[k][i].seq, toClient[k][i].payload)
    /\ \A k \in Sockets : \A i \in 1 .. Len(toNode[k]) : Reports(toNode[k][i])
    /\ \A k \in Sockets, n \in Seqs : FitsRow(n, rows[k][n])

NextIn(r) == IF r = NoRow THEN 1 ELSE r.next

\* Seqs are given once, below the counter of the session, or of the row it will
\* be recovered from.
AssignedOnce ==
    /\ \A n \in Seqs : assigned[n] # NoPayload =>
          /\ assigned[n] \in Outgoing
          /\ n < IF Loaded THEN session.next ELSE NextIn(disk.row)
    /\ \A m, n \in Seqs : assigned[m] # NoPayload /\ assigned[m] = assigned[n] => m = n

Logs(op) == op.kind = "save_message_log"

TablesNameAssigned ==
    /\ \A n \in Seqs : /\ staged.outbox[n] \in {NoPayload, assigned[n]}
                       /\ disk.outbox[n] \in {NoPayload, assigned[n]}
                       /\ Loaded => FitsRow(n, session.outbox[n])
    /\ \A i \in 1 .. Len(queue), n \in Seqs :
          /\ Saves(queue[i], n) => queue[i].payload = assigned[n] /\ assigned[n] # NoPayload
          /\ Deletes(queue[i], n) => n \in overlaid \/ assigned[n] # NoPayload

LogsKnown ==
    /\ \A n \in Seqs : staged.log[n] \in Known \cup {NoPayload} /\ disk.log[n] \in Known \cup {NoPayload}
    /\ \A i \in 1 .. Len(queue) : Logs(queue[i]) => queue[i].payload \in Known

\* What the queue will do to the row of a seq: a message that is held gets its
\* row and keeps it, one that is settled loses it.
QueueSettles == Loaded => \A n \in Plain :
    IF session.outbox[n] # NoPayload
    THEN /\ \A i \in 1 .. Len(queue) : ~Deletes(queue[i], n)
         /\ staged.outbox[n] # NoPayload \/ \E i \in 1 .. Len(queue) : Saves(queue[i], n)
    ELSE /\ staged.outbox[n] # NoPayload => \E i \in 1 .. Len(queue) : Deletes(queue[i], n)
         /\ \A i \in 1 .. Len(queue) : Saves(queue[i], n) =>
               \E j \in 1 .. Len(queue) : i < j /\ Deletes(queue[j], n)

\* The counter of the session is in the tables or on its way there.
QueueNumbers == Loaded =>
    \/ session.next = NextIn(staged.row)
    \/ \E i \in 1 .. Len(queue) : SavesRow(queue[i]) /\ queue[i].next = session.next

RecoveryReadsAll ==
    \A k \in Sockets :
        /\ pc[k] = "loadLog" => rows[k] = disk.outbox
        /\ pc[k] = "install" => \A n \in Plain : rows[k][n] = disk.outbox[n]

OrderlyStop ==
    /\ worker # "dead"
    /\ Up => worker = "running"
    /\ process = "stopping" => worker \in {"stopping", "stopped"}
    /\ process = "down" => ~Loaded
    /\ process = "stopping" /\ worker = "stopped" => queue = <<>> /\ staged = disk

\* The inductive invariant behind the outbound direction.
DeliveryInv ==
    /\ NodeInv /\ OneConnection /\ RecoveryAlone /\ NumbersGrow
    /\ FramesNameAssigned /\ AssignedOnce /\ TablesNameAssigned /\ QueueSettles
    /\ LogsKnown /\ QueueNumbers /\ RecoveryReadsAll /\ OrderlyStop /\ NoLoss

----------------------------------------------------------------------------
(***************************************************************************)
(* The steps of the node as session, queue and tables see them.            *)
(***************************************************************************)

\* The queue has the operations of set ops behind the old ones.
Grows(ops) ==
    /\ UNCHANGED <<staged, disk>>
    /\ \A i \in 1 .. Len(queue) : i \in 1 .. Len(queue') /\ queue'[i] = queue[i]
    /\ \A op \in ops : \E i \in 1 .. Len(queue') : i > Len(queue) /\ queue'[i] = op
    /\ \A i \in 1 .. Len(queue') : \/ i \in 1 .. Len(queue) /\ queue'[i] = queue[i]
                                   \/ i > Len(queue) /\ queue'[i] \in ops

Sends(p) ==
    /\ Loaded /\ Loaded' /\ session.next \in Seqs
    /\ session'.next = session.next + 1
    /\ session'.outbox = [session.outbox EXCEPT ![session.next] = p]
    /\ \A n \in Seqs : assigned[n] # p
    /\ assigned' = [assigned EXCEPT ![session.next] = p]
    /\ Grows({SaveOutbound(session.next, p), SaveMessageLog(session.next, p),
              SaveSession(session')})
    /\ UNCHANGED <<shown, overlaid>>

Settles(n) ==
    /\ Loaded /\ Loaded' /\ session.outbox[n] # NoPayload
    /\ n \in overlaid \/ assigned[n] \in shown
    /\ session'.next = session.next
    /\ session'.outbox = [session.outbox EXCEPT ![n] = NoPayload]
    /\ Grows({DeleteOutbound(n)})
    /\ UNCHANGED <<assigned, shown, overlaid>>

Relates(m, q) ==
    /\ Loaded /\ Loaded'
    /\ session'.next = session.next /\ session'.outbox = session.outbox
    /\ Grows({SaveMessageLog(m, q), SaveSession(session')})
    /\ UNCHANGED <<assigned, shown>>

Resets ==
    /\ Loaded /\ Loaded'
    /\ session'.next = session.next /\ session'.outbox = session.outbox
    /\ UNCHANGED <<queue, staged, disk, assigned, shown>>

Recovers ==
    /\ ~Loaded /\ Loaded' /\ queue = <<>> /\ staged = disk
    /\ session'.next = NextIn(disk.row)
    /\ \A n \in Seqs : FitsRow(n, session'.outbox[n])
    /\ \A n \in Plain : session'.outbox[n] = disk.outbox[n]
    /\ UNCHANGED <<queue, staged, disk, assigned, shown>>

Takes   == Loaded /\ TakeOp /\ UNCHANGED <<session, assigned, shown>>
Commits == Loaded /\ disk' = staged /\ UNCHANGED <<queue, staged, session, assigned, shown>>

Leaves ==
    /\ process = "stopping" /\ Loaded /\ ~Loaded' /\ queue = <<>> /\ staged = disk
    /\ UNCHANGED <<queue, staged, disk, assigned, shown>>

Idles == UNCHANGED <<session, queue, staged, disk, assigned>> /\ shown \subseteq shown'

MemoryStep ==
    /\ overlaid \subseteq overlaid'
    /\ \/ \E p \in Outgoing : Sends(p)
       \/ \E n \in Seqs : Settles(n)
       \/ \E m \in Seqs, q \in Texts : Relates(m, q)
       \/ Resets \/ Recovers \/ Takes \/ Commits \/ Leaves \/ Idles

LEMMA PutGrows ==
    ASSUME queue \in Seq(Ops), NEW ops \in Seq(Ops), Put(ops)
    PROVE  Grows({ops[j] : j \in 1 .. Len(ops)})
<1>1. /\ UNCHANGED <<staged, disk>>
      /\ \A i \in 1 .. Len(queue) : i \in 1 .. Len(queue') /\ queue'[i] = queue[i]
      /\ \A j \in 1 .. Len(ops) : \E i \in 1 .. Len(queue') :
            i = Len(queue) + j /\ queue'[i] = ops[j]
      /\ \A i \in 1 .. Len(queue') :
            \/ i \in 1 .. Len(queue) /\ queue'[i] = queue[i]
            \/ \E j \in 1 .. Len(ops) : i = Len(queue) + j /\ queue'[i] = ops[j]
  BY PutEffect DEF Put
<1>2. \A j \in 1 .. Len(ops) : Len(queue) + j > Len(queue)
  OBVIOUS
<1>. DEFINE new == {ops[j] : j \in 1 .. Len(ops)}
<1>3. ASSUME NEW op \in new
      PROVE  \E i \in 1 .. Len(queue') : i > Len(queue) /\ queue'[i] = op
  <2>1. PICK j \in 1 .. Len(ops) : op = ops[j]
    OBVIOUS
  <2>2. PICK i \in 1 .. Len(queue') : i = Len(queue) + j /\ queue'[i] = ops[j]
    BY <1>1
  <2>. QED
    BY <1>2, <2>1, <2>2
<1>4. \A i \in 1 .. Len(queue') : \/ i \in 1 .. Len(queue) /\ queue'[i] = queue[i]
                                  \/ i > Len(queue) /\ queue'[i] \in new
  <2>1. ASSUME NEW i \in 1 .. Len(queue'), NEW j \in 1 .. Len(ops),
               i = Len(queue) + j, queue'[i] = ops[j]
        PROVE  i > Len(queue) /\ queue'[i] \in new
    BY <1>2, <2>1
  <2>. QED
    BY <1>1, <2>1
<1>. HIDE DEF new
<1>5. Grows(new)
  BY <1>1, <1>3, <1>4 DEF Grows
<1>. QED
  BY <1>5 DEF new

\* The head of what a page has sent.
LEMMA HeadNamesAssigned ==
    ASSUME NodeInv, FramesNameAssigned, NEW k \in Sockets, toNode[k] # <<>>
    PROVE  Reports(Head(toNode[k]))
<1>1. toNode[k] \in Seq(Frames)
  BY DEF NodeInv, TypeOK
<1>2. 1 \in 1 .. Len(toNode[k]) /\ Head(toNode[k]) = toNode[k][1]
  BY <1>1
<1>. QED
  BY <1>2 DEF FramesNameAssigned

LEMMA InstallRecovers ==
    ASSUME DeliveryInv, NEW k \in Sockets, Install(k)
    PROVE  Recovers
<1>1. ~Loaded /\ row[k] = disk.row /\ queue = <<>> /\ staged = disk
  BY DEF Install, DeliveryInv, RecoveryAlone, Reads
<1>2. session' = Recovered(disk.row, rows[k])
      /\ UNCHANGED <<queue, staged, disk, assigned, shown>>
  BY <1>1 DEF Install, storeVars
<1>3. /\ disk \in Tables /\ disk.outbox \in Buffer /\ disk.row \in SessionRow \cup {NoRow}
      /\ rows[k] \in Buffer
  BY DEF DeliveryInv, NodeInv, TypeOK, StoreTypeOK, Tables
<1>4. session' \in Session
  BY <1>2, <1>3, RecoveredType
<1>5. Loaded'
  BY <1>4, SocketAssumption DEF Loaded
<1>6. /\ \A n \in Seqs : FitsRow(n, rows[k][n])
      /\ \A n \in Plain : rows[k][n] = disk.outbox[n]
  BY DEF Install, DeliveryInv, FramesNameAssigned, RecoveryReadsAll
<1>7. CASE disk.row = NoRow
  <2>1. ASSUME NEW n \in Seqs
        PROVE  disk.outbox[n] = NoPayload
    <3>1. ~(n < 1)
      BY MaxSeqAssumption DEF Seqs
    <3>2. assigned[n] = NoPayload
      BY <1>1, <1>7, <3>1 DEF DeliveryInv, AssignedOnce, NextIn
    <3>. QED
      BY <3>2 DEF DeliveryInv, TablesNameAssigned
  <2>2. session'.next = NextIn(disk.row) /\ session'.outbox = EmptyBuffer
    BY <1>2, <1>7 DEF Recovered, FreshSession, NewSession, NextIn
  <2>3. \A n \in Seqs : session'.outbox[n] = NoPayload
    BY <2>2 DEF EmptyBuffer
  <2>. QED
    BY <1>1, <1>2, <1>5, <2>1, <2>2, <2>3 DEF Recovers, FitsRow, Plain
<1>8. CASE disk.row # NoRow
  <2>1. session'.outbox = rows[k] /\ session'.next = NextIn(disk.row)
    BY <1>2, <1>8 DEF Recovered, NewSession, NextIn
  <2>. QED
    BY <1>1, <1>2, <1>5, <1>6, <2>1 DEF Recovers
<1>. QED
  BY <1>7, <1>8

LEMMA HandlerMemory ==
    ASSUME DeliveryInv, NEW k \in Sockets, Handler(k)
    PROVE  MemoryStep
<1>. NodeInv /\ queue \in Seq(Ops)
  BY DEF DeliveryInv, NodeInv, TypeOK, StoreTypeOK
<1>1. CASE Hello(k) \/ StartReplay(k)
  <2>1. /\ UNCHANGED <<queue, staged, disk, assigned, shown, overlaid>>
        /\ \/ UNCHANGED session
           \/ Loaded /\ session \in Session /\ session' = ResetInbound(session)
    BY <1>1 DEF Hello, StartReplay, NodeInv, TypeOK, AttachedHandlersHaveSession, Loaded, storeVars
  <2>2. CASE UNCHANGED session
    BY <2>1, <2>2 DEF MemoryStep, Idles
  <2>3. CASE Loaded /\ session \in Session /\ session' = ResetInbound(session)
    <3>1. /\ session' \in Session /\ session'.next = session.next
          /\ session'.outbox = session.outbox
      BY <2>3, ResetInboundType
    <3>2. Loaded'
      BY <3>1, SocketAssumption DEF Loaded
    <3>. QED
      BY <2>1, <2>3, <3>1, <3>2 DEF MemoryStep, Resets
  <2>. QED
    BY <2>1, <2>2, <2>3
<1>2. CASE Install(k)
  BY <1>2, InstallRecovers DEF MemoryStep, Install
<1>3. CASE HandleAckFrame(k)
  <2>. DEFINE n == Head(toNode[k]).seq
  <2>1. /\ Loaded /\ n \in Seqs
        /\ \/ UNCHANGED <<session, storeVars>>
           \/ /\ session.outbox[n] # NoPayload
              /\ Loaded' /\ session'.next = session.next
              /\ session'.outbox = [session.outbox EXCEPT ![n] = NoPayload]
              /\ \E ops \in Seq(Ops) : Put(ops) /\ Len(ops) = 1 /\ ops[1] = DeleteOutbound(n)
    BY <1>3, AckQueues
  <2>2. UNCHANGED <<assigned, shown, overlaid>> /\ (n \in overlaid \/ assigned[n] \in shown)
    BY <1>3, HeadNamesAssigned DEF HandleAckFrame, Reading, DeliveryInv, Reports
  <2>. HIDE DEF n
  <2>3. CASE UNCHANGED <<session, storeVars>>
    BY <2>2, <2>3 DEF MemoryStep, Idles, storeVars
  <2>4. ASSUME NEW ops \in Seq(Ops), Put(ops), Len(ops) = 1, ops[1] = DeleteOutbound(n)
        PROVE  Grows({DeleteOutbound(n)})
    <3>1. {ops[j] : j \in 1 .. Len(ops)} = {DeleteOutbound(n)}
      BY <2>4
    <3>. QED
      BY <2>4, <3>1, PutGrows
  <2>. QED
    BY <2>1, <2>2, <2>3, <2>4 DEF MemoryStep, Settles
<1>4. CASE ProcessText(k) \/ FanoutFails(k)
  <2>. DEFINE f == Head(toNode[k])
  <2>1. /\ Loaded /\ f.seq \in Seqs /\ f.payload \in Payloads /\ f.kind = "msg" /\ toNode[k] # <<>>
        /\ \/ UNCHANGED <<session, storeVars>>
           \/ /\ Loaded' /\ session'.next = session.next /\ session'.outbox = session.outbox
              /\ \E ops \in Seq(Ops) : /\ Put(ops) /\ Len(ops) = 2
                                       /\ ops[1] = SaveMessageLog(f.seq, f.payload)
                                       /\ ops[2] = SaveSession(session')
    BY <1>4, TextQueues
  <2>2. UNCHANGED <<assigned, shown, overlaid>> /\ f.payload \in Texts
    BY <1>4, <2>1, HeadNamesAssigned DEF ProcessText, FanoutFails, DeliveryInv, Reports
  <2>. HIDE DEF f
  <2>3. CASE UNCHANGED <<session, storeVars>>
    BY <2>2, <2>3 DEF MemoryStep, Idles, storeVars
  <2>4. ASSUME NEW ops \in Seq(Ops), Put(ops), Len(ops) = 2,
               ops[1] = SaveMessageLog(f.seq, f.payload), ops[2] = SaveSession(session')
        PROVE  Grows({SaveMessageLog(f.seq, f.payload), SaveSession(session')})
    <3>1. {ops[j] : j \in 1 .. Len(ops)}
              = {SaveMessageLog(f.seq, f.payload), SaveSession(session')}
      <4>1. 1 .. Len(ops) = {1, 2}
        BY <2>4
      <4>. QED
        BY <2>4, <4>1
    <3>. QED
      BY <2>4, <3>1, PutGrows
  <2>. QED
    BY <2>1, <2>2, <2>3, <2>4 DEF MemoryStep, Relates
<1>5. CASE \/ LoadSession(k) \/ LoadOutbox(k) \/ LoadLog(k) \/ ReplayOne(k) \/ ReplayDone(k)
           \/ HandshakeFails(k) \/ AckText(k) \/ Cleanup(k)
  BY <1>5 DEF MemoryStep, Idles, LoadSession, LoadOutbox, LoadLog, ReplayOne, ReplayDone,
     HandshakeFails, AckText, Cleanup, TaskEnds, storeVars, history
<1>. QED
  BY <1>1, <1>2, <1>3, <1>4, <1>5 DEF Handler, Handshake

LEMMA BroadcastMemory ==
    ASSUME DeliveryInv, NEW p \in Outgoing, Broadcast(p)
    PROVE  Sends(p)
<1>. NodeInv /\ queue \in Seq(Ops)
  BY DEF DeliveryInv, NodeInv, TypeOK, StoreTypeOK
<1>1. /\ Loaded /\ Loaded' /\ session.next \in Seqs
      /\ session'.next = session.next + 1
      /\ session'.outbox = [session.outbox EXCEPT ![session.next] = p]
  BY BroadcastQueues
<1>2. PICK ops \in Seq(Ops) : /\ Put(ops) /\ Len(ops) = 3
                              /\ ops[1] = SaveOutbound(session.next, p)
                              /\ ops[2] = SaveMessageLog(session.next, p)
                              /\ ops[3] = SaveSession(session')
  BY BroadcastQueues
<1>3. {ops[j] : j \in 1 .. Len(ops)} = {SaveOutbound(session.next, p),
           SaveMessageLog(session.next, p), SaveSession(session')}
  <2>1. 1 .. Len(ops) = {1, 2, 3}
    BY <1>2
  <2>. QED
    BY <1>2, <2>1
<1>4. Grows({SaveOutbound(session.next, p), SaveMessageLog(session.next, p),
             SaveSession(session')})
  BY <1>2, <1>3, PutGrows
<1>5. /\ \A n \in Seqs : assigned[n] # p
      /\ assigned' = [assigned EXCEPT ![session.next] = p] /\ UNCHANGED <<shown, overlaid>>
  BY DEF Broadcast
<1>. QED
  BY <1>1, <1>4, <1>5 DEF Sends

\* Every step of the node is one of these in DeliveryMode.
LEMMA MemorySteps ==
    ASSUME DeliveryMode, DeliveryInv, [Next]_vars
    PROVE  MemoryStep
<1>1. ASSUME NEW k \in Sockets, Page(k) \/ Lose(k) \/ Evict(k)
      PROVE  Idles /\ UNCHANGED overlaid
  BY <1>1 DEF Idles, Page, Connect, ReceiveMessage, ReceiveAck, SendText, ResendText, Lose,
     Evict, Break, storeVars, nodeVars, history
<1>2. CASE Writer
  <2>1. UNCHANGED <<session, assigned, shown, overlaid>>
    BY <1>2 DEF Writer, nodeVars, history
  <2>2. TakeOp \/ Flush \/ WorkerExit
    BY <1>2 DEF Writer, WriterStep, WriterError, DeliveryMode
  <2>3. WorkerExit => UNCHANGED <<queue, staged, disk>>
    BY DEF WorkerExit
  <2>4. TakeOp \/ Flush => Loaded
    BY DEF TakeOp, Flush, DeliveryInv, RecoveryAlone
  <2>5. Flush => disk' = staged /\ UNCHANGED <<queue, staged>>
    BY DEF Flush
  <2>. QED
    BY <2>1, <2>2, <2>3, <2>4, <2>5 DEF MemoryStep, Takes, Commits, Idles
<1>3. CASE Exit \/ Crash
  <2>1. process = "stopping" /\ worker = "stopped" /\ Die
    BY <1>3 DEF Exit, Crash, DeliveryMode, DeliveryInv, OrderlyStop
  <2>2. queue = <<>> /\ staged = disk
    BY <2>1 DEF DeliveryInv, OrderlyStop
  <2>3. ~Loaded' /\ UNCHANGED <<queue, staged, disk, assigned, shown, overlaid>>
    BY <2>1, <2>2 DEF Die, StoreLost, Loaded
  <2>4. CASE Loaded
    BY <2>1, <2>2, <2>3, <2>4 DEF MemoryStep, Leaves
  <2>5. CASE ~Loaded
    BY <2>3, <2>5 DEF MemoryStep, Idles, Loaded
  <2>. QED
    BY <2>4, <2>5
<1>4. CASE Stop \/ StopStore \/ Restart \/ UNCHANGED vars \/ \E n \in Seqs : Retry(n)
  BY <1>4 DEF MemoryStep, Idles, Stop, StopStore, Restart, Retry, StopWorker, StartWorker, vars,
     storeVars, nodeVars, history
<1>. QED
  BY <1>1, <1>2, <1>3, <1>4, HandlerMemory, BroadcastMemory DEF Next, MemoryStep, Sends

----------------------------------------------------------------------------
(***************************************************************************)
(* Each part of the invariant about session, queue and tables is kept by   *)
(* these steps.                                                            *)
(***************************************************************************)
LEMMA MemoryTypes ==
    ASSUME NodeInv
    PROVE  /\ StoreTypeOK /\ queue \in Seq(Ops) /\ staged \in Tables /\ disk \in Tables
           /\ assigned \in [Seqs -> Payloads \cup {NoPayload}]
           /\ staged.outbox \in [Seqs -> Payloads \cup {NoPayload}]
           /\ disk.outbox \in [Seqs -> Payloads \cup {NoPayload}]
           /\ Loaded => /\ session \in Session /\ session.next \in 1 .. MaxSeq + 1
                        /\ session.outbox \in [Seqs -> Payloads \cup {NoPayload}]
           /\ NextIn(staged.row) \in 1 .. MaxSeq + 1 /\ NextIn(disk.row) \in 1 .. MaxSeq + 1
           /\ \A i \in 1 .. Len(queue) : queue[i] \in Ops
<1>1. /\ queue \in Seq(Ops) /\ staged \in Tables /\ disk \in Tables /\ assigned \in Buffer
      /\ StoreTypeOK /\ (Loaded => session \in Session)
  BY DEF NodeInv, TypeOK, StoreTypeOK, Loaded
<1>2. 1 \in 1 .. MaxSeq + 1
  BY MaxSeqAssumption
<1>3. \A i \in 1 .. Len(queue) : queue[i] \in Ops
  BY <1>1
<1>. QED
  BY <1>1, <1>2, <1>3 DEF Tables, SessionRow, Buffer, Session, NextIn

\* FitsRow of what is there after the step.
WillFit(n, p) == p = NoPayload \/ (p \in Known' /\ (n \in overlaid' \/ p = assigned'[n]))

\* A seq that has been given keeps its message, and what fitted still does.
LEMMA AssignedKept ==
    ASSUME DeliveryInv, MemoryStep
    PROVE  /\ \A n \in Seqs : assigned[n] # NoPayload => assigned'[n] = assigned[n]
           /\ shown \subseteq shown' /\ overlaid \subseteq overlaid' /\ Plain' \subseteq Plain
           /\ Known \subseteq Known' /\ NoPayload \notin Known
           /\ \A n \in Seqs : \A p : FitsRow(n, p) => WillFit(n, p)
<1>. assigned \in [Seqs -> Payloads \cup {NoPayload}]
  BY MemoryTypes DEF DeliveryInv
<1>1. ASSUME NEW p \in Outgoing, Sends(p), NEW n \in Seqs, assigned[n] # NoPayload
      PROVE  assigned'[n] = assigned[n]
  <2>1. n < session.next /\ n \in Int /\ session.next \in Int
    BY <1>1, MaxSeqAssumption DEF DeliveryInv, AssignedOnce, Sends, Seqs
  <2>. QED
    BY <1>1, <2>1 DEF Sends
<1>2. shown \subseteq shown' /\ overlaid \subseteq overlaid'
  BY DEF MemoryStep, Sends, Settles, Relates, Resets, Recovers, Takes, Commits, Leaves, Idles
<1>3. assigned' = assigned \/ \E p \in Outgoing : Sends(p)
  BY DEF MemoryStep, Settles, Relates, Resets, Recovers, Takes, Commits, Leaves, Idles
<1>4. \A n \in Seqs : assigned[n] # NoPayload => assigned'[n] = assigned[n]
  BY <1>1, <1>3
<1>5. Known \subseteq Known' /\ NoPayload \notin Known
  BY <1>4, PayloadAssumption DEF Known, Contents
<1>6. ASSUME NEW n \in Seqs, NEW p, FitsRow(n, p)
      PROVE  WillFit(n, p)
  BY <1>2, <1>4, <1>5, <1>6 DEF FitsRow, Names, WillFit
<1>. QED
  BY <1>2, <1>4, <1>5, <1>6 DEF Plain

\* A message just sent has a seq nobody has used: nothing is under it anywhere.
LEMMA NextUnused ==
    ASSUME DeliveryInv, Loaded, session.next \in Seqs
    PROVE  /\ assigned[session.next] = NoPayload
           /\ session.next \in Plain => session.outbox[session.next] = NoPayload
           /\ staged.outbox[session.next] = NoPayload /\ disk.outbox[session.next] = NoPayload
           /\ \A i \in 1 .. Len(queue) :
                 /\ ~Saves(queue[i], session.next)
                 /\ session.next \in Plain => ~Deletes(queue[i], session.next)
<1>1. ~(session.next < session.next)
  BY DEF Seqs
<1>2. assigned[session.next] = NoPayload
  BY <1>1 DEF DeliveryInv, AssignedOnce
<1>. QED
  BY <1>2 DEF DeliveryInv, TablesNameAssigned, FitsRow, Names, Plain

LEMMA AssignedOnceKept ==
    ASSUME DeliveryInv, NodeInv', MemoryStep
    PROVE  AssignedOnce'
<1>. USE MemoryTypes DEF DeliveryInv
<1>1. ASSUME NEW p \in Outgoing, Sends(p)
      PROVE  AssignedOnce'
  <2>1. session.next \in Int /\ \A n \in Seqs : n \in Int
    BY <1>1, MaxSeqAssumption DEF Seqs, Sends
  <2>2. \A n \in Seqs : assigned'[n] = IF n = session.next THEN p ELSE assigned[n]
    BY <1>1 DEF Sends
  <2>3. \A n \in Seqs : assigned'[n] # NoPayload => assigned'[n] \in Outgoing /\ n < session'.next
    BY <1>1, <2>1, <2>2 DEF AssignedOnce, Sends
  <2>4. p # NoPayload
    BY PayloadAssumption
  <2>5. \A m, n \in Seqs : assigned'[m] # NoPayload /\ assigned'[m] = assigned'[n] => m = n
    BY <1>1, <2>2, <2>4 DEF AssignedOnce, Sends
  <2>. QED
    BY <1>1, <2>3, <2>5 DEF AssignedOnce, Sends
<1>2. CASE \E n \in Seqs : Settles(n)
  BY <1>2 DEF Settles, AssignedOnce
<1>3. CASE \E m \in Seqs, q \in Texts : Relates(m, q)
  BY <1>3 DEF Relates, AssignedOnce
<1>4. CASE Resets \/ Recovers \/ Takes \/ Commits
  BY <1>4 DEF Resets, Recovers, Takes, Commits, AssignedOnce, Loaded
<1>5. CASE Leaves
  <2>1. session.next = NextIn(disk.row)
    BY <1>5 DEF Leaves, QueueNumbers
  <2>. QED
    BY <1>5, <2>1 DEF Leaves, AssignedOnce
<1>6. CASE Idles
  BY <1>6 DEF Idles, AssignedOnce, Loaded
<1>. QED
  BY <1>1, <1>2, <1>3, <1>4, <1>5, <1>6 DEF MemoryStep

\* The operations Sends, Settles and Relates put in the queue.
LEMMA NewOperations ==
    ASSUME NEW n \in Seqs, NEW p, NEW t
    PROVE  /\ \A m \in Seqs : (Saves(SaveOutbound(n, p), m) <=> m = n)
                              /\ ~Deletes(SaveOutbound(n, p), m)
           /\ \A m \in Seqs : ~Saves(SaveMessageLog(n, p), m) /\ ~Deletes(SaveMessageLog(n, p), m)
           /\ \A m \in Seqs : ~Saves(SaveSession(t), m) /\ ~Deletes(SaveSession(t), m)
           /\ \A m \in Seqs : ~Saves(DeleteOutbound(n), m) /\ (Deletes(DeleteOutbound(n), m) <=> m = n)
           /\ ~SavesRow(SaveOutbound(n, p)) /\ ~SavesRow(SaveMessageLog(n, p))
           /\ ~SavesRow(DeleteOutbound(n)) /\ SavesRow(SaveSession(t))
           /\ SaveOutbound(n, p).payload = p
           /\ SaveSession(t).next = t.next /\ SaveSession(t).last = t.last
  BY DEF Saves, Deletes, SavesRow, SaveOutbound, SaveMessageLog, SaveSession, DeleteOutbound

LEMMA TablesKept ==
    ASSUME DeliveryInv, NodeInv', MemoryStep
    PROVE  TablesNameAssigned'
<1>. USE MemoryTypes DEF DeliveryInv
<1>. DEFINE Queued(op) == \A m \in Seqs :
                /\ Saves(op, m) => op.payload = assigned'[m] /\ assigned'[m] # NoPayload
                /\ Deletes(op, m) => m \in overlaid' \/ assigned'[m] # NoPayload
<1>0. \A i \in 1 .. Len(queue) : Queued(queue[i])
  BY AssignedKept DEF TablesNameAssigned
<1>1. ASSUME NEW p \in Outgoing, Sends(p)
      PROVE  TablesNameAssigned'
  <2>. DEFINE n == session.next
  <2>1. \A m \in Seqs : assigned'[m] = IF m = n THEN p ELSE assigned[m]
    BY <1>1 DEF Sends
  <2>2. /\ n \in Seqs /\ p \in Payloads /\ p # NoPayload /\ Loaded /\ Loaded'
        /\ UNCHANGED <<staged, disk>>
        /\ session'.outbox = [session.outbox EXCEPT ![n] = p]
    BY <1>1, PayloadAssumption DEF Sends, Grows, Payloads
  <2>3. \A m \in Seqs : /\ staged'.outbox[m] \in {NoPayload, assigned'[m]}
                        /\ disk'.outbox[m] \in {NoPayload, assigned'[m]}
    BY <2>1, <2>2, NextUnused DEF TablesNameAssigned
  <2>4. WillFit(n, p)
    BY <2>1, <2>2 DEF WillFit, Known, Contents
  <2>5. ASSUME NEW m \in Seqs
        PROVE  WillFit(m, session'.outbox[m])
    <3>1. CASE m = n
      BY <2>2, <2>4, <3>1
    <3>2. CASE m # n
      <4>1. session'.outbox[m] = session.outbox[m] /\ FitsRow(m, session.outbox[m])
        BY <2>2, <3>2 DEF TablesNameAssigned
      <4>. QED
        BY <4>1, AssignedKept
    <3>. QED
      BY <3>1, <3>2
  <2>6. ASSUME NEW i \in 1 .. Len(queue')
        PROVE  Queued(queue'[i])
    <3>1. CASE i \in 1 .. Len(queue) /\ queue'[i] = queue[i]
      BY <1>0, <3>1
    <3>2. CASE queue'[i] \in {SaveOutbound(n, p), SaveMessageLog(n, p), SaveSession(session')}
      BY <2>1, <2>2, <3>2 DEF Saves, Deletes, SaveOutbound,
         SaveMessageLog, SaveSession, DeleteOutbound
    <3>. QED
      BY <1>1, <3>1, <3>2 DEF Sends, Grows
  <2>. QED
    BY <2>2, <2>3, <2>5, <2>6 DEF TablesNameAssigned, FitsRow, Names, WillFit
<1>2. ASSUME NEW n \in Seqs, Settles(n)
      PROVE  TablesNameAssigned'
  <2>1. /\ Loaded /\ UNCHANGED <<staged, disk, assigned, overlaid>>
        /\ session'.outbox = [session.outbox EXCEPT ![n] = NoPayload]
        /\ session.outbox[n] # NoPayload
    BY <1>2 DEF Settles, Grows
  <2>2. n \in overlaid' \/ assigned'[n] # NoPayload
    BY <2>1 DEF TablesNameAssigned, FitsRow, Names
  <2>3. \A m \in Seqs : session'.outbox[m] \in {NoPayload, session.outbox[m]}
    BY <2>1
  <2>4. \A m \in Seqs : WillFit(m, session'.outbox[m])
    BY <2>1, <2>3, AssignedKept DEF TablesNameAssigned, WillFit
  <2>5. ASSUME NEW i \in 1 .. Len(queue')
        PROVE  Queued(queue'[i])
    <3>1. CASE i \in 1 .. Len(queue) /\ queue'[i] = queue[i]
      BY <1>0, <3>1
    <3>2. CASE queue'[i] = DeleteOutbound(n)
      BY <2>2, <3>2, NewOperations
    <3>. QED
      BY <1>2, <3>1, <3>2 DEF Settles, Grows
  <2>. QED
    BY <2>1, <2>4, <2>5 DEF TablesNameAssigned, FitsRow, Names, WillFit
<1>3. ASSUME NEW l \in Seqs, NEW q \in Texts, Relates(l, q)
      PROVE  TablesNameAssigned'
  <2>1. Loaded /\ UNCHANGED <<staged, disk, assigned>> /\ session'.outbox = session.outbox
    BY <1>3 DEF Relates, Grows
  <2>2. \A m \in Seqs : WillFit(m, session'.outbox[m])
    BY <2>1, AssignedKept DEF TablesNameAssigned
  <2>3. ASSUME NEW i \in 1 .. Len(queue')
        PROVE  Queued(queue'[i])
    <3>1. CASE i \in 1 .. Len(queue) /\ queue'[i] = queue[i]
      BY <1>0, <3>1
    <3>2. CASE queue'[i] \in {SaveMessageLog(l, q), SaveSession(session')}
      BY <3>2 DEF Saves, Deletes, SaveOutbound,
         SaveMessageLog, SaveSession, DeleteOutbound
    <3>. QED
      BY <1>3, <3>1, <3>2 DEF Relates, Grows
  <2>. QED
    BY <2>1, <2>2, <2>3 DEF TablesNameAssigned, FitsRow, Names, WillFit
<1>4. CASE Takes
  <2>1. /\ \A i \in 1 .. Len(queue') : i + 1 \in 1 .. Len(queue) /\ queue'[i] = queue[i + 1]
        /\ 1 \in 1 .. Len(queue)
        /\ \A m \in Seqs : staged'.outbox[m] =
               IF Saves(queue[1], m) /\ staged.outbox[m] = NoPayload THEN queue[1].payload
               ELSE IF Deletes(queue[1], m) THEN NoPayload ELSE staged.outbox[m]
    BY <1>4, TakeEffect DEF Takes
  <2>2. Loaded /\ UNCHANGED <<session, disk, assigned>>
    BY <1>4 DEF Takes, TakeOp
  <2>3. \A m \in Seqs : staged'.outbox[m] \in {NoPayload, assigned'[m]}
    BY <2>1, <2>2 DEF TablesNameAssigned
  <2>4. \A m \in Seqs : WillFit(m, session'.outbox[m])
    BY <2>2, AssignedKept DEF TablesNameAssigned
  <2>5. \A i \in 1 .. Len(queue') : Queued(queue'[i])
    BY <1>0, <2>1
  <2>. QED
    BY <2>2, <2>3, <2>4, <2>5 DEF TablesNameAssigned, FitsRow, Names, WillFit
<1>5. CASE Resets \/ Recovers \/ Commits \/ Leaves \/ Idles
  <2>1. /\ UNCHANGED <<queue, assigned>> /\ disk' \in {disk, staged} /\ staged' = staged
        /\ \/ Loaded' => Loaded /\ session'.outbox = session.outbox
           \/ \A n \in Seqs : FitsRow(n, session'.outbox[n])
    BY <1>5 DEF Resets, Recovers, Commits, Leaves, Idles, Loaded
  <2>2. Loaded' => \A n \in Seqs : FitsRow(n, session'.outbox[n])
    BY <2>1 DEF TablesNameAssigned
  <2>3. Loaded' => \A n \in Seqs : WillFit(n, session'.outbox[n])
    BY <2>2, AssignedKept
  <2>. QED
    BY <1>0, <2>1, <2>3 DEF TablesNameAssigned, FitsRow, Names, WillFit
<1>. QED
  BY <1>1, <1>2, <1>3, <1>4, <1>5 DEF MemoryStep

\* What the node logs is a text or a message that has been handed over.
LEMMA LogsKept ==
    ASSUME DeliveryInv, NodeInv', MemoryStep
    PROVE  LogsKnown'
<1>. USE MemoryTypes DEF DeliveryInv
<1>0. /\ Known \subseteq Known'
      /\ \A i \in 1 .. Len(queue) : Logs(queue[i]) => queue[i].payload \in Known'
      /\ \A n \in Seqs : /\ staged.log[n] \in Known' \cup {NoPayload}
                         /\ disk.log[n] \in Known' \cup {NoPayload}
  BY AssignedKept DEF LogsKnown
<1>1. ASSUME NEW ops, Grows(ops), \A op \in ops : Logs(op) => op.payload \in Known'
      PROVE  LogsKnown'
  BY <1>0, <1>1 DEF LogsKnown, Grows
<1>2. ASSUME NEW p \in Outgoing, Sends(p)
      PROVE  LogsKnown'
  <2>1. p \in Known'
    BY <1>2, PayloadAssumption DEF Sends, Known, Contents
  <2>. QED
    BY <1>1, <1>2, <2>1 DEF Sends, Logs, SaveOutbound, SaveMessageLog, SaveSession
<1>3. ASSUME NEW n \in Seqs, Settles(n)
      PROVE  LogsKnown'
  BY <1>1, <1>3 DEF Settles, Logs, DeleteOutbound
<1>4. ASSUME NEW m \in Seqs, NEW q \in Texts, Relates(m, q)
      PROVE  LogsKnown'
  <2>1. q \in Known'
    BY DEF Known
  <2>. QED
    BY <1>1, <1>4, <2>1 DEF Relates, Logs, SaveMessageLog, SaveSession
<1>5. CASE Takes
  <2>1. /\ \A i \in 1 .. Len(queue') : i + 1 \in 1 .. Len(queue) /\ queue'[i] = queue[i + 1]
        /\ 1 \in 1 .. Len(queue) /\ disk' = disk /\ staged' = Apply(staged, queue[1])
    BY <1>5, TakeEffect, QueueAfterTake DEF Takes, TakeOp
  <2>2. queue[1] \in Ops /\ staged.log \in [Seqs -> Payloads \cup {NoPayload}]
    BY <2>1 DEF Tables, Buffer
  <2>3. staged'.log = staged.log \/ (/\ Logs(queue[1])
                                     /\ staged'.log = [staged.log EXCEPT ![queue[1].seq] = queue[1].payload])
    BY <2>1, <2>2 DEF Apply, Ops, Logs, Tables
  <2>4. \A n \in Seqs : \/ staged'.log[n] = staged.log[n]
                        \/ Logs(queue[1]) /\ staged'.log[n] = queue[1].payload
    BY <2>2, <2>3
  <2>. QED
    BY <1>0, <2>1, <2>4 DEF LogsKnown
<1>6. CASE Resets \/ Recovers \/ Commits \/ Leaves \/ Idles
  BY <1>0, <1>6 DEF Resets, Recovers, Commits, Leaves, Idles, LogsKnown
<1>. QED
  BY <1>2, <1>3, <1>4, <1>5, <1>6 DEF MemoryStep

LEMMA QueueSettlesKept ==
    ASSUME DeliveryInv, NodeInv', MemoryStep
    PROVE  QueueSettles'
<1>. USE MemoryTypes DEF DeliveryInv
<1>0. Plain' \subseteq Plain /\ \A m \in Plain : m \in Seqs
  BY AssignedKept DEF Plain
<1>. USE <1>0
<1>1. ASSUME NEW p \in Outgoing, Sends(p)
      PROVE  QueueSettles'
  <2>. DEFINE n == session.next
              new == {SaveOutbound(n, p), SaveMessageLog(n, p), SaveSession(session')}
  <2>1. /\ n \in Seqs /\ p # NoPayload /\ Loaded /\ Loaded' /\ Grows(new)
        /\ session'.outbox = [session.outbox EXCEPT ![n] = p]
    BY <1>1, PayloadAssumption DEF Sends
  <2>2. \A op \in new, m \in Seqs : (Saves(op, m) => m = n) /\ ~Deletes(op, m)
    BY <2>1 DEF Saves, Deletes, SaveOutbound,
       SaveMessageLog, SaveSession, DeleteOutbound
  <2>3. \E op \in new : Saves(op, n)
    BY <2>1, NewOperations
  <2>. HIDE DEF new
  <2>4. ASSUME NEW m \in Plain, m # n
        PROVE  IF session'.outbox[m] # NoPayload
               THEN /\ \A i \in 1 .. Len(queue') : ~Deletes(queue'[i], m)
                    /\ staged'.outbox[m] # NoPayload \/ \E i \in 1 .. Len(queue') : Saves(queue'[i], m)
               ELSE /\ staged'.outbox[m] # NoPayload => \E i \in 1 .. Len(queue') : Deletes(queue'[i], m)
                    /\ \A i \in 1 .. Len(queue') : Saves(queue'[i], m) =>
                          \E j \in 1 .. Len(queue') : i < j /\ Deletes(queue'[j], m)
    <3>1. session'.outbox[m] = session.outbox[m] /\ staged' = staged
      BY <2>1, <2>4 DEF Grows
    <3>2. CASE session.outbox[m] # NoPayload
      BY <2>1, <2>2, <2>4, <3>1, <3>2 DEF Grows, QueueSettles
    <3>3. CASE session.outbox[m] = NoPayload
      BY <2>1, <2>2, <2>4, <3>1, <3>3 DEF Grows, QueueSettles
    <3>. QED
      BY <3>2, <3>3
  <2>5. ASSUME n \in Plain
        PROVE  /\ session'.outbox[n] # NoPayload
               /\ \A i \in 1 .. Len(queue') : ~Deletes(queue'[i], n)
               /\ \E i \in 1 .. Len(queue') : Saves(queue'[i], n)
    <3>1. session'.outbox[n] # NoPayload
      BY <2>1
    <3>2. PICK op \in new : Saves(op, n)
      BY <2>3
    <3>3. \E i \in 1 .. Len(queue') : queue'[i] = op
      BY <2>1 DEF Grows
    <3>4. \A i \in 1 .. Len(queue) : ~Deletes(queue[i], n)
      BY <2>1, <2>5, NextUnused
    <3>5. \A i \in 1 .. Len(queue') : ~Deletes(queue'[i], n)
      BY <2>1, <2>2, <3>4 DEF Grows
    <3>. QED
      BY <3>1, <3>2, <3>3, <3>5
  <2>. QED
    BY <2>4, <2>5 DEF QueueSettles
<1>2. ASSUME NEW n \in Seqs, Settles(n)
      PROVE  QueueSettles'
  <2>1. /\ Loaded /\ Loaded' /\ Grows({DeleteOutbound(n)})
        /\ session'.outbox = [session.outbox EXCEPT ![n] = NoPayload]
    BY <1>2 DEF Settles
  <2>2. \A m \in Seqs : /\ ~Saves(DeleteOutbound(n), m)
                        /\ Deletes(DeleteOutbound(n), m) <=> m = n
    BY NewOperations
  <2>3. PICK l \in 1 .. Len(queue') : l > Len(queue) /\ queue'[l] = DeleteOutbound(n)
    BY <2>1 DEF Grows
  <2>4. ASSUME NEW m \in Plain, m # n
        PROVE  IF session'.outbox[m] # NoPayload
               THEN /\ \A i \in 1 .. Len(queue') : ~Deletes(queue'[i], m)
                    /\ staged'.outbox[m] # NoPayload \/ \E i \in 1 .. Len(queue') : Saves(queue'[i], m)
               ELSE /\ staged'.outbox[m] # NoPayload => \E i \in 1 .. Len(queue') : Deletes(queue'[i], m)
                    /\ \A i \in 1 .. Len(queue') : Saves(queue'[i], m) =>
                          \E j \in 1 .. Len(queue') : i < j /\ Deletes(queue'[j], m)
    <3>1. session'.outbox[m] = session.outbox[m] /\ staged' = staged
      BY <2>1, <2>4 DEF Grows
    <3>2. CASE session.outbox[m] # NoPayload
      BY <2>1, <2>2, <2>4, <3>1, <3>2 DEF Grows, QueueSettles
    <3>3. CASE session.outbox[m] = NoPayload
      BY <2>1, <2>2, <2>4, <3>1, <3>3 DEF Grows, QueueSettles
    <3>. QED
      BY <3>2, <3>3
  <2>5. /\ session'.outbox[n] = NoPayload
        /\ Deletes(queue'[l], n)
        /\ \A i \in 1 .. Len(queue') : Saves(queue'[i], n) => i < l
    <3>1. session'.outbox[n] = NoPayload
      BY <2>1
    <3>2. ASSUME NEW i \in 1 .. Len(queue'), Saves(queue'[i], n)
          PROVE  i < l
      <4>1. i \in 1 .. Len(queue)
        BY <2>1, <2>2, <3>2 DEF Grows
      <4>. QED
        BY <2>3, <4>1
    <3>. QED
      BY <2>2, <2>3, <3>1, <3>2
  <2>. QED
    BY <2>4, <2>5 DEF QueueSettles
<1>3. ASSUME NEW l \in Seqs, NEW q \in Texts, Relates(l, q)
      PROVE  QueueSettles'
  <2>. DEFINE new == {SaveMessageLog(l, q), SaveSession(session')}
  <2>1. Loaded /\ Loaded' /\ Grows(new) /\ session'.outbox = session.outbox
    BY <1>3 DEF Relates
  <2>2. \A op \in new, m \in Seqs : ~Saves(op, m) /\ ~Deletes(op, m)
    BY DEF Saves, Deletes, SaveOutbound,
       SaveMessageLog, SaveSession, DeleteOutbound
  <2>. HIDE DEF new
  <2>3. ASSUME NEW m \in Plain
        PROVE  IF session'.outbox[m] # NoPayload
               THEN /\ \A i \in 1 .. Len(queue') : ~Deletes(queue'[i], m)
                    /\ staged'.outbox[m] # NoPayload \/ \E i \in 1 .. Len(queue') : Saves(queue'[i], m)
               ELSE /\ staged'.outbox[m] # NoPayload => \E i \in 1 .. Len(queue') : Deletes(queue'[i], m)
                    /\ \A i \in 1 .. Len(queue') : Saves(queue'[i], m) =>
                          \E j \in 1 .. Len(queue') : i < j /\ Deletes(queue'[j], m)
    <3>1. CASE session.outbox[m] # NoPayload
      BY <2>1, <2>2, <2>3, <3>1 DEF Grows, QueueSettles
    <3>2. CASE session.outbox[m] = NoPayload
      BY <2>1, <2>2, <2>3, <3>2 DEF Grows, QueueSettles
    <3>. QED
      BY <3>1, <3>2
  <2>. QED
    BY <2>3 DEF QueueSettles
<1>4. CASE Takes
  <2>1. /\ 1 \in 1 .. Len(queue)
        /\ \A i \in 1 .. Len(queue') : i + 1 \in 1 .. Len(queue) /\ queue'[i] = queue[i + 1]
        /\ \A i \in 1 .. Len(queue) :
              i = 1 \/ (i > 1 /\ i - 1 \in 1 .. Len(queue') /\ queue'[i - 1] = queue[i])
        /\ \A m \in Seqs : staged'.outbox[m] =
               IF Saves(queue[1], m) /\ staged.outbox[m] = NoPayload THEN queue[1].payload
               ELSE IF Deletes(queue[1], m) THEN NoPayload ELSE staged.outbox[m]
        /\ Loaded /\ session' = session
    BY <1>4, TakeEffect DEF Takes
  <2>2. ASSUME NEW m \in Plain, session.outbox[m] # NoPayload
        PROVE  /\ \A i \in 1 .. Len(queue') : ~Deletes(queue'[i], m)
               /\ staged'.outbox[m] # NoPayload \/ \E i \in 1 .. Len(queue') : Saves(queue'[i], m)
    <3>1. /\ \A i \in 1 .. Len(queue) : ~Deletes(queue[i], m)
          /\ staged.outbox[m] # NoPayload \/ \E i \in 1 .. Len(queue) : Saves(queue[i], m)
          /\ Saves(queue[1], m) => queue[1].payload # NoPayload
      BY <2>1, <2>2 DEF QueueSettles, TablesNameAssigned
    <3>. QED
      BY <2>1, <3>1
  <2>3. ASSUME NEW m \in Plain, session.outbox[m] = NoPayload
        PROVE  /\ staged'.outbox[m] # NoPayload => \E i \in 1 .. Len(queue') : Deletes(queue'[i], m)
               /\ \A i \in 1 .. Len(queue') : Saves(queue'[i], m) =>
                     \E j \in 1 .. Len(queue') : i < j /\ Deletes(queue'[j], m)
    <3>1. /\ staged.outbox[m] # NoPayload => \E i \in 1 .. Len(queue) : Deletes(queue[i], m)
          /\ \A i \in 1 .. Len(queue) : Saves(queue[i], m) =>
                \E j \in 1 .. Len(queue) : i < j /\ Deletes(queue[j], m)
          /\ ~(Saves(queue[1], m) /\ Deletes(queue[1], m))
      BY <2>1, <2>3 DEF QueueSettles, Saves, Deletes
    <3>2. ASSUME NEW i \in 1 .. Len(queue'), Saves(queue'[i], m)
          PROVE  \E j \in 1 .. Len(queue') : i < j /\ Deletes(queue'[j], m)
      <4>1. i + 1 \in 1 .. Len(queue) /\ queue'[i] = queue[i + 1]
        BY <2>1
      <4>2. PICK j \in 1 .. Len(queue) : i + 1 < j /\ Deletes(queue[j], m)
        BY <3>1, <3>2, <4>1
      <4>3. j - 1 \in 1 .. Len(queue') /\ queue'[j - 1] = queue[j] /\ i < j - 1
        BY <2>1, <4>2
      <4>. QED
        BY <4>2, <4>3
    <3>3. ASSUME staged'.outbox[m] # NoPayload
          PROVE  \E i \in 1 .. Len(queue') : Deletes(queue'[i], m)
      <4>1. ~Deletes(queue[1], m)
        BY <2>1, <3>1, <3>3
      <4>2. PICK j \in 1 .. Len(queue) : Deletes(queue[j], m)
        BY <2>1, <3>1, <3>3
      <4>. QED
        BY <2>1, <4>1, <4>2
    <3>. QED
      BY <3>2, <3>3
  <2>. QED
    BY <2>1, <2>2, <2>3 DEF QueueSettles
<1>5. CASE Recovers
  BY <1>5 DEF Recovers, QueueSettles
<1>6. CASE Resets \/ Commits \/ Leaves \/ Idles
  BY <1>6 DEF Resets, Commits, Leaves, Idles, QueueSettles, Loaded
<1>. QED
  BY <1>1, <1>2, <1>3, <1>4, <1>5, <1>6 DEF MemoryStep

LEMMA QueueNumbersKept ==
    ASSUME DeliveryInv, NodeInv', MemoryStep
    PROVE  QueueNumbers'
<1>. USE MemoryTypes DEF DeliveryInv
<1>1. ASSUME NEW p \in Outgoing, Sends(p)
      PROVE  QueueNumbers'
  <2>1. PICK i \in 1 .. Len(queue') : queue'[i] = SaveSession(session')
    BY <1>1 DEF Sends, Grows
  <2>. QED
    BY <2>1 DEF QueueNumbers, SaveSession, SavesRow
<1>2. ASSUME UNCHANGED staged, session'.next = session.next, Loaded,
             \A i \in 1 .. Len(queue) : i \in 1 .. Len(queue') /\ queue'[i] = queue[i]
      PROVE  QueueNumbers'
  BY <1>2 DEF QueueNumbers
<1>3. CASE \/ \E n \in Seqs : Settles(n)
           \/ \E m \in Seqs, q \in Texts : Relates(m, q)
  BY <1>2, <1>3 DEF Settles, Relates, Grows
<1>4. CASE Resets \/ Commits \/ Leaves \/ Idles
  BY <1>4 DEF Resets, Commits, Leaves, Idles, QueueNumbers, Loaded
<1>5. CASE Recovers
  BY <1>5 DEF Recovers, QueueNumbers
<1>6. CASE Takes
  <2>1. /\ 1 \in 1 .. Len(queue) /\ queue[1] \in Ops
        /\ \A i \in 1 .. Len(queue) :
              i = 1 \/ (i - 1 \in 1 .. Len(queue') /\ queue'[i - 1] = queue[i])
        /\ staged'.row = IF SavesRow(queue[1])
                         THEN [next |-> queue[1].next, last |-> queue[1].last] ELSE staged.row
        /\ Loaded /\ session' = session
    BY <1>6, TakeEffect DEF Takes
  <2>2. CASE SavesRow(queue[1])
    <3>1. [next |-> queue[1].next, last |-> queue[1].last] \in SessionRow
      BY <2>1, <2>2 DEF Ops, SavesRow, SessionRow
    <3>2. NextIn(staged'.row) = queue[1].next /\ queue[1].next \in 1 .. MaxSeq + 1
      BY <2>1, <2>2, <3>1, StoreAssumption DEF NextIn, SessionRow, Ops, SavesRow
    <3>3. NextIn(staged.row) <= queue[1].next /\ queue[1].next <= session.next
      BY <2>1, <2>2, <3>2, MaxSeqAssumption DEF NumbersGrow, NextIn
    <3>4. session.next = NextIn(staged.row) => session.next = NextIn(staged'.row)
      BY <2>1, <3>2, <3>3, MaxSeqAssumption
    <3>5. ASSUME NEW i \in 1 .. Len(queue), SavesRow(queue[i]), queue[i].next = session.next
          PROVE  QueueNumbers'
      <4>1. CASE i = 1
        BY <2>1, <3>2, <3>5, <4>1 DEF QueueNumbers
      <4>2. CASE i # 1
        BY <2>1, <3>5, <4>2 DEF QueueNumbers
      <4>. QED
        BY <4>1, <4>2
    <3>. QED
      BY <2>1, <3>4, <3>5 DEF QueueNumbers
  <2>3. CASE ~SavesRow(queue[1])
    BY <2>1, <2>3 DEF QueueNumbers
  <2>. QED
    BY <2>2, <2>3
<1>. QED
  BY <1>1, <1>3, <1>4, <1>5, <1>6 DEF MemoryStep

\* Only a new message and an ACK change what the node holds under a plain seq.
LEMMA HeldChanges ==
    ASSUME DeliveryInv, NodeInv', MemoryStep
    PROVE  \/ (\A n \in Plain' : Held'[n] = Held[n]) /\ UNCHANGED assigned
           \/ \E p \in Outgoing : Sends(p) /\ Held' = [Held EXCEPT ![session.next] = p]
           \/ \E n \in Seqs : Settles(n) /\ Held' = [Held EXCEPT ![n] = NoPayload]
<1>. USE MemoryTypes DEF DeliveryInv
<1>0. Plain' \subseteq Plain /\ \A n \in Plain : n \in Seqs
  BY AssignedKept DEF Plain
<1>1. CASE \E p \in Outgoing : Sends(p)
  BY <1>1 DEF Sends, Held
<1>2. CASE \E n \in Seqs : Settles(n)
  BY <1>2 DEF Settles, Held
<1>3. CASE (\E m \in Seqs, q \in Texts : Relates(m, q)) \/ Resets \/ Takes
  BY <1>3 DEF Relates, Resets, Takes, Held, Loaded
<1>4. CASE Commits \/ Idles
  BY <1>4 DEF Commits, Idles, Held, Loaded
<1>5. CASE Recovers
  <2>1. \A n \in Plain : Held'[n] = Held[n]
    BY <1>5 DEF Recovers, Held
  <2>. QED
    BY <1>0, <1>5, <2>1 DEF Recovers
<1>6. CASE Leaves
  <2>1. ASSUME NEW n \in Plain
        PROVE  session.outbox[n] = staged.outbox[n]
    <3>1. queue = <<>> /\ Loaded /\ n \in Seqs /\ n \notin overlaid
      BY <1>6 DEF Leaves, Plain
    <3>2. session.outbox[n] # NoPayload <=> staged.outbox[n] # NoPayload
      BY <2>1, <3>1 DEF QueueSettles
    <3>. QED
      BY <3>1, <3>2 DEF TablesNameAssigned, FitsRow, Names
  <2>. QED
    BY <1>0, <1>6, <2>1 DEF Leaves, Held
<1>. QED
  BY <1>1, <1>2, <1>3, <1>4, <1>5, <1>6 DEF MemoryStep

LEMMA NoLossKept ==
    ASSUME DeliveryInv, NodeInv', MemoryStep
    PROVE  NoLoss'
<1>. Held \in [Seqs -> Payloads \cup {NoPayload}]
  BY MemoryTypes DEF DeliveryInv, Held
<1>. assigned \in [Seqs -> Payloads \cup {NoPayload}]
  BY MemoryTypes DEF DeliveryInv
<1>0. NoLoss /\ shown \subseteq shown' /\ Plain' \subseteq Plain /\ \A n \in Plain : n \in Seqs
  BY AssignedKept DEF DeliveryInv, Plain
<1>1. CASE (\A n \in Plain' : Held'[n] = Held[n]) /\ UNCHANGED assigned
  BY <1>0, <1>1 DEF NoLoss
<1>2. ASSUME NEW p \in Outgoing, Sends(p), Held' = [Held EXCEPT ![session.next] = p]
      PROVE  NoLoss'
  BY <1>0, <1>2 DEF NoLoss, Sends
<1>3. ASSUME NEW n \in Seqs, Settles(n), Held' = [Held EXCEPT ![n] = NoPayload]
      PROVE  NoLoss'
  BY <1>0, <1>3 DEF NoLoss, Settles, Plain
<1>. QED
  BY <1>1, <1>2, <1>3, HeldChanges

----------------------------------------------------------------------------
(***************************************************************************)
(* The parts about handlers, frames and the process.                       *)
(***************************************************************************)
LEMMA ReadsAllSame ==
    ASSUME DeliveryInv, overlaid \subseteq overlaid', disk' = disk \/ Loaded,
           \A k \in Sockets : \/ pc'[k] \notin {"loadLog", "install"}
                              \/ pc'[k] = pc[k] /\ rows'[k] = rows[k]
    PROVE  RecoveryReadsAll'
  BY DEF DeliveryInv, RecoveryReadsAll, RecoveryAlone, Reads, Plain

LEMMA ReadsAllKept ==
    ASSUME DeliveryInv, MemoryStep, [Next]_vars
    PROVE  RecoveryReadsAll'
<1>. /\ pc \in [Sockets -> Stages] /\ rows \in [Sockets -> Buffer]
     /\ overlaid \subseteq overlaid'
  BY DEF DeliveryInv, NodeInv, TypeOK, MemoryStep
<1>1. ASSUME NEW k \in Sockets, LoadOutbox(k)
      PROVE  RecoveryReadsAll'
  <2>1. /\ pc' = [pc EXCEPT ![k] = "install"] \/ pc' = [pc EXCEPT ![k] = "loadLog"]
        /\ rows' = [rows EXCEPT ![k] = disk.outbox] /\ UNCHANGED <<disk, overlaid>>
    BY <1>1 DEF LoadOutbox, storeVars, history
  <2>. QED
    BY <2>1 DEF DeliveryInv, RecoveryReadsAll, Plain
<1>2. ASSUME NEW k \in Sockets, LoadLog(k)
      PROVE  RecoveryReadsAll'
  <2>. DEFINE merged == WithHistory(rows[k], disk.log, row[k].last)
  <2>1. /\ pc[k] = "loadLog" /\ pc' = [pc EXCEPT ![k] = "install"]
        /\ rows' = [rows EXCEPT ![k] = merged] /\ disk' = disk
        /\ overlaid' = overlaid \cup {n \in Seqs : merged[n] # rows[k][n]}
    BY <1>2 DEF LoadLog, storeVars
  <2>. HIDE DEF merged
  <2>2. rows[k] = disk.outbox
    BY <2>1 DEF DeliveryInv, RecoveryReadsAll
  <2>3. \A n \in Plain' : merged[n] = disk.outbox[n]
    BY <2>1, <2>2 DEF Plain
  <2>4. \A j \in Sockets : j # k => pc'[j] = pc[j] /\ rows'[j] = rows[j]
    BY <2>1
  <2>5. Plain' \subseteq Plain
    BY <2>1 DEF Plain
  <2>6. pc'[k] = "install" /\ rows'[k] = merged
    BY <2>1
  <2>. QED
    BY <2>1, <2>3, <2>4, <2>5, <2>6 DEF DeliveryInv, RecoveryReadsAll
<1>3. ASSUME NEW k \in Sockets,
             \/ Hello(k) \/ LoadSession(k) \/ Install(k) \/ StartReplay(k) \/ ReplayOne(k)
             \/ ReplayDone(k) \/ HandshakeFails(k) \/ Page(k) \/ Lose(k) \/ Evict(k)
             \/ HandleAckFrame(k) \/ AckText(k) \/ ProcessText(k) \/ FanoutFails(k) \/ Cleanup(k)
      PROVE  RecoveryReadsAll'
  <2>1. disk' = disk
    BY <1>3 DEF Hello, LoadSession, Install, StartReplay, ReplayOne, ReplayDone, HandshakeFails,
       Page, Connect, ReceiveMessage, ReceiveAck, SendText, ResendText, Lose, Evict, Break,
       HandleAckFrame, AckText, ProcessText, FanoutFails, Cleanup, Put, storeVars
  <2>2. \A j \in Sockets : \/ pc'[j] \notin {"loadLog", "install"}
                           \/ pc'[j] = pc[j] /\ rows'[j] = rows[j]
    BY <1>3 DEF Hello, LoadSession, Install, StartReplay, ReplayOne, ReplayDone, HandshakeFails,
       Page, Connect, ReceiveMessage, ReceiveAck, SendText, ResendText, Lose, Evict, Break,
       HandleAckFrame, AckText, ProcessText, FanoutFails, Cleanup, TaskEnds, nodeVars
  <2>. QED
    BY <2>1, <2>2, ReadsAllSame
<1>4. CASE Exit \/ Crash
  <2>1. disk' = disk /\ pc' = [k \in Sockets |-> "idle"]
    BY <1>4 DEF Exit, Crash, Die, StoreLost
  <2>. QED
    BY <2>1, ReadsAllSame
<1>5. CASE \/ (\E p \in Outgoing : Broadcast(p)) \/ (\E n \in Seqs : Retry(n)) \/ Writer
           \/ Stop \/ StopStore \/ Restart \/ UNCHANGED vars
  <2>1. disk' = disk \/ Loaded
    BY <1>5 DEF Broadcast, Retry, Writer, WriterStep, TakeOp, Flush, WriterError, WorkerExit,
       Stop, StopStore, Restart, StopWorker, StartWorker, Put, storeVars, vars, DeliveryInv,
       RecoveryAlone
  <2>2. UNCHANGED <<pc, rows>>
    BY <1>5 DEF Broadcast, Retry, Writer, Stop, StopStore, Restart, vars, nodeVars
  <2>. QED
    BY <2>1, <2>2, ReadsAllSame
<1>. QED
  BY <1>1, <1>2, <1>3, <1>4, <1>5 DEF Next, Handler, Handshake

LEMMA OrderlyStopKept ==
    ASSUME DeliveryMode, DeliveryInv, [Next]_vars
    PROVE  OrderlyStop'
<1>. OrderlyStop /\ NodeInv /\ RecoveryAlone
  BY DEF DeliveryInv
<1>1. CASE Writer
  <2>1. UNCHANGED <<process, session>>
    BY <1>1 DEF Writer, nodeVars
  <2>2. TakeOp \/ Flush \/ WorkerExit
    BY <1>1 DEF Writer, WriterStep, WriterError, DeliveryMode
  <2>. QED
    BY <2>1, <2>2 DEF OrderlyStop, TakeOp, Flush, WorkerExit, WorkerAlive, Up, Loaded
<1>2. CASE Stop \/ StopStore
  BY <1>2 DEF Stop, StopStore, StopWorker, OrderlyStop, Up, Serving, Loaded, storeVars
<1>3. CASE Restart
  BY <1>3 DEF Restart, StartWorker, OrderlyStop, Up, Loaded
<1>4. CASE Exit \/ Crash
  BY <1>4 DEF Exit, Crash, Die, StoreLost, OrderlyStop, Up, Loaded
<1>5. ASSUME UNCHANGED <<process, worker>>,
             Up \/ UNCHANGED <<queue, staged, disk, session>>
      PROVE  OrderlyStop'
  BY <1>5 DEF OrderlyStop, Up, Loaded
<1>6. ASSUME NEW k \in Sockets, Page(k) \/ Lose(k) \/ Evict(k)
      PROVE  OrderlyStop'
  <2>1. UNCHANGED <<process, worker, queue, staged, disk, session>>
    BY <1>6 DEF Page, Connect, ReceiveMessage, ReceiveAck, SendText, ResendText, Lose, Evict,
       Break, storeVars, nodeVars
  <2>. QED
    BY <1>5, <2>1
<1>7. ASSUME NEW k \in Sockets, Handler(k)
      PROVE  OrderlyStop'
  <2>1. Up /\ UNCHANGED <<process, worker>>
    BY <1>7 DEF Handler, Handshake, Hello, LoadSession, LoadOutbox, LoadLog, Install, StartReplay,
       ReplayOne, ReplayDone, HandshakeFails, HandleAckFrame, AckText, ProcessText,
       FanoutFails, Cleanup, Reading, Put, storeVars
  <2>. QED
    BY <1>5, <2>1
<1>8. CASE (\E p \in Outgoing : Broadcast(p)) \/ (\E n \in Seqs : Retry(n))
  <2>1. Up /\ UNCHANGED <<process, worker>>
    BY <1>8 DEF Broadcast, Retry, Serving, Up, Put, storeVars, nodeVars
  <2>. QED
    BY <1>5, <2>1
<1>9. CASE UNCHANGED vars
  BY <1>5, <1>9 DEF vars, storeVars, nodeVars
<1>. QED
  BY <1>1, <1>2, <1>3, <1>4, <1>6, <1>7, <1>8, <1>9 DEF Next

\* Reports of what is there after the step.
WillReport(f) ==
    IF f.kind = "ack" THEN f.seq \in overlaid' \/ assigned'[f.seq] \in shown'
                      ELSE f.payload \in Texts

\* Every frame of t is one of s or names its message itself.
FitsClient(s, t) ==
    \A i \in 1 .. Len(t) : \/ \E j \in 1 .. Len(s) : t[i] = s[j]
                           \/ t[i].kind = "msg" => WillFit(t[i].seq, t[i].payload)
FitsNode(s, t) ==
    \A i \in 1 .. Len(t) : (\E j \in 1 .. Len(s) : t[i] = s[j]) \/ WillReport(t[i])

LEMMA FramesSame ==
    ASSUME DeliveryInv, MemoryStep, NodeInv',
           \A k \in Sockets : FitsClient(toClient[k], toClient'[k]),
           \A k \in Sockets : FitsNode(toNode[k], toNode'[k]),
           \A k \in Sockets, n \in Seqs : rows'[k][n] = rows[k][n] \/ WillFit(n, rows'[k][n])
    PROVE  FramesNameAssigned'
<1>. USE DEF FitsClient, FitsNode
<1>1. /\ \A n \in Seqs : assigned[n] # NoPayload => assigned'[n] = assigned[n]
      /\ shown \subseteq shown' /\ overlaid \subseteq overlaid'
      /\ \A n \in Seqs : \A p : FitsRow(n, p) => WillFit(n, p)
  BY AssignedKept
<1>2. NoPayload \notin Payloads /\ shown \subseteq Payloads
  BY PayloadAssumption DEF Payloads, DeliveryInv, NodeInv, TypeOK
<1>3. \A k \in Sockets : toClient[k] \in Seq(Frames) /\ toNode[k] \in Seq(Frames)
  BY DEF DeliveryInv, NodeInv, TypeOK
<1>4. \A k \in Sockets : \A j \in 1 .. Len(toClient[k]) :
          toClient[k][j].kind = "msg" => WillFit(toClient[k][j].seq, toClient[k][j].payload)
  <2>1. TAKE k \in Sockets
  <2>2. TAKE j \in 1 .. Len(toClient[k])
  <2>. DEFINE f == toClient[k][j]
  <2>3. f \in Frames
    BY <1>3
  <2>4. f.seq \in Seqs /\ (f.kind = "msg" => FitsRow(f.seq, f.payload))
    BY <2>3, FrameType DEF DeliveryInv, FramesNameAssigned, FitsRow
  <2>. HIDE DEF f
  <2>5. f.kind = "msg" => WillFit(f.seq, f.payload)
    BY <1>1, <2>4
  <2>. QED
    BY <2>5 DEF f
<1>5. \A k \in Sockets : \A j \in 1 .. Len(toNode[k]) : WillReport(toNode[k][j])
  <2>1. TAKE k \in Sockets
  <2>2. TAKE j \in 1 .. Len(toNode[k])
  <2>. DEFINE f == toNode[k][j]
  <2>3. f \in Frames
    BY <1>3
  <2>4. f.seq \in Seqs /\ Reports(f)
    BY <2>3, FrameType DEF DeliveryInv, FramesNameAssigned
  <2>. HIDE DEF f
  <2>5. WillReport(f)
    BY <1>1, <1>2, <2>4 DEF Reports, WillReport
  <2>. QED
    BY <2>5 DEF f
<1>6. \A k \in Sockets, n \in Seqs : WillFit(n, rows'[k][n])
  BY <1>1 DEF DeliveryInv, FramesNameAssigned
<1>7. \A k \in Sockets : \A i \in 1 .. Len(toClient'[k]) :
          toClient'[k][i].kind = "msg" => WillFit(toClient'[k][i].seq, toClient'[k][i].payload)
  BY <1>4
<1>8. \A k \in Sockets : \A i \in 1 .. Len(toNode'[k]) : WillReport(toNode'[k][i])
  BY <1>5
<1>9. \A k \in Sockets : \A i \in 1 .. Len(toClient'[k]) :
          toClient'[k][i].kind = "msg" => toClient'[k][i].payload # NoPayload
  <2>1. TAKE k \in Sockets
  <2>2. TAKE i \in 1 .. Len(toClient'[k])
  <2>3. toClient'[k][i] \in Frames
    BY DEF NodeInv, TypeOK
  <2>. QED
    BY <1>2, <2>3, FrameType
<1>10. \A k \in Sockets : \A i \in 1 .. Len(toClient'[k]) : toClient'[k][i].kind = "msg" =>
           /\ toClient'[k][i].payload \in Known'
           /\ toClient'[k][i].seq \in overlaid' \/ toClient'[k][i].payload = assigned'[toClient'[k][i].seq]
  BY <1>7, <1>9 DEF WillFit
<1>. QED
  BY <1>6, <1>8, <1>10 DEF FramesNameAssigned, Names, FitsRow, Reports, WillFit, WillReport

\* The ways in which a channel changes.
LEMMA Fits ==
    ASSUME NEW s \in Seq(Frames)
    PROVE  /\ FitsClient(s, s) /\ FitsClient(s, <<>>)
           /\ FitsNode(s, s) /\ FitsNode(s, <<>>)
           /\ s # <<>> => FitsClient(s, Tail(s)) /\ FitsNode(s, Tail(s))
           /\ \A n \in 0 .. Len(s) : FitsNode(s, SubSeq(s, 1, n))
           /\ \A f \in Frames : (f.kind = "msg" => WillFit(f.seq, f.payload))
                               => FitsClient(s, Append(s, f))
           /\ \A f \in Frames : WillReport(f) => FitsNode(s, Append(s, f))
<1>1. FitsClient(s, s) /\ FitsClient(s, <<>>) /\ FitsNode(s, s) /\ FitsNode(s, <<>>)
  BY DEF FitsClient, FitsNode
<1>2. s # <<>> => FitsClient(s, Tail(s)) /\ FitsNode(s, Tail(s))
  BY FrameIndexes DEF FitsClient, FitsNode
<1>3. \A n \in 0 .. Len(s) : FitsNode(s, SubSeq(s, 1, n))
  BY FrameIndexes DEF FitsNode
<1>4. ASSUME NEW f \in Frames, f.kind = "msg" => WillFit(f.seq, f.payload)
      PROVE  FitsClient(s, Append(s, f))
  BY <1>4, FrameIndexes DEF FitsClient
<1>5. ASSUME NEW f \in Frames, WillReport(f)
      PROVE  FitsNode(s, Append(s, f))
  BY <1>5, FrameIndexes DEF FitsNode
<1>. QED
  BY <1>1, <1>2, <1>3, <1>4, <1>5

LEMMA WrittenFits ==
    ASSUME NodeInv, NEW k \in Sockets \cup {NoSocket}, NEW f \in Frames,
           f.kind = "msg" => WillFit(f.seq, f.payload), toClient' = Written(k, f)
    PROVE  \A j \in Sockets : FitsClient(toClient[j], toClient'[j])
<1>1. toClient \in [Sockets -> Seq(Frames)] /\ \A j \in Sockets : toClient[j] \in Seq(Frames)
  BY DEF NodeInv, TypeOK
<1>2. \A j \in Sockets : toClient'[j] = toClient[j] \/ toClient'[j] = Append(toClient[j], f)
  BY <1>1 DEF Written
<1>3. \A j \in Sockets : FitsClient(toClient[j], toClient[j])
                         /\ FitsClient(toClient[j], Append(toClient[j], f))
  BY <1>1, Fits
<1>. QED
  BY <1>2, <1>3

LEMMA FramesKept ==
    ASSUME DeliveryInv, NodeInv', MemoryStep, [Next]_vars
    PROVE  FramesNameAssigned'
<1>0. /\ NodeInv /\ toClient \in [Sockets -> Seq(Frames)] /\ toNode \in [Sockets -> Seq(Frames)]
      /\ rows \in [Sockets -> Buffer] /\ (Loaded => session \in Session)
      /\ registered \in Sockets \cup {NoSocket}
      /\ \A k \in Sockets : toClient[k] \in Seq(Frames) /\ toNode[k] \in Seq(Frames)
      /\ \A k \in Sockets : rows[k] \in [Seqs -> Payloads \cup {NoPayload}]
      /\ \A n \in Seqs : EmptyBuffer[n] = NoPayload
  BY DEF DeliveryInv, NodeInv, TypeOK, Loaded, Buffer, EmptyBuffer
<1>. USE <1>0
<1>. DEFINE ClientFits == \A k \in Sockets : FitsClient(toClient[k], toClient'[k])
            NodeFits   == \A k \in Sockets : FitsNode(toNode[k], toNode'[k])
            RowsFit    == \A k \in Sockets, n \in Seqs :
                              rows'[k][n] = rows[k][n] \/ WillFit(n, rows'[k][n])
<1>1. UNCHANGED toClient => ClientFits
  BY Fits
<1>2. UNCHANGED toNode => NodeFits
  BY Fits
<1>3. UNCHANGED rows => RowsFit
  OBVIOUS
<1>4. ASSUME NEW k \in Sockets, toClient' = [toClient EXCEPT ![k] = <<>>]
      PROVE  ClientFits
  BY <1>4, Fits
<1>5. ASSUME NEW k \in Sockets, toNode' = [toNode EXCEPT ![k] = <<>>]
      PROVE  NodeFits
  BY <1>5, Fits
<1>6. ASSUME NEW k \in Sockets, toClient[k] # <<>>, toClient' = [toClient EXCEPT ![k] = Tail(@)]
      PROVE  ClientFits
  BY <1>6, Fits
<1>7. ASSUME NEW k \in Sockets, toNode[k] # <<>>, toNode' = [toNode EXCEPT ![k] = Tail(@)]
      PROVE  NodeFits
  BY <1>7, Fits
<1>8. ASSUME NEW k \in Sockets, NEW f \in Frames, toNode' = [toNode EXCEPT ![k] = Append(@, f)],
             WillReport(f)
      PROVE  NodeFits
  BY <1>8, Fits
<1>9. ASSUME NEW k \in Sockets, NEW b \in [Seqs -> Payloads \cup {NoPayload}],
             rows' = [rows EXCEPT ![k] = b],
             \A n \in Seqs : b[n] = rows[k][n] \/ WillFit(n, b[n])
      PROVE  RowsFit
  BY <1>9
<1>10. ClientFits /\ NodeFits /\ RowsFit => FramesNameAssigned'
  BY FramesSame
<1>. HIDE DEF ClientFits, NodeFits, RowsFit
<1>. /\ \A n \in Seqs : \A p : FitsRow(n, p) => WillFit(n, p)
     /\ \A n \in Seqs : WillFit(n, NoPayload)
  BY AssignedKept DEF WillFit
<1>11. ASSUME NEW k \in Sockets, Connect(k)
       PROVE  FramesNameAssigned'
  <2>1. ClientFits
    BY <1>11, Fits DEF Connect, ClientFits
  <2>. QED
    BY <1>2, <1>3, <1>10, <1>11, <2>1 DEF Connect
<1>12. ASSUME NEW k \in Sockets, ReceiveMessage(k)
       PROVE  FramesNameAssigned'
  <2>. DEFINE f == Head(toClient[k])
  <2>1. /\ toClient[k] # <<>> /\ f.kind = "msg" /\ UNCHANGED <<rows, assigned, overlaid>>
        /\ shown' = shown \cup {f.payload}
        /\ toNode' = [toNode EXCEPT ![k] = Append(@, Ack(f.seq))]
        /\ toClient' = [toClient EXCEPT ![k] = Tail(@)]
    BY <1>12 DEF ReceiveMessage, nodeVars
  <2>2. f \in Frames /\ Names(f.seq, f.payload)
    <3>1. 1 \in 1 .. Len(toClient[k]) /\ f = toClient[k][1] /\ f \in Frames
      BY <2>1
    <3>. QED
      BY <2>1, <3>1 DEF DeliveryInv, FramesNameAssigned
  <2>3. f.seq \in Seqs /\ Ack(f.seq) \in Frames
    BY <2>2, FrameType
  <2>. HIDE DEF f
  <2>4. WillReport(Ack(f.seq))
    BY <2>1, <2>2 DEF Ack, WillReport, Names
  <2>5. NodeFits
    BY <1>8, <2>1, <2>3, <2>4
  <2>. QED
    BY <1>3, <1>6, <1>10, <2>1, <2>5
<1>13. ASSUME NEW k \in Sockets, ReceiveAck(k)
       PROVE  FramesNameAssigned'
  BY <1>2, <1>3, <1>6, <1>10, <1>13 DEF ReceiveAck, nodeVars
<1>14. ASSUME NEW k \in Sockets, NEW c \in Texts, SendText(k, c) \/ ResendText(k, c)
       PROVE  FramesNameAssigned'
  <2>1. UNCHANGED <<toClient, rows>>
    BY <1>14 DEF SendText, ResendText, nodeVars
  <2>2. PICK n \in Seqs : toNode' = [toNode EXCEPT ![k] = Append(@, Msg(n, c))]
    <3>1. CASE SendText(k, c)
      <4>1. pageNext \in Seqs
        BY <3>1, MaxSeqAssumption DEF SendText, Seqs, NodeInv, TypeOK
      <4>. QED
        BY <3>1, <4>1 DEF SendText
    <3>2. CASE ResendText(k, c)
      <4>1. textSeq[c] \in Seqs
        BY <3>2, MaxSeqAssumption DEF ResendText, Seqs, NodeInv, TypeOK
      <4>. QED
        BY <3>2, <4>1 DEF ResendText
    <3>. QED
      BY <1>14, <3>1, <3>2
  <2>3. Msg(n, c) \in Frames /\ WillReport(Msg(n, c))
    BY <1>14, FrameType DEF Msg, Payloads, WillReport
  <2>4. NodeFits
    BY <1>8, <2>2, <2>3
  <2>. QED
    BY <1>1, <1>3, <1>10, <2>1, <2>4
<1>15. ASSUME NEW k \in Sockets, Lose(k) \/ Evict(k)
       PROVE  FramesNameAssigned'
  <2>1. toClient' = [toClient EXCEPT ![k] = <<>>] /\ UNCHANGED rows
    BY <1>15 DEF Lose, Evict, Break
  <2>2. PICK n \in 0 .. Len(toNode[k]) : toNode' = [toNode EXCEPT ![k] = SubSeq(@, 1, n)]
    <3>1. PICK n \in Arrived(k) .. Len(toNode[k]) :
              toNode' = [toNode EXCEPT ![k] = SubSeq(@, 1, n)]
      BY <1>15 DEF Lose, Evict, Break
    <3>2. n \in 0 .. Len(toNode[k])
      BY <3>1 DEF Arrived
    <3>. QED
      BY <3>1, <3>2
  <2>3. NodeFits
    BY <2>2, Fits DEF NodeFits
  <2>. QED
    BY <1>3, <1>4, <1>10, <2>1, <2>3
<1>16. ASSUME NEW k \in Sockets, Hello(k) \/ LoadSession(k) \/ ReplayDone(k)
       PROVE  FramesNameAssigned'
  BY <1>1, <1>2, <1>3, <1>10, <1>16 DEF Hello, LoadSession, ReplayDone, netVars
<1>17. ASSUME NEW k \in Sockets, \/ LoadOutbox(k) \/ LoadLog(k) \/ Install(k) \/ StartReplay(k)
       PROVE  FramesNameAssigned'
  <2>1. UNCHANGED <<toClient, toNode, assigned>>
    BY <1>17 DEF LoadOutbox, LoadLog, Install, StartReplay, netVars, history
  <2>2. PICK b \in [Seqs -> Payloads \cup {NoPayload}] :
            rows' = [rows EXCEPT ![k] = b] /\ \A n \in Seqs : b[n] = rows[k][n] \/ WillFit(n, b[n])
    <3>1. CASE LoadOutbox(k)
      <4>1. \A n \in Seqs : FitsRow(n, disk.outbox[n])
        BY DEF DeliveryInv, TablesNameAssigned, FitsRow, Names, Known, Contents
      <4>2. disk.outbox \in [Seqs -> Payloads \cup {NoPayload}]
        BY MemoryTypes
      <4>. QED
        BY <3>1, <4>1, <4>2 DEF LoadOutbox
    <3>2. CASE Install(k)
      <4>1. EmptyBuffer \in [Seqs -> Payloads \cup {NoPayload}]
        BY NewSessionType DEF Buffer
      <4>. QED
        BY <3>2, <4>1 DEF Install
    <3>3. CASE StartReplay(k)
      <4>1. Loaded /\ session \in Session
        BY <3>3 DEF StartReplay, NodeInv, AttachedHandlersHaveSession
      <4>2. /\ \A n \in Seqs : FitsRow(n, session.outbox[n])
            /\ session.outbox \in [Seqs -> Payloads \cup {NoPayload}]
        BY <4>1, MemoryTypes DEF DeliveryInv, TablesNameAssigned
      <4>3. rows' = [rows EXCEPT ![k] = session.outbox]
        BY <3>3, <4>1, ReplayFromType DEF StartReplay
      <4>. QED
        BY <4>2, <4>3
    <3>4. CASE LoadLog(k)
      <4>. DEFINE b == WithHistory(rows[k], disk.log, row[k].last)
      <4>1. /\ rows' = [rows EXCEPT ![k] = b]
            /\ overlaid' = overlaid \cup {n \in Seqs : b[n] # rows[k][n]}
        BY <3>4 DEF LoadLog
      <4>2. \A n \in Seqs : b[n] \in {rows[k][n], disk.log[n]}
        BY DEF WithHistory
      <4>3. /\ disk.log \in [Seqs -> Payloads \cup {NoPayload}]
            /\ \A n \in Seqs : disk.log[n] \in Known' \cup {NoPayload}
        BY MemoryTypes, AssignedKept DEF Tables, Buffer, DeliveryInv, LogsKnown
      <4>4. b \in [Seqs -> Payloads \cup {NoPayload}]
        BY <4>3 DEF WithHistory
      <4>. HIDE DEF b
      <4>5. \A n \in Seqs : b[n] = rows[k][n] \/ WillFit(n, b[n])
        BY <4>1, <4>2, <4>3 DEF WillFit
      <4>. QED
        BY <4>1, <4>4, <4>5
    <3>. QED
      BY <1>17, <3>1, <3>2, <3>3, <3>4
  <2>3. RowsFit
    BY <1>9, <2>2
  <2>. QED
    BY <1>1, <1>2, <1>10, <2>1, <2>3
<1>18. ASSUME NEW k \in Sockets, HandshakeFails(k) \/ Cleanup(k) \/ FanoutFails(k)
       PROVE  FramesNameAssigned'
  <2>1. /\ UNCHANGED rows \/ rows' = [rows EXCEPT ![k] = EmptyBuffer]
        /\ UNCHANGED toClient \/ toClient' = [toClient EXCEPT ![k] = <<>>]
        /\ toNode' = [toNode EXCEPT ![k] = <<>>]
    BY <1>18 DEF HandshakeFails, Cleanup, FanoutFails, TaskEnds
  <2>2. EmptyBuffer \in [Seqs -> Payloads \cup {NoPayload}]
    BY NewSessionType DEF Buffer
  <2>3. RowsFit
    BY <1>3, <1>9, <2>1, <2>2
  <2>. QED
    BY <1>1, <1>4, <1>5, <1>10, <2>1, <2>3
<1>19. ASSUME NEW k \in Sockets, ReplayOne(k)
       PROVE  FramesNameAssigned'
  <2>1. PICK n \in Seqs : /\ rows[k][n] # NoPayload
                          /\ toClient' = Written(k, Msg(n, rows[k][n]))
                          /\ rows' = [rows EXCEPT ![k] = [@ EXCEPT ![n] = NoPayload]]
    BY <1>19 DEF ReplayOne
  <2>2. rows[k][n] \in Payloads /\ WillFit(n, rows[k][n]) /\ UNCHANGED toNode
    BY <1>19, <2>1 DEF DeliveryInv, FramesNameAssigned, ReplayOne
  <2>3. ClientFits
    <3>1. Msg(n, rows[k][n]) \in Frames
      BY <2>2, FrameType
    <3>2. WillFit(Msg(n, rows[k][n]).seq, Msg(n, rows[k][n]).payload)
      BY <2>2 DEF Msg
    <3>. QED
      BY <2>1, <3>1, <3>2, WrittenFits DEF ClientFits
  <2>4. RowsFit
    BY <2>1 DEF RowsFit
  <2>. QED
    BY <1>2, <1>10, <2>2, <2>3, <2>4
<1>20. ASSUME NEW k \in Sockets, HandleAckFrame(k) \/ ProcessText(k)
       PROVE  FramesNameAssigned'
  <2>1. toNode[k] # <<>>
    BY <1>20 DEF HandleAckFrame, Reading, ProcessText, NodeInv, ProcessingHandlersHaveText
  <2>. QED
    BY <1>1, <1>3, <1>7, <1>10, <1>20, <2>1 DEF HandleAckFrame, ProcessText
<1>21. ASSUME NEW k \in Sockets, AckText(k)
       PROVE  FramesNameAssigned'
  <2>. DEFINE f == Ack(Head(toNode[k]).seq)
  <2>1. toClient' = Written(k, f) /\ UNCHANGED <<toNode, rows>>
    BY <1>21 DEF AckText
  <2>2. f \in Frames /\ f.kind = "ack"
    BY <1>21, HeadTailProperties, FrameType DEF AckText, Reading, Ack
  <2>. HIDE DEF f
  <2>3. ClientFits
    BY <2>1, <2>2, WrittenFits DEF ClientFits
  <2>. QED
    BY <1>2, <1>3, <1>10, <2>1, <2>3
<1>22. ASSUME NEW p \in Outgoing, Broadcast(p)
       PROVE  FramesNameAssigned'
  <2>. DEFINE f == Msg(session.next, p)
  <2>1. /\ toClient' = Written(registered, f) /\ UNCHANGED <<toNode, rows>>
        /\ assigned' = [assigned EXCEPT ![session.next] = p]
    BY <1>22 DEF Broadcast
  <2>2. /\ session.next \in Seqs /\ p \in Payloads /\ p # NoPayload
        /\ assigned \in [Seqs -> Payloads \cup {NoPayload}]
    BY <1>22, BroadcastQueues, MemoryTypes, PayloadAssumption DEF Payloads
  <2>3. f \in Frames /\ WillFit(f.seq, f.payload)
    BY <2>1, <2>2, FrameType DEF Msg, WillFit, Known, Contents
  <2>. HIDE DEF f
  <2>4. ClientFits
    BY <2>1, <2>3, WrittenFits DEF ClientFits
  <2>. QED
    BY <1>2, <1>3, <1>10, <2>1, <2>4
<1>23. ASSUME NEW n \in Seqs, Retry(n)
       PROVE  FramesNameAssigned'
  <2>. DEFINE f == Msg(n, session.outbox[n])
  <2>1. /\ toClient' = Written(registered, f) /\ UNCHANGED <<toNode, rows, assigned>>
        /\ Loaded /\ session.outbox[n] # NoPayload
    BY <1>23 DEF Retry, nodeVars, history
  <2>2. session.outbox[n] \in Payloads /\ WillFit(n, session.outbox[n])
    BY <2>1, MemoryTypes DEF DeliveryInv, TablesNameAssigned
  <2>3. f \in Frames /\ WillFit(f.seq, f.payload)
    BY <2>1, <2>2, FrameType DEF Msg
  <2>. HIDE DEF f
  <2>4. ClientFits
    BY <2>1, <2>3, WrittenFits DEF ClientFits
  <2>. QED
    BY <1>2, <1>3, <1>10, <2>1, <2>4
<1>24. CASE Exit \/ Crash
  <2>1. /\ toClient' = [k \in Sockets |-> <<>>] /\ toNode' = [k \in Sockets |-> <<>>]
        /\ rows' = [k \in Sockets |-> EmptyBuffer]
    BY <1>24 DEF Exit, Crash, Die
  <2>. QED
    BY <1>10, <2>1, Fits DEF ClientFits, NodeFits, RowsFit
<1>25. CASE Writer \/ Stop \/ StopStore \/ Restart \/ UNCHANGED vars
  BY <1>1, <1>2, <1>3, <1>10, <1>25 DEF Writer, Stop, StopStore, Restart, vars, nodeVars, netVars
<1>. QED
  BY <1>11, <1>12, <1>13, <1>14, <1>15, <1>16, <1>17, <1>18, <1>19, <1>20, <1>21, <1>22, <1>23,
     <1>24, <1>25 DEF Next, Page, Handler, Handshake

----------------------------------------------------------------------------
(***************************************************************************)
(* The theorems of this mode.                                              *)
(***************************************************************************)
LEMMA InitDelivery == Init => DeliveryInv
<1>. SUFFICES ASSUME Init
              PROVE  DeliveryInv
  OBVIOUS
<1>1. NodeInv
  BY InitNodeInv
<1>2. OneConnection /\ RecoveryAlone /\ NumbersGrow
  BY DEF Init, OneConnection, OpenConnectionRegistered, Recovering, StoreInit, RecoveryAlone,
     Reads, Loaded, NumbersGrow, NotBefore, EmptyTables
<1>3. RecoveryReadsAll /\ OrderlyStop /\ QueueSettles /\ QueueNumbers
  BY DEF Init, StoreInit, RecoveryReadsAll, OrderlyStop, Up, QueueSettles, QueueNumbers, Loaded,
     EmptyTables
<1>4. assigned = EmptyBuffer /\ disk = EmptyTables /\ staged = EmptyTables /\ queue = <<>>
      /\ ~Loaded /\ rows = [k \in Sockets |-> EmptyBuffer]
  BY DEF Init, StoreInit, Loaded
<1>5. \A n \in Seqs : EmptyBuffer[n] = NoPayload
  BY DEF EmptyBuffer
<1>6. AssignedOnce /\ TablesNameAssigned /\ LogsKnown /\ NoLoss
  BY <1>4, <1>5 DEF AssignedOnce, TablesNameAssigned, LogsKnown, NoLoss, Plain, EmptyTables
<1>7. FramesNameAssigned
  BY <1>4, <1>5 DEF FramesNameAssigned, FitsRow, Init
<1>. QED
  BY <1>1, <1>2, <1>3, <1>6, <1>7 DEF DeliveryInv

LEMMA NextDelivery ==
    ASSUME DeliveryMode, DeliveryInv, [Next]_vars
    PROVE  DeliveryInv'
<1>1. NodeInv' /\ MemoryStep
  BY NextNodeInv, MemorySteps DEF DeliveryInv
<1>2. OneConnection' /\ RecoveryAlone' /\ NumbersGrow'
  BY NextOneConnection, NextRecoveryAlone, NextNumbers DEF DeliveryInv, DeliveryMode
<1>3. /\ AssignedOnce' /\ TablesNameAssigned' /\ LogsKnown' /\ QueueSettles'
      /\ QueueNumbers' /\ NoLoss'
  BY <1>1, AssignedOnceKept, TablesKept, LogsKept, QueueSettlesKept, QueueNumbersKept, NoLossKept
<1>4. FramesNameAssigned' /\ RecoveryReadsAll' /\ OrderlyStop'
  BY <1>1, FramesKept, ReadsAllKept, OrderlyStopKept
<1>. QED
  BY <1>1, <1>2, <1>3, <1>4 DEF DeliveryInv

\* A message handed to the session is held under its seq until the page has
\* displayed it, whatever the connections do, whatever the user types and however
\* often the node is stopped in an orderly way, except under the seqs a recovery
\* has filled from the message log: the damage of the merge stays where it was done
\* (send_message, handle_ack, _recover_or_create).
THEOREM NothingIsLost ==
    ASSUME DeliveryMode
    PROVE  Spec => []NoLoss
<1>1. DeliveryInv => NoLoss
  BY DEF DeliveryInv
<1>. QED
  BY <1>1, InitDelivery, NextDelivery, PTL DEF Spec

\* One seq names one message: in the outbox tables always, and in the session, the
\* replay lists and the frames on their way unless a recovery has filled the seq
\* from the message log (prepare_outbound, handle_ack, _recover_or_create).
THEOREM SeqsNameMessages ==
    ASSUME DeliveryMode
    PROVE  Spec => []SeqNamesOneMessage
<1>1. DeliveryInv => SeqNamesOneMessage
  BY DEF DeliveryInv, FramesNameAssigned, TablesNameAssigned, SeqNamesOneMessage, Stale, FitsRow,
     Names, Plain
<1>. QED
  BY <1>1, InitDelivery, NextDelivery, PTL DEF Spec

\* Once the writer has caught up, the tables are the session's next seq and its
\* outbox (session_manager.py: every change is queued, in the order it is made),
\* less the seqs a recovery has filled from the message log without queueing it.
THEOREM WriterCatchesUp ==
    ASSUME DeliveryMode
    PROVE  Spec => []DiskFollowsMemory
<1>1. DeliveryInv => DiskFollowsMemory
  <2>. SUFFICES ASSUME DeliveryInv, Loaded, queue = <<>>
                PROVE  /\ \A n \in Plain : staged.outbox[n] = session.outbox[n]
                       /\ session.next = NextIn(staged.row)
    BY DEF DiskFollowsMemory, NextIn
  <2>1. ASSUME NEW n \in Plain
        PROVE  staged.outbox[n] = session.outbox[n]
    <3>1. session.outbox[n] # NoPayload <=> staged.outbox[n] # NoPayload
      BY DEF DeliveryInv, QueueSettles
    <3>. QED
      BY <3>1 DEF DeliveryInv, TablesNameAssigned, FitsRow, Names, Plain
  <2>. QED
    BY <2>1 DEF DeliveryInv, QueueNumbers
<1>. QED
  BY <1>1, InitDelivery, NextDelivery, PTL DEF Spec

----------------------------------------------------------------------------
(***************************************************************************)
(* The refinement of Mailbox: a new message is accepted, an ACK settles    *)
(* what has been displayed, a displayed message is delivered, a recovery   *)
(* that fills seqs from the message log waives what they were given to,    *)
(* and the other steps are invisible.                                      *)
(***************************************************************************)
LEMMA ContentsAdd ==
    ASSUME NEW n \in Seqs, NEW p \in Payloads, NEW b, b[n] = NoPayload,
           NEW c, \A m \in Seqs : c[m] = IF m = n THEN p ELSE b[m],
           NEW S \in SUBSET Seqs
    PROVE  Contents(c, S) = IF n \in S THEN Contents(b, S) \cup {p} ELSE Contents(b, S)
  BY PayloadAssumption DEF Contents, Payloads

LEMMA ContentsRemove ==
    ASSUME NEW b \in [Seqs -> Payloads \cup {NoPayload}], NEW S \in SUBSET Seqs, NEW n \in S,
           \A m \in S : b[m] = b[n] => m = n
    PROVE  Contents([b EXCEPT ![n] = NoPayload], S) = Contents(b, S) \ {b[n]}
  BY DEF Contents

\* The page displays texts and messages that have been handed to the session.
LEMMA ShownChanges ==
    ASSUME DeliveryInv, [Next]_vars
    PROVE  \/ shown' = shown
           \/ /\ UNCHANGED <<session, disk, assigned, overlaid>>
              /\ \E p \in Known : shown' = shown \cup {p}
<1>1. ASSUME NEW k \in Sockets, ReceiveMessage(k)
      PROVE  /\ UNCHANGED <<session, disk, assigned, overlaid>>
             /\ \E p \in Known : shown' = shown \cup {p}
  <2>. DEFINE f == Head(toClient[k])
  <2>1. /\ UNCHANGED <<session, disk, assigned, overlaid>> /\ shown' = shown \cup {f.payload}
        /\ toClient[k] # <<>> /\ f.kind = "msg"
    BY <1>1 DEF ReceiveMessage, storeVars, nodeVars
  <2>2. toClient[k] \in Seq(Frames)
    BY DEF DeliveryInv, NodeInv, TypeOK
  <2>3. f \in Frames /\ 1 \in 1 .. Len(toClient[k]) /\ f = toClient[k][1]
    BY <2>1, <2>2
  <2>4. f.payload \in Known
    BY <2>1, <2>3 DEF DeliveryInv, FramesNameAssigned, Names
  <2>. QED
    BY <2>1, <2>4
<1>2. ASSUME NEW k \in Sockets, Handler(k)
      PROVE  shown' = shown
  BY <1>2 DEF Handler, Handshake, Hello, LoadSession, LoadOutbox, LoadLog, Install, StartReplay,
     ReplayOne, ReplayDone, HandshakeFails, HandleAckFrame, AckText, ProcessText, FanoutFails,
     Cleanup, history
<1>3. ASSUME NEW k \in Sockets, Page(k) \/ Lose(k) \/ Evict(k), ~ReceiveMessage(k)
      PROVE  shown' = shown
  BY <1>3 DEF Page, Connect, ReceiveAck, SendText, ResendText, Lose, Evict, Break, history
<1>4. CASE \/ (\E p \in Outgoing : Broadcast(p)) \/ (\E n \in Seqs : Retry(n)) \/ Writer
           \/ Stop \/ StopStore \/ Exit \/ Crash \/ Restart \/ UNCHANGED vars
  BY <1>4 DEF Broadcast, Retry, Writer, Stop, StopStore, Exit, Crash, Die, Restart, history, vars
<1>. QED
  BY <1>1, <1>2, <1>3, <1>4 DEF Next

LEMMA InitMailbox == Init => Abstract!MailboxInit
  BY DEF Init, StoreInit, EmptyTables, EmptyBuffer, Contents, Plain, Held, Loaded,
     Abstract!MailboxInit

LEMMA StepMailbox ==
    ASSUME DeliveryMode, DeliveryInv, [Next]_vars
    PROVE  [Abstract!MailboxNext]_(Abstract!mailboxVars)
<1>. NodeInv' /\ MemoryStep
  BY NextNodeInv, MemorySteps DEF DeliveryInv
<1>. /\ Held \in [Seqs -> Payloads \cup {NoPayload}]
     /\ assigned \in [Seqs -> Payloads \cup {NoPayload}]
  BY MemoryTypes DEF DeliveryInv, Held
<1>. /\ overlaid \subseteq overlaid' /\ overlaid' \subseteq Seqs /\ overlaid \subseteq Seqs
     /\ Plain = Seqs \ overlaid /\ Plain' = Seqs \ overlaid'
  BY DEF MemoryStep, NodeInv, TypeOK, Plain
<1>0. /\ \A n \in Plain : Held[n] \in {NoPayload, assigned[n]}
      /\ \A n \in Seqs : assigned[n] # NoPayload => assigned[n] \in Outgoing
      /\ \A m, n \in Seqs : assigned[m] # NoPayload /\ assigned[m] = assigned[n] => m = n
  BY DEF DeliveryInv, TablesNameAssigned, FitsRow, Names, AssignedOnce, Held
<1>a. /\ Contents(assigned, Seqs)' = Contents(assigned', Seqs)
      /\ Contents(assigned, overlaid)' = Contents(assigned', overlaid')
      /\ Contents(Held, Plain)' = Contents(Held', Plain')
  BY DEF Contents, Seqs
<1>1. CASE shown' # shown
  <2>1. /\ Held' = Held /\ UNCHANGED <<assigned, overlaid>>
        /\ \E p \in Known : shown' = shown \cup {p}
    BY <1>1, ShownChanges DEF Held, Loaded
  <2>2. PICK p \in Known : shown' = shown \cup {p}
    BY <2>1
  <2>3. /\ Contents(Held, Plain)' = Contents(Held, Plain)
        /\ Contents(assigned, Seqs)' = Contents(assigned, Seqs)
        /\ Contents(assigned, overlaid)' = Contents(assigned, overlaid)
    BY <1>a, <2>1
  <2>4. CASE p \in Outgoing
    <3>1. p \in Contents(assigned, Seqs)
      BY <2>4, PayloadAssumption DEF Known
    <3>2. (shown \cap Outgoing)' = (shown \cap Outgoing) \cup {p}
      BY <2>2, <2>4
    <3>3. Abstract!Deliver(p)
      BY <2>3, <3>1, <3>2 DEF Abstract!Deliver
    <3>. QED
      BY <2>4, <3>3 DEF Abstract!MailboxNext
  <2>5. CASE p \notin Outgoing
    <3>1. (shown \cap Outgoing)' = shown \cap Outgoing
      BY <2>2, <2>5
    <3>. QED
      BY <2>3, <3>1 DEF Abstract!mailboxVars
  <2>. QED
    BY <2>4, <2>5
<1>2. ASSUME shown' = shown, \A n \in Plain' : Held'[n] = Held[n], UNCHANGED assigned
      PROVE  Abstract!MailboxNext
  <2>. DEFINE messages == Contents(assigned, overlaid')
  <2>1. messages \in SUBSET Contents(assigned, Seqs)
    BY DEF Contents
  <2>2. Contents(assigned', overlaid') = Contents(assigned, overlaid) \cup messages
    BY <1>2 DEF Contents
  <2>3. Contents(Held', Plain') = Contents(Held, Plain) \ messages
    <3>1. ASSUME NEW n \in Plain', Held[n] # NoPayload
          PROVE  Held[n] \in Contents(Held, Plain) \ messages
      <4>1. n \in Plain /\ n \in Seqs /\ Held[n] = assigned[n]
        BY <1>0, <3>1
      <4>2. \A m \in overlaid' : assigned[m] # Held[n]
        BY <1>0, <3>1, <4>1
      <4>. QED
        BY <3>1, <4>1, <4>2 DEF Contents
    <3>2. ASSUME NEW n \in Plain, Held[n] # NoPayload, Held[n] \notin messages
          PROVE  Held[n] \in Contents(Held', Plain')
      <4>1. n \in Seqs /\ Held[n] = assigned[n]
        BY <1>0, <3>2
      <4>2. n \in Plain'
        BY <3>2, <4>1 DEF Contents
      <4>. QED
        BY <1>2, <3>2, <4>2 DEF Contents
    <3>3. \A q : q \in Contents(Held', Plain') => q \in Contents(Held, Plain) \ messages
      <4>. SUFFICES ASSUME NEW q, q \in Contents(Held', Plain')
                    PROVE  q \in Contents(Held, Plain) \ messages
        OBVIOUS
      <4>1. PICK n \in Plain' : q = Held'[n] /\ q # NoPayload
        BY DEF Contents
      <4>. QED
        BY <1>2, <3>1, <4>1
    <3>4. \A q : q \in Contents(Held, Plain) /\ q \notin messages => q \in Contents(Held', Plain')
      <4>. SUFFICES ASSUME NEW q, q \in Contents(Held, Plain), q \notin messages
                    PROVE  q \in Contents(Held', Plain')
        OBVIOUS
      <4>1. PICK n \in Plain : q = Held[n] /\ q # NoPayload
        BY DEF Contents
      <4>. QED
        BY <3>2, <4>1
    <3>. QED
      BY <3>3, <3>4
  <2>. HIDE DEF messages
  <2>4. Abstract!Waive(messages)
    BY <1>2, <1>a, <2>2, <2>3 DEF Abstract!Waive
  <2>. QED
    BY <2>1, <2>4 DEF Abstract!MailboxNext
<1>3. ASSUME shown' = shown, NEW p \in Outgoing, Sends(p),
             Held' = [Held EXCEPT ![session.next] = p]
      PROVE  Abstract!MailboxNext
  <2>. DEFINE n == session.next
  <2>1. /\ Loaded /\ n \in Seqs /\ assigned' = [assigned EXCEPT ![n] = p]
        /\ (\A m \in Seqs : assigned[m] # p) /\ overlaid' = overlaid
    BY <1>3 DEF Sends
  <2>2. assigned[n] = NoPayload /\ (n \in Plain => Held[n] = NoPayload)
    BY <2>1, NextUnused DEF Held
  <2>3. p \in Payloads
    BY DEF Payloads
  <2>4. \A m \in Seqs : /\ assigned'[m] = IF m = n THEN p ELSE assigned[m]
                        /\ Held'[m] = IF m = n THEN p ELSE Held[m]
    BY <1>3, <2>1
  <2>. HIDE DEF n
  <2>a. ASSUME NEW S \in SUBSET Seqs
        PROVE  Contents(assigned', S) =
                   IF n \in S THEN Contents(assigned, S) \cup {p} ELSE Contents(assigned, S)
    <3>1. n \in Seqs /\ assigned[n] = NoPayload
      BY <2>1, <2>2
    <3>2. \A m \in Seqs : assigned'[m] = IF m = n THEN p ELSE assigned[m]
      BY <2>4
    <3>. QED
      BY <2>3, <3>1, <3>2, ContentsAdd
  <2>b. /\ Contents(assigned', Seqs) = Contents(assigned, Seqs) \cup {p}
        /\ Contents(assigned', overlaid') = IF n \in overlaid THEN Contents(assigned, overlaid) \cup {p}
                                                             ELSE Contents(assigned, overlaid)
    BY <2>1, <2>a
  <2>5. Contents(Held', Plain') = IF n \in Plain THEN Contents(Held, Plain) \cup {p}
                                                  ELSE Contents(Held, Plain)
    <3>1. CASE n \in Plain
      <4>1. Plain \in SUBSET Seqs /\ Plain' = Plain
        BY <2>1
      <4>2. Contents(Held', Plain) = Contents(Held, Plain) \cup {p}
        BY <2>1, <2>2, <2>3, <2>4, <3>1, <4>1, ContentsAdd
      <4>. QED
        BY <3>1, <4>1, <4>2
    <3>2. CASE n \notin Plain
      BY <2>1, <2>4, <3>2 DEF Contents
    <3>. QED
      BY <3>1, <3>2
  <2>6. p \notin Contents(assigned, Seqs)
    BY <2>1 DEF Contents
  <2>7. n \in overlaid <=> n \notin Plain
    BY <2>1
  <2>8. Abstract!Accept(p)
    BY <1>3, <1>a, <2>b, <2>5, <2>6, <2>7 DEF Abstract!Accept
  <2>. QED
    BY <2>8 DEF Abstract!MailboxNext
<1>4. ASSUME shown' = shown, NEW n \in Seqs, Settles(n), Held' = [Held EXCEPT ![n] = NoPayload]
      PROVE  Abstract!MailboxNext
  <2>. DEFINE p == assigned[n]
  <2>1. /\ Loaded /\ session.outbox[n] # NoPayload /\ UNCHANGED <<assigned, overlaid>>
        /\ n \in overlaid \/ p \in shown
    BY <1>4 DEF Settles
  <2>2. CASE n \in overlaid
    <3>1. \A m \in Plain' : Held'[m] = Held[m]
      BY <1>4, <2>2
    <3>. QED
      BY <1>2, <1>4, <2>1, <3>1
  <2>3. CASE n \notin overlaid
    <3>1. Held[n] = p /\ p # NoPayload /\ n \in Plain /\ p \in Outgoing
      BY <1>0, <2>1, <2>3 DEF Held
    <3>2. \A m \in Plain : Held[m] = Held[n] => m = n
      BY <1>0, <3>1
    <3>3. Contents(Held', Plain') = Contents(Held, Plain) \ {p}
      <4>1. Plain \in SUBSET Seqs
        OBVIOUS
      <4>2. Contents([Held EXCEPT ![n] = NoPayload], Plain) = Contents(Held, Plain) \ {Held[n]}
        BY <3>1, <3>2, <4>1, ContentsRemove
      <4>3. Held' = [Held EXCEPT ![n] = NoPayload] /\ Plain' = Plain
        BY <1>4, <2>1
      <4>. QED
        BY <3>1, <4>2, <4>3
    <3>4. p \in Contents(Held, Plain)
      BY <3>1 DEF Contents
    <3>5. Abstract!Settle(p)
      BY <1>4, <1>a, <2>1, <2>3, <3>1, <3>3, <3>4 DEF Abstract!Settle
    <3>. QED
      BY <3>1, <3>5 DEF Abstract!MailboxNext
  <2>. QED
    BY <2>2, <2>3
<1>. QED
  BY <1>1, <1>2, <1>3, <1>4, HeldChanges

\* The session implements a mailbox: connections, retransmissions and ACKs are
\* invisible to who handed the messages over, and so is an orderly restart except
\* for the messages whose seqs the recovery fills from the message log, and no other.
THEOREM SessionIsMailbox ==
    ASSUME DeliveryMode
    PROVE  Spec => ImplementsMailbox
  BY InitDelivery, NextDelivery, InitMailbox, StepMailbox, PTL
     DEF Spec, ImplementsMailbox, Abstract!MailboxSpec
=============================================================================
