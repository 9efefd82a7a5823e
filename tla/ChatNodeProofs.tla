--------------------------- MODULE ChatNodeProofs ---------------------------
(***************************************************************************)
(* Theorems about the node: type correctness, that the inbound tracking is *)
(* exact, so that no text is relayed twice between two resets, and that    *)
(* an acknowledged text has been handled, to the end or to the write that  *)
(* failed; lemmas about the outbox store first.                            *)
(***************************************************************************)
EXTENDS ChatNode, SessionStateProofs, SequenceTheorems

----------------------------------------------------------------------------
(***************************************************************************)
(* The outbox store: it keeps its types, through every operation of the    *)
(* write API and every step of the writer thread.                          *)
(***************************************************************************)
LEMMA EmptyTablesType == EmptyTables \in Tables
  BY NewSessionType DEF EmptyTables, Tables

LEMMA StoreInitType == StoreInit => StoreTypeOK
  BY EmptyTablesType DEF StoreInit, StoreTypeOK

\* What the session manager queues are operations.
LEMMA OpsType ==
    /\ \A s \in Session : SaveSession(s) \in Ops
    /\ \A n \in Seqs : DeleteOutbound(n) \in Ops
    /\ \A n \in Seqs, p \in Payloads :
          SaveOutbound(n, p) \in Ops /\ SaveMessageLog(n, p) \in Ops
  BY DEF Ops, Session, SaveSession, DeleteOutbound, SaveOutbound, SaveMessageLog

LEMMA BufferUpdate ==
    ASSUME NEW b \in Buffer, NEW n \in Seqs, NEW p \in Payloads
    PROVE  /\ [b EXCEPT ![n] = p] \in Buffer
           /\ [b EXCEPT ![n] = NoPayload] \in Buffer
           /\ InsertOutbound(b, n, p) \in Buffer
  BY DEF Buffer, InsertOutbound

\* One iteration of _apply_batch.
LEMMA ApplyType ==
    ASSUME NEW t \in Tables, NEW op \in Ops
    PROVE  Apply(t, op) \in Tables
<1>1. CASE op.kind = "save_session"
  <2>1. op.next \in 1 .. MaxSeq + 1 /\ op.last \in 0 .. MaxSeq
    BY <1>1 DEF Ops
  <2>2. Apply(t, op) = [t EXCEPT !.row = [next |-> op.next, last |-> op.last]]
    BY <1>1 DEF Apply
  <2>. QED
    BY <2>1, <2>2 DEF Tables, SessionRow
<1>2. CASE op.kind = "save_outbound"
  <2>1. op.seq \in Seqs /\ op.payload \in Payloads
    BY <1>2 DEF Ops
  <2>2. InsertOutbound(t.outbox, op.seq, op.payload) \in Buffer
    BY <2>1, BufferUpdate DEF Tables
  <2>3. Apply(t, op) = [t EXCEPT !.outbox = InsertOutbound(@, op.seq, op.payload)]
    BY <1>2 DEF Apply
  <2>. QED
    BY <2>2, <2>3 DEF Tables
<1>3. CASE op.kind = "delete_outbound"
  <2>1. op.seq \in Seqs
    BY <1>3 DEF Ops
  <2>2. [t.outbox EXCEPT ![op.seq] = NoPayload] \in Buffer
    BY <2>1 DEF Tables, Buffer
  <2>3. Apply(t, op) = [t EXCEPT !.outbox = [@ EXCEPT ![op.seq] = NoPayload]]
    BY <1>3 DEF Apply
  <2>. QED
    BY <2>2, <2>3 DEF Tables
<1>4. CASE op.kind = "save_message_log"
  <2>1. op.seq \in Seqs /\ op.payload \in Payloads
    BY <1>4 DEF Ops
  <2>2. [t.log EXCEPT ![op.seq] = op.payload] \in Buffer
    BY <2>1, BufferUpdate DEF Tables
  <2>3. Apply(t, op) = [t EXCEPT !.log = [@ EXCEPT ![op.seq] = op.payload]]
    BY <1>4 DEF Apply
  <2>. QED
    BY <2>2, <2>3 DEF Tables
<1>. QED
  BY <1>1, <1>2, <1>3, <1>4 DEF Ops

----------------------------------------------------------------------------
\* Every step that touches the store keeps its type.
LEMMA PutType ==
    ASSUME StoreTypeOK, NEW ops \in Seq(Ops), Put(ops)
    PROVE  StoreTypeOK'
  BY ConcatProperties DEF StoreTypeOK, Put

LEMMA StoreSameType ==
    ASSUME StoreTypeOK, UNCHANGED storeVars
    PROVE  StoreTypeOK'
  BY DEF StoreTypeOK, storeVars

LEMMA WriterStepType ==
    ASSUME StoreTypeOK, WriterStep
    PROVE  StoreTypeOK'
<1>1. CASE TakeOp
  <2>1. Head(queue) \in Ops /\ Tail(queue) \in Seq(Ops)
    BY <1>1, HeadTailProperties DEF TakeOp, StoreTypeOK
  <2>2. Apply(staged, Head(queue)) \in Tables
    BY <2>1, ApplyType DEF StoreTypeOK
  <2>. QED
    BY <1>1, <2>1, <2>2 DEF TakeOp, StoreTypeOK
<1>2. CASE Flush
  BY <1>2 DEF Flush, StoreTypeOK
<1>3. CASE WriterError
  BY <1>3 DEF WriterError, StoreTypeOK
<1>4. CASE WorkerExit
  BY <1>4 DEF WorkerExit, StoreTypeOK
<1>. QED
  BY <1>1, <1>2, <1>3, <1>4 DEF WriterStep

LEMMA StoreLifecycleType ==
    ASSUME StoreTypeOK, StopWorker \/ StoreLost \/ StartWorker
    PROVE  StoreTypeOK'
<1>1. CASE StopWorker
  BY <1>1 DEF StopWorker, StoreTypeOK
<1>2. CASE StoreLost
  BY <1>2 DEF StoreLost, StoreTypeOK
<1>3. CASE StartWorker
  BY <1>3 DEF StartWorker, StoreTypeOK
<1>. QED
  BY <1>1, <1>2, <1>3

----------------------------------------------------------------------------
\* What an operation does to the row of a seq, or of the session.
Saves(op, n)   == op.kind = "save_outbound" /\ op.seq = n
Deletes(op, n) == op.kind = "delete_outbound" /\ op.seq = n
SavesRow(op)   == op.kind = "save_session"

----------------------------------------------------------------------------
(***************************************************************************)
(* What the two operations of the queue do, seq by seq.                    *)
(***************************************************************************)
LEMMA QueueAfterPut ==
    ASSUME queue \in Seq(Ops), NEW ops \in Seq(Ops), queue' = queue \o ops
    PROVE  /\ Len(queue') = Len(queue) + Len(ops)
           /\ \A i \in 1 .. Len(queue) : i \in 1 .. Len(queue') /\ queue'[i] = queue[i]
           /\ \A i \in 1 .. Len(ops) : /\ Len(queue) + i \in 1 .. Len(queue')
                                        /\ queue'[Len(queue) + i] = ops[i]
           /\ \A i \in 1 .. Len(queue') :
                 i \in 1 .. Len(queue) \/ i - Len(queue) \in 1 .. Len(ops)
  OBVIOUS

\* An operation of the longer queue is an old one or a new one behind them.
LEMMA PutEffect ==
    ASSUME queue \in Seq(Ops), NEW ops \in Seq(Ops), Put(ops)
    PROVE  /\ \A i \in 1 .. Len(queue) : i \in 1 .. Len(queue') /\ queue'[i] = queue[i]
           /\ \A j \in 1 .. Len(ops) : \E i \in 1 .. Len(queue') :
                 i = Len(queue) + j /\ queue'[i] = ops[j]
           /\ \A i \in 1 .. Len(queue') :
                 \/ i \in 1 .. Len(queue) /\ queue'[i] = queue[i]
                 \/ \E j \in 1 .. Len(ops) : i = Len(queue) + j /\ queue'[i] = ops[j]
<1>1. /\ \A i \in 1 .. Len(queue) : i \in 1 .. Len(queue') /\ queue'[i] = queue[i]
      /\ \A j \in 1 .. Len(ops) : Len(queue) + j \in 1 .. Len(queue')
                                  /\ queue'[Len(queue) + j] = ops[j]
      /\ \A i \in 1 .. Len(queue') :
            i \in 1 .. Len(queue) \/ i - Len(queue) \in 1 .. Len(ops)
  BY QueueAfterPut DEF Put
<1>2. \A i \in 1 .. Len(queue') : Len(queue) + (i - Len(queue)) = i
  OBVIOUS
<1>. QED
  BY <1>1, <1>2

LEMMA QueueAfterTake ==
    ASSUME queue \in Seq(Ops), queue # <<>>, queue' = Tail(queue)
    PROVE  /\ Head(queue) = queue[1] /\ 1 \in 1 .. Len(queue) /\ queue[1] \in Ops
           /\ \A i \in 1 .. Len(queue') : i + 1 \in 1 .. Len(queue) /\ queue'[i] = queue[i + 1]
           /\ \A i \in 1 .. Len(queue) : i > 1 => i - 1 \in 1 .. Len(queue') /\ queue'[i - 1] = queue[i]
           /\ \A i \in 1 .. Len(queue) : i > 1 \/ i = 1
  OBVIOUS

LEMMA ApplyEffect ==
    ASSUME NEW t \in Tables, NEW op \in Ops
    PROVE  /\ \A n \in Seqs : Apply(t, op).outbox[n] =
                  IF Saves(op, n) /\ t.outbox[n] = NoPayload THEN op.payload
                  ELSE IF Deletes(op, n) THEN NoPayload ELSE t.outbox[n]
           /\ Apply(t, op).row = IF SavesRow(op) THEN [next |-> op.next, last |-> op.last]
                                                 ELSE t.row
<1>. t.outbox \in Buffer
  BY DEF Tables
<1>. USE DEF Tables, Buffer, Saves, Deletes, SavesRow
<1>1. CASE op.kind = "save_session"
  BY <1>1 DEF Apply
<1>2. CASE op.kind = "save_outbound"
  <2>1. Apply(t, op) = [t EXCEPT !.outbox = InsertOutbound(t.outbox, op.seq, op.payload)]
    BY <1>2 DEF Apply
  <2>2. Apply(t, op).row = t.row /\ Apply(t, op).outbox = InsertOutbound(t.outbox, op.seq, op.payload)
    BY <2>1
  <2>3. op.seq \in Seqs
    BY <1>2 DEF Ops
  <2>. QED
    BY <1>2, <2>2, <2>3 DEF InsertOutbound
<1>3. CASE op.kind = "delete_outbound"
  <2>1. Apply(t, op) = [t EXCEPT !.outbox = [t.outbox EXCEPT ![op.seq] = NoPayload]]
    BY <1>3 DEF Apply
  <2>2. Apply(t, op).row = t.row /\ Apply(t, op).outbox = [t.outbox EXCEPT ![op.seq] = NoPayload]
    BY <2>1
  <2>3. op.seq \in Seqs
    BY <1>3 DEF Ops
  <2>. QED
    BY <1>3, <2>2, <2>3
<1>4. CASE op.kind = "save_message_log"
  <2>1. Apply(t, op) = [t EXCEPT !.log = [t.log EXCEPT ![op.seq] = op.payload]]
    BY <1>4 DEF Apply
  <2>. QED
    BY <1>4, <2>1
<1>. QED
  BY <1>1, <1>2, <1>3, <1>4 DEF Ops

\* One operation leaves the queue and takes effect on the tables.
LEMMA TakeEffect ==
    ASSUME StoreTypeOK, TakeOp
    PROVE  /\ queue[1] \in Ops /\ 1 \in 1 .. Len(queue)
           /\ \A i \in 1 .. Len(queue') : i + 1 \in 1 .. Len(queue) /\ queue'[i] = queue[i + 1]
           /\ \A i \in 1 .. Len(queue) :
                 i = 1 \/ (i > 1 /\ i - 1 \in 1 .. Len(queue') /\ queue'[i - 1] = queue[i])
           /\ \A n \in Seqs : staged'.outbox[n] =
                  IF Saves(queue[1], n) /\ staged.outbox[n] = NoPayload THEN queue[1].payload
                  ELSE IF Deletes(queue[1], n) THEN NoPayload ELSE staged.outbox[n]
           /\ staged'.row = IF SavesRow(queue[1])
                            THEN [next |-> queue[1].next, last |-> queue[1].last] ELSE staged.row
<1>1. queue \in Seq(Ops) /\ queue # <<>> /\ queue' = Tail(queue) /\ staged \in Tables
  BY DEF TakeOp, StoreTypeOK
<1>2. queue[1] \in Ops /\ Head(queue) = queue[1]
  BY <1>1, QueueAfterTake
<1>3. staged' = Apply(staged, queue[1])
  BY <1>2 DEF TakeOp
<1>4. /\ \A n \in Seqs : Apply(staged, queue[1]).outbox[n] =
             IF Saves(queue[1], n) /\ staged.outbox[n] = NoPayload THEN queue[1].payload
             ELSE IF Deletes(queue[1], n) THEN NoPayload ELSE staged.outbox[n]
      /\ Apply(staged, queue[1]).row = IF SavesRow(queue[1])
             THEN [next |-> queue[1].next, last |-> queue[1].last] ELSE staged.row
  BY <1>1, <1>2, ApplyEffect
<1>. QED
  BY <1>1, <1>3, <1>4, QueueAfterTake

----------------------------------------------------------------------------
(***************************************************************************)
(* The node.                                                               *)
(***************************************************************************)

\* A handler that has got its session keeps it: nothing unloads a session while
\* the process lives.
AttachedHandlersHaveSession ==
    \A k \in Sockets :
        pc[k] \in {"attached", "replay", "reading", "processing"} => Loaded

\* A handler that has acknowledged a text still has it at the head of its input.
ProcessingHandlersHaveText ==
    \A k \in Sockets :
        pc[k] = "processing" => toNode[k] # <<>> /\ Head(toNode[k]).kind = "msg"

\* The inductive invariant behind the type invariant: without the two facts
\* about handlers a step could apply an operation to a session or to a frame
\* that is not there.
NodeInv ==
    /\ TypeOK
    /\ AttachedHandlersHaveSession
    /\ ProcessingHandlersHaveText

----------------------------------------------------------------------------
(***************************************************************************)
(* Lemmas about frames, sequences of frames and recovered sessions.        *)
(***************************************************************************)
LEMMA FrameType ==
    /\ \A n \in Seqs, p \in Payloads : Msg(n, p) \in Frames
    /\ \A n \in Seqs : Ack(n) \in Frames
    /\ \A f \in Frames : f.seq \in Seqs
    /\ \A f \in Frames : f.kind = "msg" => f.payload \in Payloads
  BY DEF Frames, Msg, Ack

\* Appending leaves the head of a channel where it is.
LEMMA AppendFrame ==
    ASSUME NEW s \in Seq(Frames), NEW f \in Frames
    PROVE  /\ Append(s, f) \in Seq(Frames)
           /\ s # <<>> => Append(s, f) # <<>> /\ Head(Append(s, f)) = Head(s)
  OBVIOUS

\* What is left of a channel when the connection breaks is a prefix of it, and
\* one that is not empty has the same head.
LEMMA PrefixFrames ==
    ASSUME NEW s \in Seq(Frames), NEW n \in 0 .. Len(s)
    PROVE  /\ SubSeq(s, 1, n) \in Seq(Frames)
           /\ n > 0 => SubSeq(s, 1, n) # <<>> /\ Head(SubSeq(s, 1, n)) = Head(s)
  OBVIOUS

\* Where the frames of a channel come from.
LEMMA FrameIndexes ==
    ASSUME NEW s \in Seq(Frames)
    PROVE  /\ \A f \in Frames : \A i \in 1 .. Len(Append(s, f)) :
                 Append(s, f)[i] = f \/ \E j \in 1 .. Len(s) : Append(s, f)[i] = s[j]
           /\ s # <<>> => /\ \A i \in 1 .. Len(Tail(s)) : \E j \in 1 .. Len(s) : Tail(s)[i] = s[j]
                          /\ \E j \in 1 .. Len(s) : Head(s) = s[j]
           /\ \A n \in 0 .. Len(s) : \A i \in 1 .. Len(SubSeq(s, 1, n)) :
                 \E j \in 1 .. Len(s) : SubSeq(s, 1, n)[i] = s[j]
<1>1. \A f \in Frames : \A i \in 1 .. Len(Append(s, f)) :
          Append(s, f)[i] = f \/ (i \in 1 .. Len(s) /\ Append(s, f)[i] = s[i])
  OBVIOUS
<1>2. s # <<>> => /\ \A i \in 1 .. Len(Tail(s)) : i + 1 \in 1 .. Len(s) /\ Tail(s)[i] = s[i + 1]
                  /\ 1 \in 1 .. Len(s) /\ Head(s) = s[1]
  OBVIOUS
<1>3. \A n \in 0 .. Len(s) : \A i \in 1 .. Len(SubSeq(s, 1, n)) :
          i \in 1 .. Len(s) /\ SubSeq(s, 1, n)[i] = s[i]
  OBVIOUS
<1>4. \A f \in Frames : \A i \in 1 .. Len(Append(s, f)) :
          Append(s, f)[i] = f \/ \E j \in 1 .. Len(s) : Append(s, f)[i] = s[j]
  BY <1>1
<1>5. s # <<>> => /\ \A i \in 1 .. Len(Tail(s)) : \E j \in 1 .. Len(s) : Tail(s)[i] = s[j]
                  /\ \E j \in 1 .. Len(s) : Head(s) = s[j]
  BY <1>2
<1>6. \A n \in 0 .. Len(s) : \A i \in 1 .. Len(SubSeq(s, 1, n)) :
          \E j \in 1 .. Len(s) : SubSeq(s, 1, n)[i] = s[j]
  BY <1>3
<1>. QED
  BY <1>4, <1>5, <1>6

LEMMA WrittenType ==
    ASSUME toClient \in [Sockets -> Seq(Frames)],
           NEW k \in Sockets \cup {NoSocket}, NEW f \in Frames
    PROVE  Written(k, f) \in [Sockets -> Seq(Frames)]
  BY AppendFrame DEF Written

LEMMA WithHistoryType ==
    ASSUME NEW b \in Buffer, NEW log \in Buffer, NEW after
    PROVE  WithHistory(b, log, after) \in Buffer
  BY DEF WithHistory, Buffer

LEMMA RecoveredType ==
    ASSUME NEW r \in SessionRow \cup {NoRow}, NEW b \in Buffer
    PROVE  /\ Recovered(r, b) \in Session
           /\ Recovered(r, b).seen = {}
<1>1. CASE r = NoRow
  BY <1>1, NewSessionType DEF Recovered, FreshSession, NewSession
<1>2. CASE r # NoRow
  <2>1. r.next \in 1 .. MaxSeq + 1 /\ r.last \in 0 .. MaxSeq
    BY <1>2 DEF SessionRow
  <2>2. Recovered(r, b) = NewSession(r.next, r.last, b)
    BY <1>2 DEF Recovered
  <2>. QED
    BY <2>1, <2>2, NewSessionType DEF NewSession
<1>. QED
  BY <1>1, <1>2

----------------------------------------------------------------------------
(***************************************************************************)
(* Every step keeps NodeInv: one lemma for each action.                    *)
(***************************************************************************)
LEMMA InitNodeInv == Init => NodeInv
<1>. SUFFICES ASSUME Init
              PROVE  NodeInv
  OBVIOUS
<1>1. StoreTypeOK
  BY StoreInitType DEF Init
<1>2. EmptyBuffer \in Buffer /\ 1 \in 1 .. MaxSeq + 1 /\ 0 \in 0 .. MaxSeq
  BY NewSessionType, MaxSeqAssumption
<1>3. <<>> \in Seq(Frames)
  OBVIOUS
<1>4. TypeOK
  BY <1>1, <1>2, <1>3 DEF Init, TypeOK, Stages
<1>5. AttachedHandlersHaveSession /\ ProcessingHandlersHaveText
  BY DEF Init, AttachedHandlersHaveSession, ProcessingHandlersHaveText
<1>. QED
  BY <1>4, <1>5 DEF NodeInv

\* The page and the network.
LEMMA ConnectKeeps ==
    ASSUME NodeInv, NEW k \in Sockets, Connect(k)
    PROVE  NodeInv'
<1>. USE DEF NodeInv
<1>1. StoreTypeOK'
  BY StoreSameType DEF Connect, TypeOK
<1>2. 1 \in 1 .. MaxSeq + 1 /\ 0 \in 0 .. MaxSeq /\ <<>> \in Seq(Frames)
  BY MaxSeqAssumption
<1>3. TypeOK'
  BY <1>1, <1>2 DEF Connect, TypeOK, Stages, pageVars, history
<1>4. AttachedHandlersHaveSession' /\ ProcessingHandlersHaveText'
  BY DEF Connect, AttachedHandlersHaveSession, ProcessingHandlersHaveText, TypeOK, Loaded
<1>. QED
  BY <1>3, <1>4

LEMMA BreakKeeps ==
    ASSUME NodeInv, NEW k \in Sockets, Break(k), evicted' \subseteq evicted
    PROVE  NodeInv'
<1>. USE DEF NodeInv
<1>1. StoreTypeOK'
  BY StoreSameType DEF Break, TypeOK
<1>2. PICK n \in Arrived(k) .. Len(toNode[k]) :
          toNode' = [toNode EXCEPT ![k] = SubSeq(@, 1, n)]
  BY DEF Break
<1>3. toNode[k] \in Seq(Frames)
  BY DEF TypeOK
<1>4. n \in 0 .. Len(toNode[k]) /\ (pc[k] = "processing" => n > 0)
  BY <1>3 DEF Arrived
<1>5. /\ SubSeq(toNode[k], 1, n) \in Seq(Frames)
      /\ n > 0 => /\ SubSeq(toNode[k], 1, n) # <<>>
                  /\ Head(SubSeq(toNode[k], 1, n)) = Head(toNode[k])
  BY <1>3, <1>4, PrefixFrames
<1>6. <<>> \in Seq(Frames)
  OBVIOUS
<1>7. TypeOK'
  BY <1>1, <1>2, <1>5, <1>6 DEF Break, TypeOK, pageVars, history
<1>8. AttachedHandlersHaveSession'
  BY DEF Break, AttachedHandlersHaveSession, Loaded
<1>9. ProcessingHandlersHaveText'
  BY <1>2, <1>4, <1>5 DEF Break, ProcessingHandlersHaveText, TypeOK
<1>. QED
  BY <1>7, <1>8, <1>9

LEMMA ReceiveMessageKeeps ==
    ASSUME NodeInv, NEW k \in Sockets, ReceiveMessage(k)
    PROVE  NodeInv'
<1>. USE DEF NodeInv
<1>. DEFINE f == Head(toClient[k])
<1>1. StoreTypeOK'
  BY StoreSameType DEF ReceiveMessage, TypeOK
<1>2. f \in Frames /\ f.kind = "msg" /\ Tail(toClient[k]) \in Seq(Frames)
  BY HeadTailProperties DEF ReceiveMessage, TypeOK
<1>3. f.payload \in Payloads /\ Ack(f.seq) \in Frames
  BY <1>2, FrameType
<1>4. toNode[k] \in Seq(Frames)
  BY DEF TypeOK
<1>5. /\ Append(toNode[k], Ack(f.seq)) \in Seq(Frames)
      /\ toNode[k] # <<>> =>
            /\ Append(toNode[k], Ack(f.seq)) # <<>>
            /\ Head(Append(toNode[k], Ack(f.seq))) = Head(toNode[k])
  <2>. HIDE DEF f
  <2>. QED
    BY <1>3, <1>4, AppendFrame
<1>6. /\ shown' = shown \cup {f.payload}
      /\ toNode' = [toNode EXCEPT ![k] = Append(@, Ack(f.seq))]
      /\ toClient' = [toClient EXCEPT ![k] = Tail(@)]
      /\ UNCHANGED <<nodeVars, link, pageVars, typed, assigned, ackedSeqs,
                     confirmed, handled, since, overlaid>>
  BY DEF ReceiveMessage
<1>. HIDE DEF f
<1>7. TypeOK'
  BY <1>1, <1>2, <1>3, <1>5, <1>6 DEF TypeOK, nodeVars, pageVars
<1>8. AttachedHandlersHaveSession' /\ ProcessingHandlersHaveText'
  BY <1>5, <1>6 DEF AttachedHandlersHaveSession, ProcessingHandlersHaveText,
                    TypeOK, Loaded, nodeVars
<1>. QED
  BY <1>7, <1>8

LEMMA ReceiveAckKeeps ==
    ASSUME NodeInv, NEW k \in Sockets, ReceiveAck(k)
    PROVE  NodeInv'
<1>. USE DEF NodeInv
<1>1. StoreTypeOK'
  BY StoreSameType DEF ReceiveAck, TypeOK
<1>2. Tail(toClient[k]) \in Seq(Frames)
  BY HeadTailProperties DEF ReceiveAck, TypeOK
<1>3. TypeOK'
  BY <1>1, <1>2 DEF ReceiveAck, TypeOK, nodeVars, pageVars
<1>4. AttachedHandlersHaveSession' /\ ProcessingHandlersHaveText'
  BY DEF ReceiveAck, AttachedHandlersHaveSession, ProcessingHandlersHaveText,
         Loaded, nodeVars
<1>. QED
  BY <1>3, <1>4

LEMMA SendTextKeeps ==
    ASSUME NodeInv, NEW k \in Sockets, NEW c \in Texts, SendText(k, c)
    PROVE  NodeInv'
<1>. USE DEF NodeInv
<1>1. StoreTypeOK'
  BY StoreSameType DEF SendText, TypeOK
<1>2. pageNext \in Seqs /\ pageNext + 1 \in 1 .. MaxSeq + 1 /\ pageNext \in 0 .. MaxSeq
  BY MaxSeqAssumption DEF SendText, TypeOK, Seqs
<1>3. Msg(pageNext, c) \in Frames
  BY <1>2, FrameType DEF Payloads
<1>4. /\ Append(toNode[k], Msg(pageNext, c)) \in Seq(Frames)
      /\ toNode[k] # <<>> =>
            /\ Append(toNode[k], Msg(pageNext, c)) # <<>>
            /\ Head(Append(toNode[k], Msg(pageNext, c))) = Head(toNode[k])
  BY <1>3, AppendFrame DEF TypeOK
<1>5. TypeOK'
  BY <1>1, <1>2, <1>4 DEF SendText, TypeOK, nodeVars
<1>6. AttachedHandlersHaveSession' /\ ProcessingHandlersHaveText'
  BY <1>4 DEF SendText, AttachedHandlersHaveSession, ProcessingHandlersHaveText,
              TypeOK, Loaded, nodeVars
<1>. QED
  BY <1>5, <1>6

LEMMA ResendTextKeeps ==
    ASSUME NodeInv, NEW k \in Sockets, NEW c \in Texts, ResendText(k, c)
    PROVE  NodeInv'
<1>. USE DEF NodeInv
<1>1. StoreTypeOK'
  BY StoreSameType DEF ResendText, TypeOK
<1>2. textSeq[c] \in Seqs
  BY MaxSeqAssumption DEF ResendText, TypeOK, Seqs
<1>3. Msg(textSeq[c], c) \in Frames
  BY <1>2, FrameType DEF Payloads
<1>4. /\ Append(toNode[k], Msg(textSeq[c], c)) \in Seq(Frames)
      /\ toNode[k] # <<>> =>
            /\ Append(toNode[k], Msg(textSeq[c], c)) # <<>>
            /\ Head(Append(toNode[k], Msg(textSeq[c], c))) = Head(toNode[k])
  BY <1>3, AppendFrame DEF TypeOK
<1>5. TypeOK'
  BY <1>1, <1>4 DEF ResendText, TypeOK, nodeVars, pageVars, history
<1>6. AttachedHandlersHaveSession' /\ ProcessingHandlersHaveText'
  BY <1>4 DEF ResendText, AttachedHandlersHaveSession, ProcessingHandlersHaveText,
              TypeOK, Loaded, nodeVars
<1>. QED
  BY <1>5, <1>6

\* The handshake.
LEMMA HelloKeeps ==
    ASSUME NodeInv, NEW k \in Sockets, Hello(k)
    PROVE  NodeInv'
<1>. USE DEF NodeInv
<1>1. StoreTypeOK'
  BY StoreSameType DEF Hello, TypeOK
<1>2. session' \in Session \cup {NotLoaded} /\ (Loaded => Loaded')
  BY ResetInboundType, SocketAssumption DEF Hello, TypeOK, Loaded
<1>3. pc' \in [Sockets -> Stages]
      /\ (pc'[k] = "attached" => Loaded) /\ pc'[k] \in {"attached", "loadSession"}
      /\ \A j \in Sockets \ {k} : pc'[j] = pc[j]
  BY DEF Hello, TypeOK, Stages
<1>4. since' \subseteq Seqs
  BY DEF Hello, TypeOK
<1>5. TypeOK'
  BY <1>1, <1>2, <1>3, <1>4 DEF Hello, TypeOK, netVars, pageVars
<1>6. AttachedHandlersHaveSession'
  BY <1>2, <1>3 DEF AttachedHandlersHaveSession
<1>7. ProcessingHandlersHaveText'
  BY <1>3 DEF Hello, ProcessingHandlersHaveText, netVars
<1>. QED
  BY <1>5, <1>6, <1>7

LEMMA LoadKeeps ==
    ASSUME NodeInv, NEW k \in Sockets, LoadSession(k) \/ LoadOutbox(k) \/ LoadLog(k)
    PROVE  NodeInv'
<1>. USE DEF NodeInv
<1>1. StoreTypeOK' /\ disk \in Tables
  BY StoreSameType DEF LoadSession, LoadOutbox, LoadLog, TypeOK, StoreTypeOK
<1>2. disk.row \in SessionRow \cup {NoRow} /\ disk.outbox \in Buffer /\ disk.log \in Buffer
  BY <1>1 DEF Tables
<1>3. CASE LoadSession(k)
  <2>1. TypeOK'
    BY <1>1, <1>2, <1>3 DEF LoadSession, TypeOK, Stages, netVars, pageVars, history
  <2>2. AttachedHandlersHaveSession' /\ ProcessingHandlersHaveText'
    BY <1>3 DEF LoadSession, AttachedHandlersHaveSession, ProcessingHandlersHaveText,
                TypeOK, Loaded, netVars
  <2>. QED
    BY <2>1, <2>2
<1>4. CASE LoadOutbox(k)
  <2>1. pc' \in [Sockets -> Stages] /\ pc'[k] \in {"loadLog", "install"}
        /\ \A j \in Sockets \ {k} : pc'[j] = pc[j]
    BY <1>4 DEF LoadOutbox, TypeOK, Stages
  <2>2. TypeOK'
    BY <1>1, <1>2, <1>4, <2>1 DEF LoadOutbox, TypeOK, netVars, pageVars, history
  <2>3. AttachedHandlersHaveSession' /\ ProcessingHandlersHaveText'
    BY <1>4, <2>1 DEF LoadOutbox, AttachedHandlersHaveSession,
                      ProcessingHandlersHaveText, Loaded, netVars
  <2>. QED
    BY <2>2, <2>3
<1>5. CASE LoadLog(k)
  <2>1. WithHistory(rows[k], disk.log, row[k].last) \in Buffer
    BY <1>2, WithHistoryType DEF TypeOK
  <2>2. TypeOK'
    BY <1>1, <1>5, <2>1 DEF LoadLog, TypeOK, Stages, netVars, pageVars
  <2>3. AttachedHandlersHaveSession' /\ ProcessingHandlersHaveText'
    BY <1>5 DEF LoadLog, AttachedHandlersHaveSession, ProcessingHandlersHaveText,
                TypeOK, Loaded, netVars
  <2>. QED
    BY <2>2, <2>3
<1>. QED
  BY <1>3, <1>4, <1>5

\* What a session counts as processed are seqs.
LEMMA ProcessedType ==
    ASSUME NEW s \in Session
    PROVE  Processed(s) \subseteq Seqs
  BY MaxSeqAssumption DEF Processed, Session, Seqs

LEMMA InstallKeeps ==
    ASSUME NodeInv, NEW k \in Sockets, Install(k)
    PROVE  NodeInv'
<1>. USE DEF NodeInv
<1>1. StoreTypeOK'
  BY StoreSameType DEF Install, TypeOK
<1>2. session' \in Session
  BY RecoveredType DEF Install, TypeOK
<1>3. since' \subseteq Seqs
  BY <1>2, ProcessedType DEF Install
<1>4. EmptyBuffer \in Buffer
  BY NewSessionType
<1>5. TypeOK'
  BY <1>1, <1>2, <1>3, <1>4 DEF Install, TypeOK, Stages, netVars, pageVars
<1>6. AttachedHandlersHaveSession'
  BY <1>2, SocketAssumption DEF AttachedHandlersHaveSession, Loaded
<1>7. ProcessingHandlersHaveText'
  BY DEF Install, ProcessingHandlersHaveText, TypeOK, netVars
<1>. QED
  BY <1>5, <1>6, <1>7

LEMMA StartReplayKeeps ==
    ASSUME NodeInv, NEW k \in Sockets, StartReplay(k)
    PROVE  NodeInv'
<1>. USE DEF NodeInv
<1>1. StoreTypeOK'
  BY StoreSameType DEF StartReplay, TypeOK
<1>2. session \in Session
  BY DEF StartReplay, TypeOK, AttachedHandlersHaveSession, Loaded
<1>3. session' \in Session /\ ReplayFrom(session, 0) \in Buffer
  BY <1>2, ResetInboundType, ReplayFromType DEF StartReplay, Session
<1>4. TypeOK'
  BY <1>1, <1>3 DEF StartReplay, TypeOK, Stages, netVars, pageVars
<1>5. AttachedHandlersHaveSession'
  BY <1>3, SocketAssumption DEF AttachedHandlersHaveSession, Loaded
<1>6. ProcessingHandlersHaveText'
  BY DEF StartReplay, ProcessingHandlersHaveText, TypeOK, netVars
<1>. QED
  BY <1>4, <1>5, <1>6

LEMMA HandshakeFailsKeeps ==
    ASSUME NodeInv, NEW k \in Sockets, HandshakeFails(k)
    PROVE  NodeInv'
<1>. USE DEF NodeInv
<1>1. StoreTypeOK'
  BY StoreSameType DEF HandshakeFails, TypeOK
<1>2. <<>> \in Seq(Frames)
  OBVIOUS
<1>3. TypeOK'
  BY <1>1, <1>2 DEF HandshakeFails, TypeOK, Stages, pageVars, history
<1>4. AttachedHandlersHaveSession' /\ ProcessingHandlersHaveText'
  BY DEF HandshakeFails, AttachedHandlersHaveSession, ProcessingHandlersHaveText,
         TypeOK, Loaded
<1>. QED
  BY <1>3, <1>4

LEMMA ReplayKeeps ==
    ASSUME NodeInv, NEW k \in Sockets, ReplayOne(k) \/ ReplayDone(k)
    PROVE  NodeInv'
<1>. USE DEF NodeInv
<1>1. StoreTypeOK'
  BY StoreSameType DEF ReplayOne, ReplayDone, TypeOK
<1>2. CASE ReplayOne(k)
  <2>1. PICK n \in Seqs :
          /\ rows[k][n] # NoPayload
          /\ toClient' = Written(k, Msg(n, rows[k][n]))
          /\ rows' = [rows EXCEPT ![k] = [@ EXCEPT ![n] = NoPayload]]
    BY <1>2 DEF ReplayOne
  <2>2. rows[k] \in Buffer /\ rows[k][n] \in Payloads
    BY <2>1 DEF TypeOK, Buffer
  <2>3. [rows[k] EXCEPT ![n] = NoPayload] \in Buffer
    BY <2>2 DEF Buffer
  <2>4. toClient' \in [Sockets -> Seq(Frames)]
    BY <2>1, <2>2, FrameType, WrittenType DEF TypeOK
  <2>5. TypeOK'
    BY <1>1, <1>2, <2>1, <2>3, <2>4 DEF ReplayOne, TypeOK, pageVars, history
  <2>6. AttachedHandlersHaveSession' /\ ProcessingHandlersHaveText'
    BY <1>2 DEF ReplayOne, AttachedHandlersHaveSession, ProcessingHandlersHaveText,
                Loaded
  <2>. QED
    BY <2>5, <2>6
<1>3. CASE ReplayDone(k)
  <2>1. TypeOK'
    BY <1>1, <1>3 DEF ReplayDone, TypeOK, Stages, netVars, pageVars, history
  <2>2. AttachedHandlersHaveSession' /\ ProcessingHandlersHaveText'
    BY <1>3 DEF ReplayDone, AttachedHandlersHaveSession, ProcessingHandlersHaveText,
                TypeOK, Loaded, netVars
  <2>. QED
    BY <2>1, <2>2
<1>. QED
  BY <1>2, <1>3

\* Messages to the session and their acknowledgements.
LEMMA BroadcastKeeps ==
    ASSUME NodeInv, NEW p \in Outgoing, Broadcast(p)
    PROVE  NodeInv'
<1>. USE DEF NodeInv
<1>. DEFINE n == session.next
            t == PrepareOutbound(session, p)
            ops == <<SaveOutbound(n, p), SaveMessageLog(n, p), SaveSession(t)>>
<1>1. session \in Session /\ n <= MaxSeq /\ p \in Payloads
  BY DEF Broadcast, TypeOK, Loaded, Payloads
<1>2. n \in Seqs /\ t \in Session
  BY <1>1, PrepareOutboundType
<1>3. /\ session' = t
      /\ Put(ops)
      /\ toClient' = Written(registered, Msg(n, p))
      /\ assigned' = [assigned EXCEPT ![n] = p]
      /\ UNCHANGED <<process, registered, evicted, pc, row, rows, link, toNode,
                     pageVars, typed, shown, ackedSeqs, confirmed, handled, since,
                     overlaid>>
  BY DEF Broadcast
<1>. HIDE DEF n, t
<1>4. ops \in Seq(Ops)
  BY <1>1, <1>2, OpsType
<1>. HIDE DEF ops
<1>5. StoreTypeOK'
  BY <1>3, <1>4, PutType DEF TypeOK
<1>6. toClient' \in [Sockets -> Seq(Frames)]
  BY <1>1, <1>2, <1>3, FrameType, WrittenType DEF TypeOK
<1>7. [assigned EXCEPT ![n] = p] \in Buffer
  BY <1>1, <1>2, BufferUpdate DEF TypeOK
<1>8. TypeOK'
  BY <1>2, <1>3, <1>5, <1>6, <1>7 DEF TypeOK, pageVars
<1>9. AttachedHandlersHaveSession' /\ ProcessingHandlersHaveText'
  BY <1>2, <1>3, SocketAssumption
     DEF AttachedHandlersHaveSession, ProcessingHandlersHaveText, Loaded
<1>. QED
  BY <1>8, <1>9

LEMMA RetryKeeps ==
    ASSUME NodeInv, NEW n \in Seqs, Retry(n)
    PROVE  NodeInv'
<1>. USE DEF NodeInv
<1>1. StoreTypeOK'
  BY StoreSameType DEF Retry, TypeOK
<1>2. session.outbox[n] \in Payloads
  BY DEF Retry, TypeOK, Loaded, Session, Buffer
<1>3. toClient' \in [Sockets -> Seq(Frames)]
  BY <1>2, FrameType, WrittenType DEF Retry, TypeOK
<1>4. TypeOK'
  BY <1>1, <1>3 DEF Retry, TypeOK, nodeVars, pageVars, history
<1>5. AttachedHandlersHaveSession' /\ ProcessingHandlersHaveText'
  BY DEF Retry, AttachedHandlersHaveSession, ProcessingHandlersHaveText, Loaded, nodeVars
<1>. QED
  BY <1>4, <1>5

LEMMA HandleAckFrameKeeps ==
    ASSUME NodeInv, NEW k \in Sockets, HandleAckFrame(k)
    PROVE  NodeInv'
<1>. USE DEF NodeInv
<1>. DEFINE n == Head(toNode[k]).seq
<1>1. session \in Session
  BY DEF HandleAckFrame, Reading, TypeOK, AttachedHandlersHaveSession, Loaded
<1>2. Head(toNode[k]) \in Frames /\ Tail(toNode[k]) \in Seq(Frames)
  BY HeadTailProperties DEF HandleAckFrame, Reading, TypeOK
<1>3. n \in Seqs
  BY <1>2, FrameType
<1>4. /\ \/ /\ session' = HandleAck(session, n)
            /\ Put(<<DeleteOutbound(n)>>)
            /\ ackedSeqs' = ackedSeqs \cup {n}
         \/ UNCHANGED <<session, storeVars, ackedSeqs>>
      /\ toNode' = [toNode EXCEPT ![k] = Tail(@)]
      /\ pc[k] = "reading"
      /\ UNCHANGED <<process, registered, evicted, pc, row, rows, link, toClient,
                     pageVars, typed, assigned, shown, confirmed, handled, since,
                     overlaid>>
  BY DEF HandleAckFrame, Reading
<1>. HIDE DEF n
<1>5. session' \in Session /\ ackedSeqs' \subseteq Seqs
  BY <1>1, <1>3, <1>4, HandleAckType DEF TypeOK
<1>6. StoreTypeOK'
  <2>1. <<DeleteOutbound(n)>> \in Seq(Ops)
    BY <1>3, OpsType
  <2>. QED
    BY <1>4, <2>1, PutType, StoreSameType DEF TypeOK
<1>7. TypeOK'
  BY <1>2, <1>4, <1>5, <1>6 DEF TypeOK, pageVars
<1>8. AttachedHandlersHaveSession'
  BY <1>5, SocketAssumption DEF AttachedHandlersHaveSession, Loaded
<1>9. ProcessingHandlersHaveText'
  BY <1>4 DEF ProcessingHandlersHaveText, TypeOK
<1>. QED
  BY <1>7, <1>8, <1>9

\* Messages from the session.
LEMMA AckTextKeeps ==
    ASSUME NodeInv, NEW k \in Sockets, AckText(k)
    PROVE  NodeInv'
<1>. USE DEF NodeInv
<1>1. StoreTypeOK'
  BY StoreSameType DEF AckText, TypeOK
<1>2. Head(toNode[k]) \in Frames
  BY HeadTailProperties DEF AckText, Reading, TypeOK
<1>3. toClient' \in [Sockets -> Seq(Frames)]
  BY <1>2, FrameType, WrittenType DEF AckText, TypeOK
<1>4. TypeOK'
  BY <1>1, <1>3 DEF AckText, TypeOK, Stages, pageVars, history
<1>5. AttachedHandlersHaveSession' /\ ProcessingHandlersHaveText'
  BY DEF AckText, Reading, AttachedHandlersHaveSession, ProcessingHandlersHaveText,
         TypeOK, Loaded
<1>. QED
  BY <1>4, <1>5

LEMMA ProcessTextKeeps ==
    ASSUME NodeInv, NEW k \in Sockets, ProcessText(k)
    PROVE  NodeInv'
<1>. USE DEF NodeInv
<1>. DEFINE f == Head(toNode[k])
            t == MarkInboundProcessed(session, f.seq)
            ops == <<SaveMessageLog(f.seq, f.payload), SaveSession(t)>>
<1>1. session \in Session
  BY DEF ProcessText, TypeOK, AttachedHandlersHaveSession, Loaded
<1>2. f \in Frames /\ f.kind = "msg" /\ Tail(toNode[k]) \in Seq(Frames)
  BY HeadTailProperties DEF ProcessText, TypeOK, ProcessingHandlersHaveText
<1>3. f.seq \in Seqs /\ f.payload \in Payloads
  BY <1>2, FrameType
<1>4. t \in Session
  <2>. HIDE DEF f
  <2>. QED
    BY <1>1, <1>3, MarkInboundProperty
<1>5. /\ \/ /\ session' = t
            /\ Put(ops)
            /\ handled' = handled \cup {f.payload}
            /\ since' = since \cup {f.seq}
         \/ UNCHANGED <<session, storeVars, handled, since>>
      /\ toNode' = [toNode EXCEPT ![k] = Tail(@)]
      /\ pc' = [pc EXCEPT ![k] = "reading"]
      /\ UNCHANGED <<process, registered, evicted, row, rows, link, toClient,
                     pageVars, typed, assigned, shown, ackedSeqs, confirmed, overlaid>>
  BY DEF ProcessText
<1>. HIDE DEF t, f
<1>6. ops \in Seq(Ops)
  BY <1>3, <1>4, OpsType
<1>. HIDE DEF ops
<1>7. StoreTypeOK'
  BY <1>5, <1>6, PutType, StoreSameType DEF TypeOK
<1>8. session' \in Session /\ handled' \subseteq Payloads /\ since' \subseteq Seqs
  BY <1>1, <1>3, <1>4, <1>5 DEF TypeOK
<1>9. TypeOK'
  BY <1>2, <1>5, <1>7, <1>8 DEF TypeOK, Stages, pageVars
<1>10. AttachedHandlersHaveSession'
  BY <1>8, SocketAssumption DEF AttachedHandlersHaveSession, Loaded
<1>11. ProcessingHandlersHaveText'
  BY <1>5 DEF ProcessingHandlersHaveText, TypeOK
<1>. QED
  BY <1>9, <1>10, <1>11

LEMMA TaskEndsKeeps ==
    ASSUME NodeInv, NEW k \in Sockets, TaskEnds(k), UNCHANGED <<process, row, pageVars>>,
           StoreTypeOK', session' \in Session \cup {NotLoaded}, Loaded => Loaded',
           registered' \in Sockets \cup {NoSocket}, handled' \subseteq Payloads,
           since' \subseteq Seqs,
           UNCHANGED <<typed, assigned, shown, ackedSeqs, confirmed, overlaid>>
    PROVE  NodeInv'
<1>. USE DEF NodeInv
<1>1. <<>> \in Seq(Frames) /\ EmptyBuffer \in Buffer
  BY NewSessionType
<1>2. TypeOK'
  BY <1>1 DEF TaskEnds, TypeOK, Stages, pageVars
<1>3. AttachedHandlersHaveSession' /\ ProcessingHandlersHaveText'
  BY DEF TaskEnds, AttachedHandlersHaveSession, ProcessingHandlersHaveText, TypeOK
<1>. QED
  BY <1>2, <1>3

LEMMA FanoutFailsKeeps ==
    ASSUME NodeInv, NEW k \in Sockets, FanoutFails(k)
    PROVE  NodeInv'
<1>. DEFINE f == Head(toNode[k])
            t == MarkInboundProcessed(session, f.seq)
            ops == <<SaveMessageLog(f.seq, f.payload), SaveSession(t)>>
<1>1. session \in Session
  BY DEF FanoutFails, NodeInv, TypeOK, AttachedHandlersHaveSession, Loaded
<1>2. f.seq \in Seqs /\ f.payload \in Payloads
  BY HeadTailProperties, FrameType
     DEF FanoutFails, NodeInv, TypeOK, ProcessingHandlersHaveText
<1>3. /\ session' = t /\ Put(ops) /\ handled' = handled \cup {f.payload}
      /\ since' = since \cup {f.seq}
      /\ registered' \in {registered, NoSocket} /\ TaskEnds(k)
      /\ UNCHANGED <<process, row, pageVars, typed, assigned, shown, ackedSeqs,
                     confirmed, overlaid>>
  BY DEF FanoutFails
<1>. HIDE DEF f
<1>4. t \in Session
  BY <1>1, <1>2, MarkInboundProperty
<1>. HIDE DEF t
<1>5. ops \in Seq(Ops)
  BY <1>2, <1>4, OpsType
<1>. HIDE DEF ops
<1>6. StoreTypeOK'
  BY <1>3, <1>5, PutType DEF NodeInv, TypeOK
<1>7. session' \in Session \cup {NotLoaded} /\ Loaded'
  BY <1>3, <1>4, SocketAssumption DEF Loaded
<1>8. /\ registered' \in Sockets \cup {NoSocket} /\ handled' \subseteq Payloads
      /\ since' \subseteq Seqs
  BY <1>2, <1>3 DEF NodeInv, TypeOK
<1>. QED
  BY <1>3, <1>6, <1>7, <1>8, TaskEndsKeeps

\* The end of a connection, and of the process.
LEMMA InHandType ==
    ASSUME NodeInv, NEW k \in Sockets
    PROVE  InHand(k) \subseteq Payloads
<1>1. CASE pc[k] = "processing"
  <2>1. Head(toNode[k]) \in Frames /\ Head(toNode[k]).kind = "msg"
    BY <1>1, HeadTailProperties DEF NodeInv, TypeOK, ProcessingHandlersHaveText
  <2>. QED
    BY <1>1, <2>1, FrameType DEF InHand
<1>. QED
  BY <1>1 DEF InHand

LEMMA CleanupKeeps ==
    ASSUME NodeInv, NEW k \in Sockets, Cleanup(k)
    PROVE  NodeInv'
<1>1. StoreTypeOK'
  BY StoreSameType DEF Cleanup, NodeInv, TypeOK
<1>2. /\ session' \in Session \cup {NotLoaded} /\ (Loaded => Loaded')
      /\ registered' \in Sockets \cup {NoSocket} /\ handled' \subseteq Payloads
      /\ since' \subseteq Seqs
  BY InHandType DEF Cleanup, NodeInv, TypeOK, Loaded
<1>3. /\ TaskEnds(k)
      /\ UNCHANGED <<process, row, pageVars, typed, assigned, shown, ackedSeqs,
                     confirmed, overlaid>>
  BY DEF Cleanup
<1>. QED
  BY <1>1, <1>2, <1>3, TaskEndsKeeps

LEMMA DieKeeps ==
    ASSUME NodeInv, Die
    PROVE  NodeInv'
<1>. USE DEF NodeInv
<1>1. StoreTypeOK'
  BY StoreLifecycleType DEF Die, TypeOK
<1>2. <<>> \in Seq(Frames) /\ EmptyBuffer \in Buffer
  BY NewSessionType
<1>3. TypeOK'
  BY <1>1, <1>2 DEF Die, TypeOK, Stages, pageVars
<1>4. AttachedHandlersHaveSession' /\ ProcessingHandlersHaveText'
  BY DEF Die, AttachedHandlersHaveSession, ProcessingHandlersHaveText
<1>. QED
  BY <1>3, <1>4

LEMMA ProcessKeeps ==
    ASSUME NodeInv, Stop \/ StopStore \/ Exit \/ Crash \/ Restart
    PROVE  NodeInv'
<1>. USE DEF NodeInv
<1>1. CASE Stop \/ StopStore
  <2>1. StoreTypeOK'
    BY <1>1, StoreLifecycleType, StoreSameType DEF Stop, StopStore, TypeOK
  <2>2. TypeOK'
    BY <1>1, <2>1 DEF Stop, StopStore, TypeOK, netVars, pageVars, history
  <2>3. AttachedHandlersHaveSession' /\ ProcessingHandlersHaveText'
    BY <1>1 DEF Stop, StopStore, AttachedHandlersHaveSession, ProcessingHandlersHaveText,
                Loaded, netVars
  <2>. QED
    BY <2>2, <2>3
<1>2. CASE Exit \/ Crash
  BY <1>2, DieKeeps DEF Exit, Crash
<1>3. CASE Restart
  <2>1. StoreTypeOK'
    BY <1>3, StoreLifecycleType DEF Restart, TypeOK
  <2>2. TypeOK'
    BY <1>3, <2>1 DEF Restart, TypeOK, netVars, pageVars, history
  <2>3. AttachedHandlersHaveSession' /\ ProcessingHandlersHaveText'
    BY <1>3 DEF Restart, AttachedHandlersHaveSession, ProcessingHandlersHaveText,
                Loaded, netVars
  <2>. QED
    BY <2>2, <2>3
<1>. QED
  BY <1>1, <1>2, <1>3

LEMMA WriterKeeps ==
    ASSUME NodeInv, Writer
    PROVE  NodeInv'
<1>. USE DEF NodeInv
<1>1. StoreTypeOK'
  BY WriterStepType DEF Writer, TypeOK
<1>2. TypeOK'
  BY <1>1 DEF Writer, TypeOK, nodeVars, netVars, pageVars, history
<1>3. AttachedHandlersHaveSession' /\ ProcessingHandlersHaveText'
  BY DEF Writer, AttachedHandlersHaveSession, ProcessingHandlersHaveText,
         Loaded, nodeVars, netVars
<1>. QED
  BY <1>2, <1>3

LEMMA StutterKeeps ==
    ASSUME NodeInv, UNCHANGED vars
    PROVE  NodeInv'
<1>. USE DEF NodeInv
<1>1. StoreTypeOK'
  BY StoreSameType DEF vars, TypeOK
<1>2. TypeOK'
  BY <1>1 DEF vars, TypeOK, nodeVars, netVars, pageVars, history
<1>3. AttachedHandlersHaveSession' /\ ProcessingHandlersHaveText'
  BY DEF vars, AttachedHandlersHaveSession, ProcessingHandlersHaveText,
         Loaded, nodeVars, netVars
<1>. QED
  BY <1>2, <1>3

----------------------------------------------------------------------------
(***************************************************************************)
(* The theorems.                                                           *)
(***************************************************************************)
LEMMA NextNodeInv == NodeInv /\ [Next]_vars => NodeInv'
<1>. SUFFICES ASSUME NodeInv, [Next]_vars
              PROVE  NodeInv'
  OBVIOUS
<1>1. ASSUME NEW k \in Sockets, Page(k)
      PROVE  NodeInv'
  BY <1>1, ConnectKeeps, ReceiveMessageKeeps, ReceiveAckKeeps, SendTextKeeps,
     ResendTextKeeps DEF Page
<1>2. ASSUME NEW k \in Sockets, Lose(k) \/ Evict(k)
      PROVE  NodeInv'
  BY <1>2, BreakKeeps DEF Lose, Evict
<1>3. ASSUME NEW k \in Sockets, Handler(k)
      PROVE  NodeInv'
  BY <1>3, HelloKeeps, LoadKeeps, InstallKeeps, StartReplayKeeps, ReplayKeeps,
     HandshakeFailsKeeps, HandleAckFrameKeeps, AckTextKeeps, ProcessTextKeeps,
     FanoutFailsKeeps, CleanupKeeps DEF Handler, Handshake
<1>. QED
  BY <1>1, <1>2, <1>3, BroadcastKeeps, RetryKeeps, WriterKeeps, ProcessKeeps,
     StutterKeeps DEF Next

\* Every variable of the node, its store and its page has its type in every
\* reachable state, whatever the bounds and the mode: no handler applies an
\* operation to a session or a frame that is not there.
THEOREM TypeCorrect == Spec => []TypeOK
<1>1. Spec => []NodeInv
  BY InitNodeInv, NextNodeInv, PTL DEF Spec
<1>2. NodeInv => TypeOK
  BY DEF NodeInv
<1>. QED
  BY <1>1, <1>2, PTL

----------------------------------------------------------------------------
\* What a handler queues, and what it has done to the session by then.
LEMMA BroadcastQueues ==
    ASSUME NodeInv, NEW p \in Outgoing, Broadcast(p)
    PROVE  /\ Loaded /\ session \in Session /\ session.next \in Seqs /\ p \in Payloads
           /\ Loaded' /\ session' \in Session /\ session'.next = session.next + 1
           /\ session'.outbox = [session.outbox EXCEPT ![session.next] = p]
           /\ session'.last = session.last
           /\ \E ops \in Seq(Ops) :
                 /\ Put(ops) /\ Len(ops) = 3
                 /\ ops[1] = SaveOutbound(session.next, p)
                 /\ ops[2] = SaveMessageLog(session.next, p)
                 /\ ops[3] = SaveSession(session')
<1>1. Loaded /\ session \in Session /\ session.next <= MaxSeq /\ p \in Payloads
  BY DEF Broadcast, NodeInv, TypeOK, Loaded, Payloads
<1>2. session' = PrepareOutbound(session, p)
  BY DEF Broadcast
<1>3. /\ session.next \in Seqs /\ session' \in Session /\ session'.next = session.next + 1
      /\ session'.outbox = [session.outbox EXCEPT ![session.next] = p]
      /\ session'.last = session.last
  BY <1>1, <1>2, PrepareOutboundType
<1>4. Loaded'
  BY <1>3, SocketAssumption DEF Loaded
<1>. DEFINE ops == <<SaveOutbound(session.next, p), SaveMessageLog(session.next, p),
                     SaveSession(session')>>
<1>5. Put(ops)
  BY <1>2 DEF Broadcast
<1>6. /\ ops \in Seq(Ops) /\ Len(ops) = 3 /\ ops[1] = SaveOutbound(session.next, p)
      /\ ops[2] = SaveMessageLog(session.next, p) /\ ops[3] = SaveSession(session')
  BY <1>1, <1>3, OpsType
<1>. HIDE DEF ops
<1>. QED
  BY <1>1, <1>3, <1>4, <1>5, <1>6

LEMMA AckQueues ==
    ASSUME NodeInv, NEW k \in Sockets, HandleAckFrame(k)
    PROVE  LET n == Head(toNode[k]).seq IN
           /\ Loaded /\ session \in Session /\ n \in Seqs
           /\ \/ UNCHANGED <<session, storeVars, ackedSeqs>>
              \/ /\ session.outbox[n] # NoPayload /\ ackedSeqs' = ackedSeqs \cup {n}
                 /\ Loaded' /\ session' \in Session /\ session'.next = session.next
                 /\ session'.outbox = [session.outbox EXCEPT ![n] = NoPayload]
                 /\ session'.last = session.last
                 /\ \E ops \in Seq(Ops) :
                       Put(ops) /\ Len(ops) = 1 /\ ops[1] = DeleteOutbound(n)
<1>. DEFINE n == Head(toNode[k]).seq
<1>1. Loaded /\ session \in Session
  BY DEF HandleAckFrame, Reading, NodeInv, TypeOK, AttachedHandlersHaveSession, Loaded
<1>2. n \in Seqs
  BY HeadTailProperties, FrameType DEF HandleAckFrame, Reading, NodeInv, TypeOK
<1>3. \/ UNCHANGED <<session, storeVars, ackedSeqs>>
      \/ /\ session.outbox[n] # NoPayload /\ ackedSeqs' = ackedSeqs \cup {n}
         /\ session' = HandleAck(session, n) /\ Put(<<DeleteOutbound(n)>>)
  BY DEF HandleAckFrame
<1>. HIDE DEF n
<1>4. <<DeleteOutbound(n)>> \in Seq(Ops) /\ Len(<<DeleteOutbound(n)>>) = 1
      /\ <<DeleteOutbound(n)>>[1] = DeleteOutbound(n)
  BY <1>2, OpsType
<1>5. HandleAck(session, n) # NotLoaded
  BY <1>1, <1>2, HandleAckType, SocketAssumption
<1>6. \/ UNCHANGED <<session, storeVars, ackedSeqs>>
      \/ /\ session.outbox[n] # NoPayload /\ ackedSeqs' = ackedSeqs \cup {n}
         /\ Loaded' /\ session' \in Session /\ session'.next = session.next
         /\ session'.outbox = [session.outbox EXCEPT ![n] = NoPayload]
         /\ session'.last = session.last
         /\ Put(<<DeleteOutbound(n)>>)
  BY <1>1, <1>2, <1>3, <1>5, HandleAckType DEF Loaded
<1>7. Put(<<DeleteOutbound(n)>>) => \E ops \in Seq(Ops) :
          Put(ops) /\ Len(ops) = 1 /\ ops[1] = DeleteOutbound(n)
  BY <1>4
<1>. QED
  BY <1>1, <1>2, <1>6, <1>7 DEF n

LEMMA TextQueues ==
    ASSUME NodeInv, NEW k \in Sockets, ProcessText(k) \/ FanoutFails(k)
    PROVE  LET f == Head(toNode[k]) IN
           /\ Loaded /\ session \in Session /\ f.seq \in Seqs /\ f.payload \in Payloads
           /\ f.kind = "msg" /\ toNode[k] # <<>> /\ UNCHANGED ackedSeqs
           /\ \/ ~ShouldProcessInbound(session, f.seq) /\ UNCHANGED <<session, storeVars, handled>>
              \/ /\ Loaded' /\ session' \in Session /\ session'.next = session.next
                 /\ session'.outbox = session.outbox
                 /\ Processed(session') = Processed(session) \cup {f.seq}
                 /\ handled' = handled \cup {f.payload}
                 /\ \E ops \in Seq(Ops) :
                       /\ Put(ops) /\ Len(ops) = 2
                       /\ ops[1] = SaveMessageLog(f.seq, f.payload)
                       /\ ops[2] = SaveSession(session')
<1>. DEFINE f == Head(toNode[k])
            t == MarkInboundProcessed(session, f.seq)
            ops == <<SaveMessageLog(f.seq, f.payload), SaveSession(t)>>
<1>1. /\ Loaded /\ session \in Session /\ f.seq \in Seqs /\ f.payload \in Payloads
      /\ f.kind = "msg" /\ toNode[k] # <<>> /\ UNCHANGED ackedSeqs
  BY HeadTailProperties, FrameType DEF ProcessText, FanoutFails, NodeInv, TypeOK,
     ProcessingHandlersHaveText, AttachedHandlersHaveSession, Loaded
<1>2. \/ ~ShouldProcessInbound(session, f.seq) /\ UNCHANGED <<session, storeVars, handled>>
      \/ session' = t /\ handled' = handled \cup {f.payload} /\ Put(ops)
  BY DEF ProcessText, FanoutFails
<1>. HIDE DEF f
<1>3. /\ t \in Session /\ t.next = session.next /\ t.outbox = session.outbox
      /\ Processed(t) = Processed(session) \cup {f.seq}
  BY <1>1, MarkInboundProperty
<1>. HIDE DEF t
<1>4. /\ ops \in Seq(Ops) /\ Len(ops) = 2 /\ ops[1] = SaveMessageLog(f.seq, f.payload)
      /\ ops[2] = SaveSession(t)
  BY <1>1, <1>3, OpsType
<1>5. t # NotLoaded
  BY <1>3, SocketAssumption
<1>. HIDE DEF ops
<1>6. CASE session' = t /\ handled' = handled \cup {f.payload} /\ Put(ops)
  <2>1. \E q \in Seq(Ops) : /\ Put(q) /\ Len(q) = 2
                            /\ q[1] = SaveMessageLog(f.seq, f.payload) /\ q[2] = SaveSession(session')
    BY <1>4, <1>6
  <2>. QED
    BY <1>1, <1>3, <1>5, <1>6, <2>1 DEF f, Loaded
<1>. QED
  BY <1>1, <1>2, <1>6 DEF f

----------------------------------------------------------------------------
(***************************************************************************)
(* The inbound tracking.  InboundTracking is inductive together with       *)
(* NodeInv: only the steps below touch the session or since.               *)
(***************************************************************************)

\* A session whose inbound side was just reset or recovered is tracked exactly.
LEMMA FreshTracking ==
    ASSUME NEW s \in Session, s.seen = {}
    PROVE  /\ s.last + 1 \notin s.seen
           /\ s.seen \cap (1 .. s.last) = {}
           /\ s.last = 0 => Processed(s) = {}
  BY DEF Processed

LEMMA SameTracking ==
    ASSUME InboundTracking, UNCHANGED <<session, since>>
    PROVE  InboundTracking'
  BY DEF InboundTracking, Loaded, Processed

\* The outbound operations keep mark and set.
LEMMA OutboundTracking ==
    ASSUME InboundTracking, Loaded, UNCHANGED since,
           session'.last = session.last, session'.seen = session.seen
    PROVE  InboundTracking'
  BY DEF InboundTracking, Processed

\* LOGIN leaves the tracking, HELLO and the start of the replay reset it.
LEMMA ResetTracking ==
    ASSUME NodeInv, Loaded, session' = ResetInbound(session), since' = {}
    PROVE  InboundTracking'
<1>1. session \in Session
  BY DEF NodeInv, TypeOK, Loaded
<1>2. session' \in Session /\ session'.seen = {} /\ session'.last = 0
  BY <1>1, ResetInboundType
<1>. QED
  BY <1>2, FreshTracking DEF InboundTracking

LEMMA ProcessTextTracking ==
    ASSUME NodeInv, InboundTracking, NEW k \in Sockets, ProcessText(k) \/ FanoutFails(k)
    PROVE  InboundTracking'
<1>. DEFINE n == Head(toNode[k]).seq
<1>1. Loaded /\ session \in Session
  BY DEF ProcessText, FanoutFails, NodeInv, TypeOK, AttachedHandlersHaveSession, Loaded
<1>2. n \in Seqs
  BY HeadTailProperties, FrameType
     DEF ProcessText, FanoutFails, NodeInv, TypeOK, ProcessingHandlersHaveText
<1>3. CASE ShouldProcessInbound(session, n)
  <2>1. session' = MarkInboundProcessed(session, n) /\ since' = since \cup {n}
    BY <1>3 DEF ProcessText, FanoutFails
  <2>2. n \notin 1 .. session.last
    BY <1>1, <1>2, <1>3 DEF ShouldProcessInbound, Session
  <2>. HIDE DEF n
  <2>3. /\ Processed(session') = Processed(session) \cup {n}
        /\ session'.last + 1 \notin session'.seen
        /\ session'.seen \cap (1 .. session'.last) = {}
    BY <1>1, <1>2, <2>1, <2>2, MarkInboundProperty DEF InboundTracking
  <2>. QED
    BY <1>1, <2>1, <2>3 DEF InboundTracking
<1>4. CASE ~ShouldProcessInbound(session, n)
  BY <1>4, SameTracking DEF ProcessText, FanoutFails
<1>. QED
  BY <1>3, <1>4

LEMMA HandlerTracking ==
    ASSUME NodeInv, InboundTracking, NEW k \in Sockets, Handler(k)
    PROVE  InboundTracking'
<1>1. CASE Hello(k)
  BY <1>1, SameTracking, ResetTracking DEF Hello
<1>2. CASE Install(k)
  <2>1. /\ session' = Recovered(row[k], rows[k])
        /\ since' = Processed(session')
    BY <1>2 DEF Install
  <2>2. session' \in Session /\ session'.seen = {}
    BY <2>1, RecoveredType DEF NodeInv, TypeOK
  <2>. QED
    BY <2>1, <2>2, FreshTracking DEF InboundTracking
<1>3. CASE StartReplay(k)
  BY <1>3, ResetTracking DEF StartReplay, NodeInv, AttachedHandlersHaveSession
<1>4. CASE HandleAckFrame(k)
  <2>1. Loaded /\ session \in Session
    BY <1>4 DEF HandleAckFrame, Reading, NodeInv, TypeOK,
                AttachedHandlersHaveSession, Loaded
  <2>2. Head(toNode[k]).seq \in Seqs
    BY <1>4, HeadTailProperties, FrameType DEF HandleAckFrame, Reading, NodeInv, TypeOK
  <2>3. \/ session' = HandleAck(session, Head(toNode[k]).seq)
        \/ session' = session
    BY <1>4 DEF HandleAckFrame
  <2>4. session'.last = session.last /\ session'.seen = session.seen
    BY <2>1, <2>2, <2>3, HandleAckType
  <2>. QED
    BY <1>4, <2>1, <2>4, OutboundTracking DEF HandleAckFrame
<1>5. CASE ProcessText(k) \/ FanoutFails(k)
  BY <1>5, ProcessTextTracking
<1>6. CASE \/ LoadSession(k) \/ LoadOutbox(k) \/ LoadLog(k) \/ HandshakeFails(k)
           \/ ReplayOne(k) \/ ReplayDone(k) \/ AckText(k) \/ Cleanup(k)
  BY <1>6, SameTracking
     DEF LoadSession, LoadOutbox, LoadLog, HandshakeFails, ReplayOne, ReplayDone,
         AckText, Cleanup, history
<1>. QED
  BY <1>1, <1>2, <1>3, <1>4, <1>5, <1>6 DEF Handler, Handshake

LEMMA NextTracking ==
    NodeInv /\ InboundTracking /\ [Next]_vars => InboundTracking'
<1>. SUFFICES ASSUME NodeInv, InboundTracking, [Next]_vars
              PROVE  InboundTracking'
  OBVIOUS
<1>1. ASSUME NEW k \in Sockets, Page(k) \/ Lose(k) \/ Evict(k)
      PROVE  InboundTracking'
  BY <1>1, SameTracking
     DEF Page, Connect, ReceiveMessage, ReceiveAck, SendText, ResendText,
         Lose, Evict, Break, nodeVars, history
<1>2. ASSUME NEW k \in Sockets, Handler(k)
      PROVE  InboundTracking'
  BY <1>2, HandlerTracking
<1>3. ASSUME NEW p \in Outgoing, Broadcast(p)
      PROVE  InboundTracking'
  <2>1. Loaded /\ session \in Session /\ session.next <= MaxSeq /\ p \in Payloads
    BY <1>3 DEF Broadcast, NodeInv, TypeOK, Loaded, Payloads
  <2>2. session' = PrepareOutbound(session, p) /\ UNCHANGED since
    BY <1>3 DEF Broadcast
  <2>3. session'.last = session.last /\ session'.seen = session.seen
    BY <2>1, <2>2, PrepareOutboundType
  <2>. QED
    BY <2>1, <2>2, <2>3, OutboundTracking
<1>4. CASE Exit \/ Crash
  BY <1>4 DEF Exit, Crash, Die, InboundTracking, Loaded
<1>5. CASE Writer \/ Stop \/ StopStore \/ Restart \/ UNCHANGED vars \/ \E n \in Seqs : Retry(n)
  BY <1>5, SameTracking DEF Writer, Stop, StopStore, Restart, Retry, vars, nodeVars, history
<1>. QED
  BY <1>1, <1>2, <1>3, <1>4, <1>5 DEF Next

\* Mark and set are exactly the seqs processed since the tracking was last
\* reset, in every reachable state.
THEOREM TrackingCorrect == Spec => []InboundTracking
<1>1. Init => InboundTracking
  BY DEF Init, InboundTracking, Loaded
<1>2. Spec => [](NodeInv /\ InboundTracking)
  BY <1>1, InitNodeInv, NextNodeInv, NextTracking, PTL DEF Spec
<1>. QED
  BY <1>2, PTL

\* No text is relayed under a seq that was already relayed since the tracking
\* was last reset.
THEOREM RelaysOnceBetweenResets == Spec => NothingRepeated
<1>1. ASSUME NodeInv, InboundTracking, NEW k \in Sockets, Relays(k)
      PROVE  Head(toNode[k]).seq \notin since
  <2>1. Loaded /\ session \in Session
    BY <1>1 DEF Relays, ProcessText, FanoutFails, NodeInv, TypeOK, AttachedHandlersHaveSession, Loaded
  <2>2. Head(toNode[k]).seq \in Seqs
    BY <1>1, HeadTailProperties, FrameType
       DEF Relays, ProcessText, FanoutFails, NodeInv, TypeOK, ProcessingHandlersHaveText
  <2>. QED
    BY <1>1, <2>1, <2>2, ShouldProcessProperty DEF Relays, InboundTracking
<1>2. NodeInv /\ InboundTracking
         => \A k \in Sockets : Relays(k) => Head(toNode[k]).seq \notin since
  BY <1>1
<1>3. Init => InboundTracking
  BY DEF Init, InboundTracking, Loaded
<1>4. Spec => [](NodeInv /\ InboundTracking)
  BY <1>3, InitNodeInv, NextNodeInv, NextTracking, PTL DEF Spec
<1>. QED
  BY <1>2, <1>4, PTL DEF NothingRepeated

----------------------------------------------------------------------------
(***************************************************************************)
(* An ACK is a promise.  While the process lives and the page is not       *)
(* reloaded, a seq counted as processed - in the session or in a row it    *)
(* could be recovered from - is the seq of a text that has been handled:   *)
(* relayed, or given up with its handler when a write failed; so a text    *)
(* that is acknowledged and dropped as a duplicate has been handled too.   *)
(***************************************************************************)
InboundMode == Crashes = FALSE /\ Restarts = FALSE /\ Reloads = FALSE

\* The page gives each text a seq of its own.
TextsNumbered ==
    /\ \A c \in Texts : textSeq[c] # 0 => c \in typed /\ textSeq[c] < pageNext
    /\ \A c, d \in Texts : textSeq[c] # 0 /\ textSeq[c] = textSeq[d] => c = d
    /\ \A k \in Sockets : \A i \in 1 .. Len(toNode[k]) :
          toNode[k][i].kind = "msg" => /\ toNode[k][i].payload \in Texts
                                       /\ textSeq[toNode[k][i].payload] = toNode[k][i].seq

HandledSeq(n) == \E c \in handled \cap Texts : textSeq[c] = n
RowHandled(r) == \A n \in 1 .. r.last : HandledSeq(n)

ProcessedIsHandled ==
    /\ Loaded => \A n \in Processed(session) : HandledSeq(n)
    /\ \A i \in 1 .. Len(queue) : SavesRow(queue[i]) => RowHandled(queue[i])
    /\ staged.row # NoRow => RowHandled(staged.row)
    /\ disk.row # NoRow => RowHandled(disk.row)
    /\ \A k \in Sockets : row[k] # NoRow => RowHandled(row[k])

InGoodHands(c) ==
    \/ c \in handled
    \/ \E k \in Sockets : pc[k] = "processing" /\ Head(toNode[k]).payload = c

AcksPromise ==
    /\ \A c \in confirmed : InGoodHands(c)
    /\ \A k \in Sockets : \A i \in 1 .. Len(toClient[k]) : toClient[k][i].kind = "ack" =>
          \E c \in Texts : textSeq[c] = toClient[k][i].seq /\ InGoodHands(c)

InboundInv ==
    NodeInv /\ process = "up" /\ TextsNumbered /\ ProcessedIsHandled /\ AcksPromise

\* Only sendMessage() numbers texts.
TextsMove ==
    \/ UNCHANGED <<pageVars, typed>>
    \/ \E k \in Sockets, c \in Texts : SendText(k, c)

\* Every frame of t is one of s, or one that keeps the promise itself.
FitsTexts(s, t) ==
    \A i \in 1 .. Len(t) : \/ \E j \in 1 .. Len(s) : t[i] = s[j]
                           \/ t[i].kind = "ack"
                           \/ t[i].payload \in Texts /\ textSeq'[t[i].payload] = t[i].seq

FitsAcks(s, t) ==
    \A i \in 1 .. Len(t) :
        \/ \E j \in 1 .. Len(s) : t[i] = s[j]
        \/ t[i].kind = "msg"
        \/ \E c \in Texts : textSeq'[c] = t[i].seq /\ InGoodHands(c)'

\* A text in good hands stays there: its handler keeps it or is done with it, or
\* ends with it.
HandsKeep ==
    /\ handled \subseteq handled'
    /\ \A k \in Sockets : pc[k] = "processing" =>
          \/ pc'[k] = "processing" /\ Head(toNode'[k]) = Head(toNode[k])
          \/ Head(toNode[k]).payload \in handled'

\* What a step of the node does to the promise.
PromiseStep ==
    /\ process' = "up"
    /\ TextsMove
    /\ HandsKeep
    /\ \A k \in Sockets : FitsTexts(toNode[k], toNode'[k]) /\ FitsAcks(toClient[k], toClient'[k])
    /\ \A c \in confirmed' : c \in confirmed \/ InGoodHands(c)'

LEMMA SeqsStay ==
    ASSUME InboundInv, TextsMove
    PROVE  /\ \A c \in Texts : textSeq[c] # 0 => textSeq'[c] = textSeq[c]
           /\ \A n \in Seqs : HandledSeq(n) /\ handled \subseteq handled' => HandledSeq(n)'
<1>1. \A c \in Texts : textSeq[c] # 0 => textSeq'[c] = textSeq[c]
  BY DEF TextsMove, SendText, InboundInv, TextsNumbered, NodeInv, TypeOK, pageVars
<1>2. \A n \in Seqs : n # 0
  BY MaxSeqAssumption DEF Seqs
<1>. QED
  BY <1>1, <1>2 DEF HandledSeq

LEMMA NumberedKept ==
    ASSUME InboundInv, TextsMove, \A k \in Sockets : FitsTexts(toNode[k], toNode'[k])
    PROVE  TextsNumbered'
<1>1. /\ \A c \in Texts : textSeq'[c] # 0 => c \in typed' /\ textSeq'[c] < pageNext'
      /\ \A c, d \in Texts : textSeq'[c] # 0 /\ textSeq'[c] = textSeq'[d] => c = d
  <2>1. CASE UNCHANGED <<pageVars, typed>>
    BY <2>1 DEF InboundInv, TextsNumbered, pageVars
  <2>2. CASE \E k \in Sockets, c \in Texts : SendText(k, c)
    <3>1. PICK k \in Sockets, c \in Texts : SendText(k, c)
      BY <2>2
    <3>2. /\ textSeq' = [textSeq EXCEPT ![c] = pageNext] /\ typed' = typed \cup {c}
          /\ pageNext' = pageNext + 1 /\ pageNext \in Nat /\ textSeq \in [Texts -> 0 .. MaxSeq]
      BY <3>1, MaxSeqAssumption DEF SendText, InboundInv, NodeInv, TypeOK
    <3>3. \A d \in Texts : textSeq[d] \in Nat
      BY <3>2
    <3>. QED
      BY <3>2, <3>3 DEF InboundInv, TextsNumbered
  <2>. QED
    BY <2>1, <2>2 DEF TextsMove
<1>2. ASSUME NEW k \in Sockets, NEW i \in 1 .. Len(toNode'[k]), toNode'[k][i].kind = "msg"
      PROVE  /\ toNode'[k][i].payload \in Texts
             /\ textSeq'[toNode'[k][i].payload] = toNode'[k][i].seq
  <2>1. CASE \E j \in 1 .. Len(toNode[k]) : toNode'[k][i] = toNode[k][j]
    <3>1. PICK j \in 1 .. Len(toNode[k]) : toNode'[k][i] = toNode[k][j]
      BY <2>1
    <3>2. toNode[k][j] \in Frames
      BY DEF InboundInv, NodeInv, TypeOK
    <3>3. toNode[k][j].seq # 0
      BY <3>2, FrameType, MaxSeqAssumption DEF Seqs
    <3>4. toNode[k][j].payload \in Texts /\ textSeq[toNode[k][j].payload] = toNode[k][j].seq
      BY <1>2, <3>1 DEF InboundInv, TextsNumbered
    <3>. QED
      BY <3>1, <3>3, <3>4, SeqsStay
  <2>2. CASE ~ \E j \in 1 .. Len(toNode[k]) : toNode'[k][i] = toNode[k][j]
    BY <1>2, <2>2 DEF FitsTexts
  <2>. QED
    BY <2>1, <2>2
<1>. QED
  BY <1>1, <1>2 DEF TextsNumbered

LEMMA HandsStay ==
    ASSUME HandsKeep
    PROVE  \A c : InGoodHands(c) => InGoodHands(c)'
  BY DEF HandsKeep, InGoodHands

LEMMA PromiseKept ==
    ASSUME InboundInv, PromiseStep
    PROVE  AcksPromise'
<1>1. \A c : InGoodHands(c) => InGoodHands(c)'
  BY HandsStay DEF PromiseStep
<1>2. \A c \in confirmed' : InGoodHands(c)'
  BY <1>1 DEF PromiseStep, InboundInv, AcksPromise
<1>3. ASSUME NEW k \in Sockets, NEW i \in 1 .. Len(toClient'[k]), toClient'[k][i].kind = "ack"
      PROVE  \E c \in Texts : textSeq'[c] = toClient'[k][i].seq /\ InGoodHands(c)'
  <2>1. CASE \E j \in 1 .. Len(toClient[k]) : toClient'[k][i] = toClient[k][j]
    <3>1. PICK j \in 1 .. Len(toClient[k]) : toClient'[k][i] = toClient[k][j]
      BY <2>1
    <3>2. toClient[k][j] \in Frames
      BY DEF InboundInv, NodeInv, TypeOK
    <3>3. toClient[k][j].seq # 0
      BY <3>2, FrameType, MaxSeqAssumption DEF Seqs
    <3>4. PICK c \in Texts : textSeq[c] = toClient[k][j].seq /\ InGoodHands(c)
      BY <1>3, <3>1 DEF InboundInv, AcksPromise
    <3>5. textSeq'[c] = textSeq[c]
      BY <3>3, <3>4, SeqsStay DEF PromiseStep
    <3>. QED
      BY <1>1, <3>1, <3>4, <3>5
  <2>2. CASE ~ \E j \in 1 .. Len(toClient[k]) : toClient'[k][i] = toClient[k][j]
    BY <1>3, <2>2 DEF PromiseStep, FitsAcks
  <2>. QED
    BY <2>1, <2>2
<1>. QED
  BY <1>2, <1>3 DEF AcksPromise

\* The ways in which a channel changes.
LEMMA ChannelFits ==
    ASSUME NEW s \in Seq(Frames)
    PROVE  /\ FitsTexts(s, s) /\ FitsTexts(s, <<>>) /\ FitsAcks(s, s) /\ FitsAcks(s, <<>>)
           /\ s # <<>> => FitsTexts(s, Tail(s)) /\ FitsAcks(s, Tail(s))
           /\ \A n \in 0 .. Len(s) : FitsTexts(s, SubSeq(s, 1, n))
           /\ \A f \in Frames :
                 /\ f.kind = "ack" \/ (f.payload \in Texts /\ textSeq'[f.payload] = f.seq)
                       => FitsTexts(s, Append(s, f))
                 /\ f.kind = "msg" \/ (\E c \in Texts : textSeq'[c] = f.seq /\ InGoodHands(c)')
                       => FitsAcks(s, Append(s, f))
<1>1. FitsTexts(s, s) /\ FitsTexts(s, <<>>) /\ FitsAcks(s, s) /\ FitsAcks(s, <<>>)
  BY DEF FitsTexts, FitsAcks
<1>2. s # <<>> => FitsTexts(s, Tail(s)) /\ FitsAcks(s, Tail(s))
  BY FrameIndexes DEF FitsTexts, FitsAcks
<1>3. \A n \in 0 .. Len(s) : FitsTexts(s, SubSeq(s, 1, n))
  BY FrameIndexes DEF FitsTexts
<1>4. ASSUME NEW f \in Frames,
             f.kind = "ack" \/ (f.payload \in Texts /\ textSeq'[f.payload] = f.seq)
      PROVE  FitsTexts(s, Append(s, f))
  BY <1>4, FrameIndexes DEF FitsTexts
<1>5. ASSUME NEW f \in Frames,
             f.kind = "msg" \/ (\E c \in Texts : textSeq'[c] = f.seq /\ InGoodHands(c)')
      PROVE  FitsAcks(s, Append(s, f))
  BY <1>5, FrameIndexes DEF FitsAcks
<1>. QED
  BY <1>1, <1>2, <1>3, <1>4, <1>5

\* A frame written to a connection, or to nothing.
LEMMA WrittenAcks ==
    ASSUME toClient \in [Sockets -> Seq(Frames)],
           NEW k \in Sockets \cup {NoSocket}, NEW f \in Frames, toClient' = Written(k, f),
           f.kind = "msg" \/ (\E c \in Texts : textSeq'[c] = f.seq /\ InGoodHands(c)')
    PROVE  \A j \in Sockets : FitsAcks(toClient[j], toClient'[j])
<1>1. TAKE j \in Sockets
<1>2. toClient[j] \in Seq(Frames)
  OBVIOUS
<1>3. toClient'[j] \in {toClient[j], Append(toClient[j], f)}
  BY DEF Written
<1>. QED
  BY <1>2, <1>3, ChannelFits

\* The steps that leave the handlers and what they read alone.
LEMMA QuietPromise ==
    ASSUME InboundInv, process' = "up",
           UNCHANGED <<pageVars, typed, toNode, confirmed, handled>>,
           \A k \in Sockets : pc[k] = "processing" => pc'[k] = "processing",
           \A k \in Sockets : FitsAcks(toClient[k], toClient'[k])
    PROVE  PromiseStep
<1>1. \A k \in Sockets : toNode[k] \in Seq(Frames)
  BY DEF InboundInv, NodeInv, TypeOK
<1>2. \A k \in Sockets : FitsTexts(toNode[k], toNode'[k])
  BY <1>1, ChannelFits
<1>3. HandsKeep
  BY DEF HandsKeep
<1>. QED
  BY <1>2, <1>3 DEF PromiseStep, TextsMove

LEMMA SameAcks ==
    ASSUME InboundInv, UNCHANGED toClient
    PROVE  \A k \in Sockets : FitsAcks(toClient[k], toClient'[k])
<1>1. \A k \in Sockets : toClient[k] \in Seq(Frames)
  BY DEF InboundInv, NodeInv, TypeOK
<1>. QED
  BY <1>1, ChannelFits

\* One channel to the node changes, the others stay as they are.
LEMMA OneChannel ==
    ASSUME InboundInv, NEW k \in Sockets, NEW s,
           toNode' = [toNode EXCEPT ![k] = s], FitsTexts(toNode[k], s)
    PROVE  \A j \in Sockets : FitsTexts(toNode[j], toNode'[j])
<1>1. TAKE j \in Sockets
<1>2. toNode \in [Sockets -> Seq(Frames)] /\ toNode[j] \in Seq(Frames)
  BY DEF InboundInv, NodeInv, TypeOK
<1>. QED
  BY <1>2, ChannelFits

LEMMA PagePromise ==
    ASSUME InboundMode, InboundInv, NEW k \in Sockets, Page(k) \/ Lose(k) \/ Evict(k)
    PROVE  PromiseStep
<1>. /\ process = "up" /\ NodeInv /\ toClient \in [Sockets -> Seq(Frames)]
     /\ toNode \in [Sockets -> Seq(Frames)] /\ textSeq \in [Texts -> 0 .. MaxSeq]
  BY DEF InboundInv, NodeInv, TypeOK
<1>. toClient[k] \in Seq(Frames) /\ toNode[k] \in Seq(Frames)
  OBVIOUS
<1>1. CASE Connect(k)
  <2>1. \A j \in Sockets : FitsAcks(toClient[j], toClient'[j])
    BY <1>1, ChannelFits DEF Connect
  <2>2. \A j \in Sockets : pc[j] = "processing" => pc'[j] = "processing"
    BY <1>1 DEF Connect, NodeInv, TypeOK
  <2>. QED
    BY <1>1, <2>1, <2>2, QuietPromise DEF Connect, InboundMode, history
<1>2. CASE Lose(k) \/ Evict(k)
  <2>1. Break(k)
    BY <1>2 DEF Lose, Evict
  <2>2. PICK n \in Arrived(k) .. Len(toNode[k]) : toNode' = [toNode EXCEPT ![k] = SubSeq(@, 1, n)]
    BY <2>1 DEF Break
  <2>3. n \in 0 .. Len(toNode[k]) /\ (pc[k] = "processing" => n > 0)
    BY DEF Arrived
  <2>4. /\ FitsTexts(toNode[k], SubSeq(toNode[k], 1, n)) /\ FitsAcks(toClient[k], <<>>)
        /\ n > 0 => Head(SubSeq(toNode[k], 1, n)) = Head(toNode[k])
    BY <2>3, ChannelFits, PrefixFrames
  <2>5. \A j \in Sockets : FitsTexts(toNode[j], toNode'[j])
    BY <2>2, <2>4, OneChannel
  <2>6. \A j \in Sockets : FitsAcks(toClient[j], toClient'[j])
    BY <2>1, <2>4, ChannelFits DEF Break
  <2>7. HandsKeep
    BY <2>1, <2>2, <2>3, <2>4 DEF HandsKeep, Break, history
  <2>. QED
    BY <2>1, <2>5, <2>6, <2>7 DEF PromiseStep, TextsMove, Break, pageVars, history
<1>3. CASE ReceiveMessage(k)
  <2>. DEFINE f == Ack(Head(toClient[k]).seq)
  <2>1. toClient[k] # <<>> /\ toNode' = [toNode EXCEPT ![k] = Append(@, f)]
        /\ toClient' = [toClient EXCEPT ![k] = Tail(@)]
        /\ UNCHANGED <<nodeVars, pageVars, typed, confirmed, handled>>
    BY <1>3 DEF ReceiveMessage
  <2>2. f \in Frames /\ f.kind = "ack"
    BY <2>1, HeadTailProperties, FrameType DEF Ack
  <2>. HIDE DEF f
  <2>3. /\ FitsTexts(toNode[k], Append(toNode[k], f)) /\ FitsAcks(toClient[k], Tail(toClient[k]))
        /\ toNode[k] # <<>> => Head(Append(toNode[k], f)) = Head(toNode[k])
    BY <2>1, <2>2, ChannelFits, AppendFrame
  <2>4. \A j \in Sockets : FitsTexts(toNode[j], toNode'[j])
    BY <2>1, <2>3, OneChannel
  <2>5. \A j \in Sockets : FitsAcks(toClient[j], toClient'[j])
    BY <2>1, <2>3, ChannelFits
  <2>6. HandsKeep
    BY <2>1, <2>3 DEF HandsKeep, nodeVars, NodeInv, ProcessingHandlersHaveText
  <2>. QED
    BY <2>1, <2>4, <2>5, <2>6 DEF PromiseStep, TextsMove, nodeVars
<1>4. CASE ReceiveAck(k)
  <2>1. /\ toClient[k] # <<>> /\ Head(toClient[k]).kind = "ack"
        /\ toClient' = [toClient EXCEPT ![k] = Tail(@)]
        /\ confirmed' = confirmed \cup {c \in Texts : textSeq[c] = Head(toClient[k]).seq}
        /\ UNCHANGED <<nodeVars, toNode, pageVars, typed, handled>>
    BY <1>4 DEF ReceiveAck
  <2>2. PICK j \in 1 .. Len(toClient[k]) : Head(toClient[k]) = toClient[k][j]
    BY <2>1, FrameIndexes
  <2>3. toClient[k][j].seq \in Seqs /\ toClient[k][j].seq # 0
    BY FrameType, MaxSeqAssumption DEF Seqs
  <2>4. PICK d \in Texts : textSeq[d] = toClient[k][j].seq /\ InGoodHands(d)
    BY <2>1, <2>2 DEF InboundInv, AcksPromise
  <2>5. \A c \in Texts : textSeq[c] = Head(toClient[k]).seq => c = d
    BY <2>2, <2>3, <2>4 DEF InboundInv, TextsNumbered
  <2>6. HandsKeep
    BY <2>1 DEF HandsKeep, nodeVars
  <2>7. \A c \in confirmed' : c \in confirmed \/ InGoodHands(c)'
    BY <2>1, <2>4, <2>5, <2>6, HandsStay
  <2>8. \A i \in Sockets : FitsTexts(toNode[i], toNode'[i]) /\ FitsAcks(toClient[i], toClient'[i])
    BY <2>1, ChannelFits
  <2>. QED
    BY <2>1, <2>6, <2>7, <2>8 DEF PromiseStep, TextsMove, nodeVars
<1>5. ASSUME NEW c \in Texts, SendText(k, c) \/ ResendText(k, c)
      PROVE  PromiseStep
  <2>. DEFINE f == Msg(textSeq'[c], c)
  <2>1. /\ toNode' = [toNode EXCEPT ![k] = Append(@, f)]
        /\ UNCHANGED <<nodeVars, toClient, confirmed, handled>> /\ TextsMove
        /\ textSeq'[c] \in Seqs
    <3>1. CASE SendText(k, c)
      <4>1. TextsMove
        BY <3>1 DEF TextsMove
      <4>2. textSeq'[c] = pageNext /\ pageNext \in Seqs
        BY <3>1, MaxSeqAssumption DEF SendText, NodeInv, TypeOK, Seqs
      <4>. QED
        BY <3>1, <4>1, <4>2 DEF SendText
    <3>2. CASE ResendText(k, c)
      BY <1>5, <3>2, MaxSeqAssumption DEF ResendText, TextsMove, NodeInv, TypeOK, Seqs, pageVars, history
    <3>. QED
      BY <1>5, <3>1, <3>2
  <2>2. f \in Frames /\ f.payload \in Texts /\ textSeq'[f.payload] = f.seq
    BY <2>1, FrameType DEF Msg, Payloads
  <2>. HIDE DEF f
  <2>3. /\ FitsTexts(toNode[k], Append(toNode[k], f))
        /\ toNode[k] # <<>> => Head(Append(toNode[k], f)) = Head(toNode[k])
    BY <2>2, ChannelFits, AppendFrame
  <2>4. \A j \in Sockets : FitsTexts(toNode[j], toNode'[j])
    BY <2>1, <2>3, OneChannel
  <2>5. \A j \in Sockets : FitsAcks(toClient[j], toClient'[j])
    BY <2>1, SameAcks
  <2>6. HandsKeep
    BY <2>1, <2>3 DEF HandsKeep, nodeVars, NodeInv, ProcessingHandlersHaveText
  <2>. QED
    BY <2>1, <2>4, <2>5, <2>6 DEF PromiseStep, nodeVars
<1>. QED
  BY <1>1, <1>2, <1>3, <1>4, <1>5 DEF Page

LEMMA AckTextPromise ==
    ASSUME InboundInv, NEW k \in Sockets, AckText(k)
    PROVE  PromiseStep
<1>. DEFINE f == Head(toNode[k])
<1>1. /\ process' = "up" /\ toNode[k] # <<>> /\ f.kind = "msg" /\ toClient' = Written(k, Ack(f.seq))
      /\ pc' = [pc EXCEPT ![k] = "processing"]
      /\ UNCHANGED <<pageVars, typed, toNode, confirmed, handled>>
  BY DEF AckText, Reading, InboundInv, history
<1>2. toClient \in [Sockets -> Seq(Frames)] /\ toNode[k] \in Seq(Frames) /\ pc \in [Sockets -> Stages]
  BY DEF InboundInv, NodeInv, TypeOK
<1>3. PICK j \in 1 .. Len(toNode[k]) : f = toNode[k][j]
  BY <1>1, <1>2, FrameIndexes
<1>4. f \in Frames
  BY <1>2, <1>3
<1>5. PICK c \in Texts : c = f.payload /\ textSeq[c] = f.seq
  BY <1>1, <1>2, <1>3 DEF InboundInv, TextsNumbered
<1>6. InGoodHands(c)'
  BY <1>1, <1>2, <1>5 DEF InGoodHands
<1>7. /\ Ack(f.seq) \in Frames /\ textSeq'[c] = Ack(f.seq).seq
      /\ toClient' = Written(k, Ack(f.seq))
  BY <1>1, <1>4, <1>5, FrameType DEF Ack, pageVars
<1>8. \A i \in Sockets : FitsAcks(toClient[i], toClient'[i])
  <2>. DEFINE g == Ack(f.seq)
  <2>1. g \in Frames /\ toClient' = Written(k, g) /\ textSeq'[c] = g.seq
    BY <1>7
  <2>. HIDE DEF g
  <2>. QED
    BY <1>2, <1>6, <2>1, WrittenAcks
<1>9. \A i \in Sockets : pc[i] = "processing" => pc'[i] = "processing"
  BY <1>1, <1>2
<1>. QED
  BY <1>1, <1>8, <1>9, QuietPromise

LEMMA ProcessTextPromise ==
    ASSUME InboundInv, NEW k \in Sockets, ProcessText(k)
    PROVE  PromiseStep
<1>. DEFINE f == Head(toNode[k])
<1>1. /\ process' = "up" /\ toNode' = [toNode EXCEPT ![k] = Tail(@)] /\ pc[k] = "processing"
      /\ pc' = [pc EXCEPT ![k] = "reading"]
      /\ UNCHANGED <<pageVars, typed, toClient, confirmed>>
  BY DEF ProcessText, InboundInv
<1>2. toNode[k] \in Seq(Frames) /\ toNode \in [Sockets -> Seq(Frames)] /\ NodeInv
  BY DEF InboundInv, NodeInv, TypeOK
<1>3. /\ Loaded /\ session \in Session /\ f.seq \in Seqs /\ f.kind = "msg" /\ toNode[k] # <<>>
      /\ \/ ~ShouldProcessInbound(session, f.seq) /\ UNCHANGED handled
         \/ handled' = handled \cup {f.payload}
  BY <1>2, TextQueues
<1>4. PICK j \in 1 .. Len(toNode[k]) : f = toNode[k][j]
  BY <1>2, <1>3, FrameIndexes
<1>5. f.payload \in Texts /\ textSeq[f.payload] = f.seq
  BY <1>3, <1>4 DEF InboundInv, TextsNumbered
<1>. HIDE DEF f
<1>6. f.payload \in handled'
  <2>1. CASE ~ShouldProcessInbound(session, f.seq) /\ UNCHANGED handled
    <3>1. HandledSeq(f.seq)
      BY <1>3, <2>1, ShouldProcessProperty DEF InboundInv, ProcessedIsHandled
    <3>2. PICK c \in handled \cap Texts : textSeq[c] = f.seq
      BY <3>1 DEF HandledSeq
    <3>3. f.seq # 0
      BY <1>3, MaxSeqAssumption DEF Seqs
    <3>4. c = f.payload
      BY <1>5, <3>2, <3>3 DEF InboundInv, TextsNumbered
    <3>. QED
      BY <2>1, <3>2, <3>4
  <2>. QED
    BY <1>3, <2>1
<1>7. HandsKeep
  BY <1>1, <1>2, <1>3, <1>6 DEF HandsKeep, f, NodeInv, TypeOK
<1>8. \A i \in Sockets : FitsTexts(toNode[i], toNode'[i])
  BY <1>1, <1>2, <1>3, ChannelFits, OneChannel
<1>. QED
  BY <1>1, <1>7, <1>8, SameAcks DEF PromiseStep, TextsMove

LEMMA HandlerPromise ==
    ASSUME InboundInv, NEW k \in Sockets, Handler(k)
    PROVE  PromiseStep
<1>. /\ NodeInv /\ toClient \in [Sockets -> Seq(Frames)] /\ toNode \in [Sockets -> Seq(Frames)]
     /\ pc \in [Sockets -> Stages] /\ toNode[k] \in Seq(Frames)
  BY DEF InboundInv, NodeInv, TypeOK
<1>1. CASE \/ Hello(k) \/ LoadSession(k) \/ LoadOutbox(k) \/ LoadLog(k) \/ Install(k)
           \/ StartReplay(k) \/ ReplayDone(k)
  <2>1. /\ process' = "up"
        /\ UNCHANGED <<pageVars, typed, toNode, toClient, confirmed, handled>>
    BY <1>1 DEF Hello, LoadSession, LoadOutbox, LoadLog, Install, StartReplay, ReplayDone, InboundInv,
       netVars, history
  <2>2. \A j \in Sockets : pc[j] = "processing" => pc'[j] = "processing"
    BY <1>1 DEF Hello, LoadSession, LoadOutbox, LoadLog, Install, StartReplay, ReplayDone
  <2>. QED
    BY <2>1, <2>2, SameAcks, QuietPromise
<1>2. CASE ReplayOne(k)
  <2>1. PICK n \in Seqs : rows[k][n] # NoPayload /\ toClient' = Written(k, Msg(n, rows[k][n]))
    BY <1>2 DEF ReplayOne
  <2>. DEFINE f == Msg(n, rows[k][n])
  <2>2. f \in Frames /\ f.kind = "msg"
    BY <2>1, FrameType DEF Msg, NodeInv, TypeOK, Buffer
  <2>3. toClient' = Written(k, f)
    BY <2>1
  <2>. HIDE DEF f
  <2>4. \A j \in Sockets : FitsAcks(toClient[j], toClient'[j])
    BY <2>2, <2>3, WrittenAcks
  <2>5. process' = "up" /\ UNCHANGED <<pc, pageVars, typed, toNode, confirmed, handled>>
    BY <1>2 DEF ReplayOne, InboundInv, history
  <2>. QED
    BY <2>4, <2>5, QuietPromise
<1>3. CASE HandshakeFails(k) \/ Cleanup(k) \/ FanoutFails(k)
  <2>1. /\ process' = "up" /\ toNode' = [toNode EXCEPT ![k] = <<>>]
        /\ pc' = [pc EXCEPT ![k] = "idle"]
        /\ toClient' = toClient \/ toClient' = [toClient EXCEPT ![k] = <<>>]
        /\ UNCHANGED <<pageVars, typed, confirmed>>
    BY <1>3 DEF HandshakeFails, Cleanup, FanoutFails, TaskEnds, InboundInv, history
  <2>2. /\ handled \subseteq handled'
        /\ pc[k] = "processing" => Head(toNode[k]).payload \in handled'
    BY <1>3 DEF HandshakeFails, Cleanup, FanoutFails, InHand, history
  <2>3. \A j \in Sockets : FitsTexts(toNode[j], toNode'[j])
    BY <2>1, ChannelFits, OneChannel
  <2>4. \A j \in Sockets : FitsAcks(toClient[j], toClient'[j])
    BY <2>1, ChannelFits
  <2>5. HandsKeep
    BY <2>1, <2>2 DEF HandsKeep
  <2>. QED
    BY <2>1, <2>3, <2>4, <2>5 DEF PromiseStep, TextsMove
<1>4. CASE HandleAckFrame(k)
  <2>1. /\ process' = "up" /\ toNode' = [toNode EXCEPT ![k] = Tail(@)] /\ toNode[k] # <<>>
        /\ pc[k] # "processing" /\ UNCHANGED <<pc, toClient, pageVars, typed, confirmed, handled>>
    BY <1>4 DEF HandleAckFrame, Reading, InboundInv
  <2>2. \A j \in Sockets : FitsTexts(toNode[j], toNode'[j])
    BY <2>1, ChannelFits, OneChannel
  <2>3. HandsKeep
    BY <2>1 DEF HandsKeep
  <2>. QED
    BY <2>1, <2>2, <2>3, SameAcks DEF PromiseStep, TextsMove
<1>. QED
  BY <1>1, <1>2, <1>3, <1>4, AckTextPromise, ProcessTextPromise DEF Handler, Handshake

LEMMA NextPromise ==
    ASSUME InboundMode, InboundInv, [Next]_vars
    PROVE  PromiseStep
<1>. /\ NodeInv /\ toClient \in [Sockets -> Seq(Frames)] /\ process = "up"
  BY DEF InboundInv, NodeInv, TypeOK
<1>1. ASSUME NEW p \in Outgoing, Broadcast(p)
      PROVE  PromiseStep
  <2>1. session.next \in Seqs /\ p \in Payloads
    BY <1>1, BroadcastQueues
  <2>. DEFINE f == Msg(session.next, p)
  <2>2. f \in Frames /\ f.kind = "msg"
    BY <2>1, FrameType DEF Msg
  <2>3. toClient' = Written(registered, f)
    BY <1>1 DEF Broadcast
  <2>. HIDE DEF f
  <2>4. \A j \in Sockets : FitsAcks(toClient[j], toClient'[j])
    BY <2>2, <2>3, WrittenAcks DEF NodeInv, TypeOK
  <2>5. UNCHANGED <<process, pc, pageVars, typed, toNode, confirmed, handled>>
    BY <1>1 DEF Broadcast
  <2>. QED
    BY <2>4, <2>5, QuietPromise
<1>2. ASSUME NEW n \in Seqs, Retry(n)
      PROVE  PromiseStep
  <2>1. Loaded /\ session.outbox[n] # NoPayload /\ toClient' = Written(registered, Msg(n, session.outbox[n]))
    BY <1>2 DEF Retry
  <2>. DEFINE f == Msg(n, session.outbox[n])
  <2>2. f \in Frames /\ f.kind = "msg"
    BY <2>1, FrameType DEF Msg, NodeInv, TypeOK, Loaded, Session, Buffer
  <2>3. toClient' = Written(registered, f)
    BY <2>1
  <2>. HIDE DEF f
  <2>4. \A j \in Sockets : FitsAcks(toClient[j], toClient'[j])
    BY <2>2, <2>3, WrittenAcks DEF NodeInv, TypeOK
  <2>5. UNCHANGED <<process, pc, pageVars, typed, toNode, confirmed, handled>>
    BY <1>2 DEF Retry, nodeVars, history
  <2>. QED
    BY <2>4, <2>5, QuietPromise
<1>3. CASE Writer \/ UNCHANGED vars
  <2>1. UNCHANGED <<process, pc, pageVars, typed, toNode, toClient, confirmed, handled>>
    BY <1>3 DEF Writer, vars, nodeVars, netVars, history
  <2>. QED
    BY <2>1, SameAcks, QuietPromise
<1>4. ~Stop /\ ~StopStore /\ ~Exit /\ ~Crash /\ ~Restart
  BY DEF InboundMode, Stop, StopStore, Exit, Crash, Restart
<1>. QED
  BY <1>1, <1>2, <1>3, <1>4, PagePromise, HandlerPromise DEF Next

----------------------------------------------------------------------------
\* What is handled stays handled.
LEMMA HandledStays ==
    ASSUME InboundInv, PromiseStep
    PROVE  /\ \A n \in Seqs : HandledSeq(n) => HandledSeq(n)'
           /\ \A r \in SessionRow \cup Ops : (r \in SessionRow \/ SavesRow(r)) /\ RowHandled(r) => RowHandled(r)'
<1>1. \A n \in Seqs : HandledSeq(n) => HandledSeq(n)'
  BY SeqsStay DEF PromiseStep, HandsKeep
<1>2. ASSUME NEW r \in SessionRow \cup Ops, r \in SessionRow \/ SavesRow(r), RowHandled(r)
      PROVE  RowHandled(r)'
  <2>1. r.last \in 0 .. MaxSeq
    BY <1>2 DEF SessionRow, Ops, SavesRow
  <2>2. 1 .. r.last \subseteq Seqs
    BY <2>1, MaxSeqAssumption DEF Seqs
  <2>. QED
    BY <1>1, <1>2, <2>2 DEF RowHandled
<1>. QED
  BY <1>1, <1>2

\* The session, its row in what is queued, and the rows that were read.
LEMMA ProcessedKept ==
    ASSUME InboundInv, PromiseStep,
           Loaded' => \A n \in Processed(session') : HandledSeq(n)',
           \A k \in Sockets : row'[k] \in {row[k], disk.row, NoRow},
           \/ UNCHANGED storeVars
           \/ \E ops \in Seq(Ops) :
                 /\ Put(ops)
                 /\ \A i \in 1 .. Len(ops) :
                       SavesRow(ops[i]) => Loaded' /\ ops[i].last = session'.last
    PROVE  ProcessedIsHandled'
<1>1. /\ queue \in Seq(Ops) /\ staged.row \in SessionRow \cup {NoRow}
      /\ disk.row \in SessionRow \cup {NoRow}
      /\ \A k \in Sockets : row[k] \in SessionRow \cup {NoRow}
  BY DEF InboundInv, NodeInv, TypeOK, StoreTypeOK, Tables
<1>2. \A r, i : i \in 1 .. Len(queue) /\ r = queue[i] /\ SavesRow(r) => RowHandled(r)'
  BY <1>1, HandledStays DEF InboundInv, ProcessedIsHandled
<1>3. /\ \A r : r # NoRow /\ r \in {staged.row, disk.row} => RowHandled(r)'
      /\ \A r, k : k \in Sockets /\ r # NoRow /\ r = row[k] => RowHandled(r)'
  BY <1>1, HandledStays DEF InboundInv, ProcessedIsHandled
<1>4. /\ staged' = staged /\ disk' = disk
      /\ \A i \in 1 .. Len(queue') : SavesRow(queue'[i]) =>
             \/ \E j \in 1 .. Len(queue) : queue'[i] = queue[j]
             \/ Loaded' /\ queue'[i].last = session'.last
  <2>1. CASE UNCHANGED storeVars
    <3>1. queue' = queue /\ staged' = staged /\ disk' = disk
      BY <2>1 DEF storeVars
    <3>. QED
      BY <3>1
  <2>2. CASE ~ UNCHANGED storeVars
    <3>1. PICK ops \in Seq(Ops) :
              /\ Put(ops)
              /\ \A i \in 1 .. Len(ops) : SavesRow(ops[i]) => Loaded' /\ ops[i].last = session'.last
      BY <2>2
    <3>2. \A i \in 1 .. Len(queue') : \/ i \in 1 .. Len(queue) /\ queue'[i] = queue[i]
                                    \/ \E j \in 1 .. Len(ops) : queue'[i] = ops[j]
      BY <1>1, <3>1, PutEffect
    <3>3. staged' = staged /\ disk' = disk
      BY <3>1 DEF Put
    <3>. QED
      BY <3>1, <3>2, <3>3
  <2>. QED
    BY <2>1, <2>2
<1>5. ASSUME NEW i \in 1 .. Len(queue'), SavesRow(queue'[i])
      PROVE  RowHandled(queue[i])'
  <2>1. CASE \E j \in 1 .. Len(queue) : queue'[i] = queue[j]
    BY <1>2, <1>5, <2>1
  <2>2. CASE Loaded' /\ queue'[i].last = session'.last
    BY <2>2 DEF RowHandled, Processed
  <2>. QED
    BY <1>4, <1>5, <2>1, <2>2
<1>6. /\ staged'.row # NoRow => RowHandled(staged.row)'
      /\ disk'.row # NoRow => RowHandled(disk.row)'
      /\ \A k \in Sockets : row'[k] # NoRow => RowHandled(row[k])'
  BY <1>3, <1>4
<1>. QED
  BY <1>5, <1>6 DEF ProcessedIsHandled

LEMMA ProcessedWriter ==
    ASSUME InboundInv, PromiseStep, Writer
    PROVE  ProcessedIsHandled'
<1>1. /\ StoreTypeOK /\ queue \in Seq(Ops) /\ staged.row \in SessionRow \cup {NoRow}
      /\ disk.row \in SessionRow \cup {NoRow} /\ UNCHANGED <<session, row>>
      /\ \A k \in Sockets : row[k] \in SessionRow \cup {NoRow}
      /\ Loaded => Processed(session) \subseteq Seqs
  BY ProcessedType DEF InboundInv, NodeInv, TypeOK, StoreTypeOK, Tables, Writer, nodeVars, Loaded
<1>2. \A r, i : i \in 1 .. Len(queue) /\ r = queue[i] /\ SavesRow(r) => RowHandled(r)'
  BY <1>1, HandledStays DEF InboundInv, ProcessedIsHandled
<1>3. /\ \A r : r # NoRow /\ r \in {staged.row, disk.row} => RowHandled(r)'
      /\ \A r, k : k \in Sockets /\ r # NoRow /\ r = row[k] => RowHandled(r)'
  BY <1>1, HandledStays DEF InboundInv, ProcessedIsHandled
<1>4. Loaded' => \A n \in Processed(session') : HandledSeq(n)'
  BY <1>1, HandledStays DEF InboundInv, ProcessedIsHandled, Loaded
<1>5. /\ \A i \in 1 .. Len(queue') : \E j \in 1 .. Len(queue) : queue'[i] = queue[j]
      /\ \/ staged'.row \in {staged.row, disk.row}
         \/ \E j \in 1 .. Len(queue) : SavesRow(queue[j]) /\ staged'.row.last = queue[j].last
      /\ disk'.row \in {staged.row, disk.row}
  <2>1. CASE TakeOp
    <3>1. disk' = disk
      BY <2>1 DEF TakeOp
    <3>. QED
      BY <1>1, <2>1, <3>1, TakeEffect
  <2>2. CASE Flush \/ WriterError \/ WorkerExit
    <3>1. queue' = queue /\ staged' \in {staged, disk} /\ disk' \in {staged, disk}
      BY <2>2 DEF Flush, WriterError, WorkerExit
    <3>. QED
      BY <3>1
  <2>. QED
    BY <2>1, <2>2 DEF Writer, WriterStep
<1>6. ASSUME NEW i \in 1 .. Len(queue'), SavesRow(queue'[i])
      PROVE  RowHandled(queue[i])'
  BY <1>2, <1>5, <1>6
<1>7. ASSUME staged'.row # NoRow
      PROVE  RowHandled(staged.row)'
  <2>1. CASE staged'.row \in {staged.row, disk.row}
    BY <1>3, <1>7, <2>1
  <2>2. CASE \E j \in 1 .. Len(queue) : SavesRow(queue[j]) /\ staged'.row.last = queue[j].last
    <3>1. PICK j \in 1 .. Len(queue) : SavesRow(queue[j]) /\ staged'.row.last = queue[j].last
      BY <2>2
    <3>2. PICK r : r = queue[j]
      OBVIOUS
    <3>3. RowHandled(r)' /\ staged'.row.last = r.last
      BY <1>2, <3>1, <3>2
    <3>. QED
      BY <3>3 DEF RowHandled
  <2>. QED
    BY <1>5, <2>1, <2>2
<1>8. /\ disk'.row # NoRow => RowHandled(disk.row)'
      /\ \A k \in Sockets : row'[k] # NoRow => RowHandled(row[k])'
  BY <1>1, <1>3, <1>5
<1>. QED
  BY <1>4, <1>6, <1>7, <1>8 DEF ProcessedIsHandled

LEMMA HandlerProcessed ==
    ASSUME InboundInv, PromiseStep, NEW k \in Sockets, Handler(k)
    PROVE  ProcessedIsHandled'
<1>. /\ NodeInv /\ session \in Session \cup {NotLoaded}
     /\ row[k] \in SessionRow \cup {NoRow} /\ rows[k] \in Buffer
     /\ row \in [Sockets -> SessionRow \cup {NoRow}]
  BY DEF InboundInv, NodeInv, TypeOK
<1>0. /\ \A n \in Seqs : HandledSeq(n) => HandledSeq(n)'
      /\ Loaded => Processed(session) \subseteq Seqs /\ \A n \in Processed(session) : HandledSeq(n)'
  BY HandledStays, ProcessedType DEF Loaded, InboundInv, ProcessedIsHandled
<1>1. CASE Hello(k)
  <2>1. UNCHANGED <<storeVars, row>> /\ (session' = session \/ (Loaded /\ session' = ResetInbound(session)))
    BY <1>1 DEF Hello
  <2>2. Loaded' => Processed(session') \in {Processed(session), {}} /\ Loaded
    BY <2>1, ResetInboundType, FreshTracking DEF Loaded
  <2>. QED
    BY <1>0, <2>1, <2>2, ProcessedKept
<1>2. CASE LoadSession(k) \/ LoadOutbox(k) \/ LoadLog(k)
  <2>1. UNCHANGED <<storeVars, session>> /\ \A j \in Sockets : row'[j] \in {row[j], disk.row}
    BY <1>2 DEF LoadSession, LoadOutbox, LoadLog
  <2>. QED
    BY <1>0, <2>1, ProcessedKept DEF Loaded
<1>3. CASE Install(k)
  <2>1. /\ session' = Recovered(row[k], rows[k]) /\ UNCHANGED storeVars
        /\ \A j \in Sockets : row'[j] \in {row[j], NoRow}
    BY <1>3 DEF Install
  <2>2. ASSUME NEW n \in Processed(session')
        PROVE  HandledSeq(n)'
    <3>1. /\ row[k] # NoRow /\ n \in 1 .. row[k].last
      BY <2>1, <2>2 DEF Recovered, FreshSession, NewSession, Processed
    <3>2. n \in Seqs
      BY <3>1, MaxSeqAssumption DEF SessionRow, Seqs
    <3>. QED
      BY <1>0, <3>1, <3>2 DEF InboundInv, ProcessedIsHandled, RowHandled
  <2>. QED
    BY <2>1, <2>2, ProcessedKept
<1>4. CASE StartReplay(k)
  <2>1. Loaded /\ session' = ResetInbound(session) /\ UNCHANGED <<storeVars, row>>
    BY <1>4 DEF StartReplay, NodeInv, AttachedHandlersHaveSession
  <2>2. Processed(session') = {}
    BY <2>1, ResetInboundType, FreshTracking DEF Loaded
  <2>. QED
    BY <2>1, <2>2, ProcessedKept
<1>5. CASE HandleAckFrame(k)
  <2>. DEFINE n == Head(toNode[k]).seq
  <2>1. /\ Loaded /\ session \in Session /\ n \in Seqs /\ UNCHANGED row
        /\ \/ UNCHANGED <<session, storeVars>>
           \/ session' = HandleAck(session, n) /\ Put(<<DeleteOutbound(n)>>)
    BY <1>5, AckQueues DEF HandleAckFrame
  <2>. HIDE DEF n
  <2>2. CASE UNCHANGED <<session, storeVars>>
    BY <1>0, <2>1, <2>2, ProcessedKept DEF Loaded
  <2>3. CASE session' = HandleAck(session, n) /\ Put(<<DeleteOutbound(n)>>)
    <3>1. Processed(session') = Processed(session)
      BY <2>1, <2>3, HandleAckType DEF Processed
    <3>2. /\ <<DeleteOutbound(n)>> \in Seq(Ops)
          /\ \A i \in 1 .. Len(<<DeleteOutbound(n)>>) : ~SavesRow(<<DeleteOutbound(n)>>[i])
      BY <2>1, OpsType DEF SavesRow, DeleteOutbound
    <3>. QED
      BY <1>0, <2>1, <2>3, <3>1, <3>2, ProcessedKept
  <2>. QED
    BY <2>1, <2>2, <2>3
<1>6. CASE ProcessText(k) \/ FanoutFails(k)
  <2>. DEFINE f == Head(toNode[k])
  <2>1. /\ Loaded /\ session \in Session /\ f.seq \in Seqs /\ f.kind = "msg" /\ toNode[k] # <<>>
        /\ UNCHANGED row
        /\ \/ UNCHANGED <<session, storeVars>>
           \/ /\ Loaded' /\ Processed(session') = Processed(session) \cup {f.seq}
              /\ handled' = handled \cup {f.payload}
              /\ \E ops \in Seq(Ops) :
                    /\ Put(ops) /\ Len(ops) = 2
                    /\ ops[1] = SaveMessageLog(f.seq, f.payload)
                    /\ ops[2] = SaveSession(session')
    BY <1>6, TextQueues DEF ProcessText, FanoutFails
  <2>2. PICK j \in 1 .. Len(toNode[k]) : f = toNode[k][j]
    BY <2>1, FrameIndexes DEF NodeInv, TypeOK
  <2>3. f.payload \in Texts /\ textSeq'[f.payload] = f.seq
    BY <1>6, <2>1, <2>2 DEF InboundInv, TextsNumbered, ProcessText, FanoutFails, pageVars
  <2>4. PICK n, c : n = f.seq /\ c = f.payload
    OBVIOUS
  <2>. HIDE DEF f
  <2>5. CASE UNCHANGED <<session, storeVars>>
    BY <1>0, <2>1, <2>5, ProcessedKept DEF Loaded
  <2>6. CASE ~ UNCHANGED <<session, storeVars>>
    <3>1. c \in handled' \cap Texts /\ textSeq'[c] = n
      BY <2>1, <2>3, <2>4, <2>6
    <3>2. HandledSeq(n)'
      BY <3>1 DEF HandledSeq
    <3>3. \A i \in Processed(session') : HandledSeq(i)'
      BY <1>0, <2>1, <2>4, <2>6, <3>2
    <3>4. \E ops \in Seq(Ops) :
              /\ Put(ops)
              /\ \A i \in 1 .. Len(ops) : SavesRow(ops[i]) => Loaded' /\ ops[i].last = session'.last
      <4>1. PICK ops \in Seq(Ops) : /\ Put(ops) /\ Len(ops) = 2
                                    /\ ops[1] = SaveMessageLog(f.seq, f.payload)
                                    /\ ops[2] = SaveSession(session')
        BY <2>1, <2>6
      <4>2. \A i \in 1 .. Len(ops) : i = 1 \/ i = 2
        BY <4>1
      <4>. QED
        BY <2>1, <2>6, <4>1, <4>2 DEF SavesRow, SaveMessageLog, SaveSession
    <3>. QED
      BY <2>1, <3>3, <3>4, ProcessedKept
  <2>. QED
    BY <2>5, <2>6
<1>7. CASE \/ HandshakeFails(k) \/ ReplayOne(k) \/ ReplayDone(k) \/ AckText(k) \/ Cleanup(k)
  <2>1. UNCHANGED <<storeVars, session, row>>
    BY <1>7 DEF HandshakeFails, ReplayOne, ReplayDone, AckText, Cleanup
  <2>. QED
    BY <1>0, <2>1, ProcessedKept DEF Loaded
<1>. QED
  BY <1>1, <1>2, <1>3, <1>4, <1>5, <1>6, <1>7 DEF Handler, Handshake

LEMMA NextProcessed ==
    ASSUME InboundMode, InboundInv, PromiseStep, [Next]_vars
    PROVE  ProcessedIsHandled'
<1>. NodeInv /\ session \in Session \cup {NotLoaded} /\ process = "up"
  BY DEF InboundInv, NodeInv, TypeOK
<1>0. Loaded => \A n \in Processed(session) : HandledSeq(n)'
  BY HandledStays, ProcessedType DEF Loaded, InboundInv, ProcessedIsHandled
<1>1. ASSUME NEW p \in Outgoing, Broadcast(p)
      PROVE  ProcessedIsHandled'
  <2>1. /\ Loaded /\ session \in Session /\ Loaded' /\ p \in Payloads /\ session.next <= MaxSeq
        /\ session' = PrepareOutbound(session, p) /\ UNCHANGED row
    BY <1>1, BroadcastQueues DEF Broadcast
  <2>2. Processed(session') = Processed(session)
    BY <2>1, PrepareOutboundType DEF Processed
  <2>3. PICK ops \in Seq(Ops) : /\ Put(ops) /\ Len(ops) = 3
                                /\ ops[1] = SaveOutbound(session.next, p)
                                /\ ops[2] = SaveMessageLog(session.next, p)
                                /\ ops[3] = SaveSession(session')
    BY <1>1, BroadcastQueues
  <2>4. \A i \in 1 .. Len(ops) : i = 1 \/ i = 2 \/ i = 3
    BY <2>3
  <2>5. \A i \in 1 .. Len(ops) : SavesRow(ops[i]) => Loaded' /\ ops[i].last = session'.last
    BY <2>1, <2>3, <2>4 DEF SavesRow, SaveMessageLog, SaveSession, SaveOutbound
  <2>. QED
    BY <1>0, <2>1, <2>2, <2>3, <2>5, ProcessedKept
<1>2. ASSUME \/ \E k \in Sockets : Page(k) \/ Lose(k) \/ Evict(k)
             \/ \E n \in Seqs : Retry(n)
             \/ UNCHANGED vars
      PROVE  ProcessedIsHandled'
  <2>1. UNCHANGED <<storeVars, session, row>>
    BY <1>2 DEF Page, Connect, Lose, Evict, Break, ReceiveMessage, ReceiveAck, SendText,
       ResendText, Retry, vars, nodeVars
  <2>. QED
    BY <1>0, <2>1, ProcessedKept DEF Loaded
<1>3. ~Stop /\ ~StopStore /\ ~Exit /\ ~Crash /\ ~Restart
  BY DEF InboundMode, Stop, StopStore, Exit, Crash, Restart
<1>. QED
  BY <1>1, <1>2, <1>3, HandlerProcessed, ProcessedWriter DEF Next

LEMMA InitInbound == Init => InboundInv
<1>. SUFFICES ASSUME Init
              PROVE  InboundInv
  OBVIOUS
<1>1. TextsNumbered
  BY DEF Init, TextsNumbered
<1>2. ProcessedIsHandled
  BY DEF Init, StoreInit, EmptyTables, ProcessedIsHandled, Loaded
<1>3. AcksPromise
  BY DEF Init, AcksPromise
<1>. QED
  BY <1>1, <1>2, <1>3, InitNodeInv DEF InboundInv, Init

LEMMA NextInbound == InboundMode /\ InboundInv /\ [Next]_vars => InboundInv'
<1>. SUFFICES ASSUME InboundMode, InboundInv, [Next]_vars
              PROVE  InboundInv'
  OBVIOUS
<1>1. PromiseStep
  BY NextPromise
<1>2. NodeInv'
  BY NextNodeInv DEF InboundInv
<1>3. TextsNumbered' /\ AcksPromise' /\ process' = "up"
  BY <1>1, NumberedKept, PromiseKept DEF PromiseStep
<1>4. ProcessedIsHandled'
  BY <1>1, NextProcessed
<1>. QED
  BY <1>2, <1>3, <1>4 DEF InboundInv

\* While the process lives and the page is not reloaded, a text the page has
\* seen an ACK for has been relayed, or a handler holds it and will relay it, or a
\* failed write - of its own ACK or of the fan-out - ended the handler that held it:
\* although the node writes the ACK first and drops what it takes for a
\* duplicate, over any number of connections, resends and failing batches.
THEOREM AckedIsHandled == ASSUME InboundMode PROVE Spec => []ConfirmedIsHandled
<1>1. Spec => []InboundInv
  BY InitInbound, NextInbound, PTL DEF Spec
<1>2. InboundInv => ConfirmedIsHandled
  BY DEF InboundInv, AcksPromise, InGoodHands, ConfirmedIsHandled
<1>. QED
  BY <1>1, <1>2, PTL
=============================================================================
