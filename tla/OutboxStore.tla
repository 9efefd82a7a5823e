----------------------------- MODULE OutboxStore -----------------------------
(***************************************************************************)
(* node/persistence.py: the SQLite store behind a node, seen through the   *)
(* rows of one session.  The event loop only appends write operations to   *)
(* a queue; one writer thread takes them one by one into a batch and       *)
(* commits the batch when the flush interval has passed.  Reads go         *)
(* straight to the file and see committed rows only.                       *)
(*                                                                         *)
(* The batch is kept as its effect: staged is disk with the batch applied  *)
(* in order.  Only the writer thread writes these tables, so staged is     *)
(* exactly what _apply_batch would commit now.                             *)
(***************************************************************************)
EXTENDS SessionState, Sequences

CONSTANTS
    NoRow,          \* the session has no row in table sessions
    SqliteErrors    \* may a batch fail with sqlite3.Error (disk full, lock)?

VARIABLES
    queue,    \* _write_queue: operations not yet taken by the writer
    staged,   \* the tables as they would be with the current batch committed
    disk,     \* the committed tables
    worker    \* the writer thread

storeVars == <<queue, staged, disk, worker>>

SessionRow == [next : 1 .. MaxSeq + 1, last : 0 .. MaxSeq]

ASSUME StoreAssumption == SqliteErrors \in BOOLEAN /\ NoRow \notin SessionRow

Tables     == [row : SessionRow \cup {NoRow}, outbox : Buffer, log : Buffer]

EmptyTables == [row |-> NoRow, outbox |-> EmptyBuffer, log |-> EmptyBuffer]

----------------------------------------------------------------------------
\* The operations the session manager queues.

\* Faulty variant of the next line: the counter is advanced twice.
SaveSessionAhead(s)  == [kind |-> "save_session", next |-> s.next + 1, last |-> s.last]
SaveSession(s)       == [kind |-> "save_session", next |-> s.next, last |-> s.last]
SaveOutbound(n, p)   == [kind |-> "save_outbound", seq |-> n, payload |-> p]
DeleteOutbound(n)    == [kind |-> "delete_outbound", seq |-> n]
SaveMessageLog(n, p) == [kind |-> "save_message_log", seq |-> n, payload |-> p]

Ops == [kind : {"save_session"}, next : 1 .. MaxSeq + 1, last : 0 .. MaxSeq]
       \cup [kind : {"save_outbound", "save_message_log"}, seq : Seqs, payload : Payloads]
       \cup [kind : {"delete_outbound"}, seq : Seqs]

\* Faulty variant: INSERT OR REPLACE.
ReplaceOutbound(rows, n, p) == [rows EXCEPT ![n] = p]

\* INSERT ... ON CONFLICT DO UPDATE leaves the payload of an existing row alone.
InsertOutbound(rows, n, p) ==
    IF rows[n] = NoPayload THEN [rows EXCEPT ![n] = p] ELSE rows

\* One iteration of the loop of _apply_batch.
Apply(t, op) ==
    CASE op.kind = "save_session" ->
            [t EXCEPT !.row = [next |-> op.next, last |-> op.last]]
      [] op.kind = "save_outbound" ->
            [t EXCEPT !.outbox = InsertOutbound(@, op.seq, op.payload)]
      [] op.kind = "delete_outbound" ->
            [t EXCEPT !.outbox = [@ EXCEPT ![op.seq] = NoPayload]]
      [] op.kind = "save_message_log" ->
            [t EXCEPT !.log = [@ EXCEPT ![op.seq] = op.payload]]

----------------------------------------------------------------------------
StoreTypeOK ==
    /\ queue \in Seq(Ops)
    /\ staged \in Tables
    /\ disk \in Tables
    /\ worker \in {"running", "stopping", "stopped", "dead"}

StoreInit ==
    /\ queue = <<>>
    /\ staged = EmptyTables
    /\ disk = EmptyTables
    /\ worker = "running"

\* Faulty variant: new operations are taken first.
PutFirst(ops) ==
    /\ queue' = ops \o queue
    /\ UNCHANGED <<staged, disk, worker>>

\* The async write API: nothing but _write_queue.put, in call order.
Put(ops) ==
    /\ queue' = queue \o ops
    /\ UNCHANGED <<staged, disk, worker>>

WorkerAlive == worker \in {"running", "stopping"}

\* _write_queue.get and pending.append.
TakeOp ==
    /\ WorkerAlive
    /\ queue # <<>>
    /\ staged' = Apply(staged, Head(queue))
    /\ queue' = Tail(queue)
    /\ UNCHANGED <<disk, worker>>

\* Faulty variant: once told to stop, the writer commits no more.
FlushWhileRunning ==
    /\ worker = "running"
    /\ staged # disk
    /\ disk' = staged
    /\ UNCHANGED <<queue, staged, worker>>

\* should_flush: the batch is committed, wherever the queue has got to.
Flush ==
    /\ WorkerAlive
    /\ staged # disk
    /\ disk' = staged
    /\ UNCHANGED <<queue, staged, worker>>

\* sqlite3.Error in the batch: rollback, re-raise, and the thread is gone.
WriterError ==
    /\ SqliteErrors
    /\ WorkerAlive
    /\ staged # disk
    /\ staged' = disk
    /\ worker' = "dead"
    /\ UNCHANGED <<queue, disk>>

\* stop(): set the stop event and join.
StopWorker ==
    /\ worker' = IF worker = "running" THEN "stopping" ELSE worker
    /\ UNCHANGED <<queue, staged, disk>>

\* Faulty variant: the loop ends as soon as it is told to stop.
ExitAtOnce ==
    /\ worker = "stopping"
    /\ worker' = "stopped"
    /\ UNCHANGED <<queue, staged, disk>>

\* The loop ends once it is told to stop and has nothing left to write.
WorkerExit ==
    /\ worker = "stopping"
    /\ queue = <<>>
    /\ staged = disk
    /\ worker' = "stopped"
    /\ UNCHANGED <<queue, staged, disk>>

\* The process dies: what was not committed is gone.
StoreLost ==
    /\ queue' = <<>>
    /\ staged' = disk
    /\ worker' = "stopped"
    /\ UNCHANGED disk

\* start(): a new writer thread on the same file.
StartWorker ==
    /\ worker' = "running"
    /\ UNCHANGED <<queue, staged, disk>>

WriterStep == TakeOp \/ Flush \/ WriterError \/ WorkerExit
=============================================================================
