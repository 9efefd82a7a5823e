---------------------------- MODULE SessionState ----------------------------
(***************************************************************************)
(* node/session_state.py: the bookkeeping the node keeps for one client    *)
(* session, as operators on a session record                               *)
(*                                                                         *)
(*   next    _next_send_seq, the seq of the next outbound message          *)
(*   outbox  the unacked outbound messages, by seq                         *)
(*   last    last_processed_seq, the inbound low-water mark                *)
(*   seen    _seen_inbound_seqs, processed inbound seqs above the mark     *)
(*                                                                         *)
(* sent_at and retry_count only decide when a message is resent: time is   *)
(* abstracted, so any unacked message may be resent at any moment.         *)
(***************************************************************************)
EXTENDS Integers

CONSTANTS
    Outgoing,     \* messages other members of the room send to the session
    Texts,        \* messages the session's own user types
    MaxSeq,       \* bound: the largest seq either side uses
    NoPayload     \* "no entry under this seq"

ASSUME MaxSeqAssumption == MaxSeq \in Nat \ {0}
ASSUME PayloadAssumption ==
    NoPayload \notin Outgoing \cup Texts /\ Outgoing \cap Texts = {}

Payloads == Outgoing \cup Texts
Seqs     == 1 .. MaxSeq
Buffer   == [Seqs -> Payloads \cup {NoPayload}]   \* a dict from seq to payload

EmptyBuffer == [n \in Seqs |-> NoPayload]

Session == [next : 1 .. MaxSeq + 1, outbox : Buffer,
            last : 0 .. MaxSeq, seen : SUBSET Seqs]

\* SessionState(session_id, ...) followed by load_outbox_rows.
NewSession(next, last, rows) ==
    [next |-> next, outbox |-> rows, last |-> last, seen |-> {}]

FreshSession == NewSession(1, 0, EmptyBuffer)

----------------------------------------------------------------------------
\* Outbound: messages to the client.

PrepareOutbound(s, p) ==
    [s EXCEPT !.outbox = [@ EXCEPT ![s.next] = p], !.next = @ + 1]

\* Faulty variant: an ACK settles everything up to its seq.
HandleAckCumulative(s, n) ==
    [s EXCEPT !.outbox = [i \in Seqs |-> IF i <= n THEN NoPayload ELSE @[i]]]

HandleAck(s, n) == [s EXCEPT !.outbox = [@ EXCEPT ![n] = NoPayload]]

\* replay_from: what is buffered above seq n.  Whoever walks the result takes
\* the smallest seq first, which is the sorted() of the code.
ReplayFrom(s, n) ==
    [i \in Seqs |-> IF i > n THEN s.outbox[i] ELSE NoPayload]

----------------------------------------------------------------------------
\* Inbound: messages from the client.

\* Faulty variants: the set of seqs above the mark is not asked; a seq that
\* does not follow the mark is taken for a duplicate.
ShouldProcessAboveMark(s, n) == n > s.last
ShouldProcessInOrder(s, n)   == n = s.last + 1

ShouldProcessInbound(s, n) == ~(n <= s.last \/ n \in s.seen)

ResetInbound(s) == [s EXCEPT !.last = 0, !.seen = {}]

\* The while loop of mark_inbound_processed stops at the first gap: the mark
\* moves over the longest run of seen seqs that starts right above it.
Advanced(last, seen) ==
    CHOOSE m \in last .. MaxSeq :
        /\ (last + 1) .. m \subseteq seen
        /\ m + 1 \notin seen

\* Faulty variant: the mark jumps to the seq that was processed.
MarkInboundJumps(s, n) ==
    [s EXCEPT !.last = IF n > @ THEN n ELSE @, !.seen = @ \ (1 .. n)]

MarkInboundProcessed(s, n) ==
    LET seen == s.seen \cup {n}
        mark == Advanced(s.last, seen)
    IN  [s EXCEPT !.last = mark, !.seen = seen \ ((s.last + 1) .. mark)]

\* The inbound seqs the session counts as processed.
Processed(s) == (1 .. s.last) \cup s.seen
=============================================================================
