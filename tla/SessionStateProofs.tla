------------------------- MODULE SessionStateProofs -------------------------
(***************************************************************************)
(* What the operations of a session return: the lemmas the proofs about    *)
(* the node rest on.                                                       *)
(***************************************************************************)
EXTENDS SessionState, WellFoundedInduction, TLAPS

\* A set of natural numbers that is not empty has a smallest member.
LEMMA SmallestMember ==
    ASSUME NEW T, T \subseteq Nat, T # {}
    PROVE  \E m \in T : \A i \in T : m <= i
<1>. DEFINE Less == OpToRel(<, Nat)
<1>1. IsWellFoundedOn(Less, Nat)
  BY NatLessThanWellFounded
<1>2. \A i, m \in Nat : i < m => <<i, m>> \in Less
  BY DEF OpToRel
<1>. HIDE DEF Less
<1>3. PICK m \in T : \A i \in T : ~(<<i, m>> \in Less)
  BY <1>1, WFMin
<1>4. ASSUME NEW i \in T PROVE m <= i
  <2>1. i \in Nat /\ m \in Nat /\ ~(i < m)
    BY <1>2, <1>3
  <2>. QED
    BY <2>1
<1>. QED
  BY <1>4

\* The while loop of mark_inbound_processed stops: above the mark there is a
\* first seq that has not been seen, and the mark ends right below it.
LEMMA AdvancedProperty ==
    ASSUME NEW last \in 0 .. MaxSeq, NEW seen \in SUBSET Seqs
    PROVE  /\ Advanced(last, seen) \in last .. MaxSeq
           /\ (last + 1) .. Advanced(last, seen) \subseteq seen
           /\ Advanced(last, seen) + 1 \notin seen
<1>. USE MaxSeqAssumption DEF Seqs
<1>. DEFINE Gaps == {m \in last .. MaxSeq : m + 1 \notin seen}
<1>1. MaxSeq \in Gaps
  OBVIOUS
<1>2. PICK m \in Gaps : \A i \in Gaps : m <= i
  <2>1. Gaps \subseteq Nat /\ Gaps # {}
    BY <1>1
  <2>. HIDE DEF Gaps
  <2>. QED
    BY <2>1, SmallestMember
<1>3. (last + 1) .. m \subseteq seen
  <2>1. SUFFICES ASSUME NEW i \in (last + 1) .. m, i \notin seen
                 PROVE  FALSE
    OBVIOUS
  <2>2. i - 1 \in Gaps
    BY <2>1, <1>2
  <2>. QED
    BY <2>2, <1>2
<1>4. \E n \in last .. MaxSeq : (last + 1) .. n \subseteq seen /\ n + 1 \notin seen
  BY <1>2, <1>3
<1>. QED
  BY <1>4 DEF Advanced

----------------------------------------------------------------------------
\* A fresh session, and one rebuilt from its row, are sessions.
LEMMA NewSessionType ==
    /\ EmptyBuffer \in Buffer
    /\ FreshSession \in Session
    /\ \A next \in 1 .. MaxSeq + 1, last \in 0 .. MaxSeq, rows \in Buffer :
          NewSession(next, last, rows) \in Session
<1>. USE MaxSeqAssumption
<1>1. EmptyBuffer \in Buffer
  BY DEF EmptyBuffer, Buffer
<1>2. \A next \in 1 .. MaxSeq + 1, last \in 0 .. MaxSeq, rows \in Buffer :
          NewSession(next, last, rows) \in Session
  BY DEF NewSession, Session
<1>3. 1 \in 1 .. MaxSeq + 1 /\ 0 \in 0 .. MaxSeq
  OBVIOUS
<1>. QED
  BY <1>1, <1>2, <1>3 DEF FreshSession

\* prepare_outbound takes the next seq and leaves the inbound side alone.
LEMMA PrepareOutboundType ==
    ASSUME NEW s \in Session, NEW p \in Payloads, s.next <= MaxSeq
    PROVE  /\ s.next \in Seqs
           /\ PrepareOutbound(s, p) \in Session
           /\ PrepareOutbound(s, p).next = s.next + 1
           /\ PrepareOutbound(s, p).outbox = [s.outbox EXCEPT ![s.next] = p]
           /\ PrepareOutbound(s, p).last = s.last
           /\ PrepareOutbound(s, p).seen = s.seen
<1>1. s.next \in Seqs
  BY MaxSeqAssumption DEF Session, Seqs
<1>2. [s.outbox EXCEPT ![s.next] = p] \in Buffer
  BY <1>1 DEF Session, Buffer
<1>3. s.next + 1 \in 1 .. MaxSeq + 1
  BY <1>1, MaxSeqAssumption DEF Seqs
<1>. QED
  BY <1>1, <1>2, <1>3 DEF PrepareOutbound, Session

\* handle_ack touches the outbox only.
LEMMA HandleAckType ==
    ASSUME NEW s \in Session, NEW n \in Seqs
    PROVE  /\ HandleAck(s, n) \in Session
           /\ HandleAck(s, n).outbox = [s.outbox EXCEPT ![n] = NoPayload]
           /\ HandleAck(s, n).next = s.next
           /\ HandleAck(s, n).last = s.last
           /\ HandleAck(s, n).seen = s.seen
  BY DEF HandleAck, Session, Buffer

\* replay_from returns messages of the outbox under their own seqs.
LEMMA ReplayFromType ==
    ASSUME NEW s \in Session
    PROVE  ReplayFrom(s, 0) = s.outbox
<1>1. s.outbox \in [Seqs -> Payloads \cup {NoPayload}]
  BY DEF Session, Buffer
<1>2. \A i \in Seqs : i > 0
  BY MaxSeqAssumption DEF Seqs
<1>3. ReplayFrom(s, 0) = [i \in Seqs |-> s.outbox[i]]
  BY <1>2 DEF ReplayFrom
<1>. QED
  BY <1>1, <1>3

\* reset_inbound leaves the outbound side alone.
LEMMA ResetInboundType ==
    ASSUME NEW s \in Session
    PROVE  /\ ResetInbound(s) \in Session
           /\ ResetInbound(s).next = s.next
           /\ ResetInbound(s).outbox = s.outbox
           /\ ResetInbound(s).last = 0
           /\ ResetInbound(s).seen = {}
<1>1. 0 \in 0 .. MaxSeq /\ {} \in SUBSET Seqs
  BY MaxSeqAssumption
<1>. QED
  BY <1>1 DEF ResetInbound, Session

\* The session counts a seq as processed from the moment it is marked, and
\* every other seq as before; mark and set stay apart, with a gap between.
LEMMA MarkInboundProperty ==
    ASSUME NEW s \in Session, NEW n \in Seqs
    PROVE  LET t == MarkInboundProcessed(s, n)
           IN  /\ t \in Session
               /\ t.next = s.next /\ t.outbox = s.outbox
               /\ Processed(t) = Processed(s) \cup {n}
               /\ t.last + 1 \notin t.seen
               /\ s.seen \cap (1 .. s.last) = {} /\ n \notin 1 .. s.last
                     => t.seen \cap (1 .. t.last) = {}
<1>. DEFINE seen == s.seen \cup {n}
            mark == Advanced(s.last, seen)
            t    == MarkInboundProcessed(s, n)
<1>0. s.last \in 0 .. MaxSeq /\ seen \in SUBSET Seqs
  BY DEF Session
<1>1. /\ mark \in s.last .. MaxSeq
      /\ (s.last + 1) .. mark \subseteq seen
      /\ mark + 1 \notin seen
  <2>. HIDE DEF seen
  <2>. QED
    BY <1>0, AdvancedProperty
<1>2. t = [s EXCEPT !.last = mark, !.seen = seen \ ((s.last + 1) .. mark)]
  BY DEF MarkInboundProcessed
<1>3. /\ t \in Session /\ t.next = s.next /\ t.outbox = s.outbox
      /\ t.last = mark /\ t.seen = seen \ ((s.last + 1) .. mark)
  <2>1. mark \in 0 .. MaxSeq
    BY <1>0, <1>1, MaxSeqAssumption
  <2>2. seen \ ((s.last + 1) .. mark) \in SUBSET Seqs
    BY <1>0
  <2>. HIDE DEF mark, seen, t
  <2>. QED
    BY <1>2, <2>1, <2>2 DEF Session
<1>. HIDE DEF t, mark
<1>4. Processed(t) = Processed(s) \cup {n}
  BY <1>0, <1>1, <1>3, MaxSeqAssumption DEF Processed, Seqs
<1>5. t.last + 1 \notin t.seen
  BY <1>1, <1>3
<1>6. s.seen \cap (1 .. s.last) = {} /\ n \notin 1 .. s.last
         => t.seen \cap (1 .. t.last) = {}
  BY <1>0, <1>1, <1>3, MaxSeqAssumption DEF Seqs
<1>. QED
  BY <1>3, <1>4, <1>5, <1>6 DEF t

\* should_process_inbound answers whether the seq is not yet processed.
LEMMA ShouldProcessProperty ==
    ASSUME NEW s \in Session, NEW n \in Seqs
    PROVE  ShouldProcessInbound(s, n) <=> n \notin Processed(s)
  BY MaxSeqAssumption DEF ShouldProcessInbound, Processed, Session, Seqs
=============================================================================
