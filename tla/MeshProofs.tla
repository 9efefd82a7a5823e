----------------------------- MODULE MeshProofs -----------------------------
(***************************************************************************)
(* The mesh, for any set of nodes, links and messages, any capacity of the *)
(* connections and any number of faults.  The invariants build on each     *)
(* other: the links and their registration, the frames on them and the     *)
(* floods, what a node remembers and handles, and where the copies of a    *)
(* message are that everyone is to get.                                    *)
(***************************************************************************)
EXTENDS Mesh, FiniteSetTheorems, SequenceTheorems, TLAPS

\* Sequences
Distinct(s) == \A i, j \in DOMAIN s : s[i] = s[j] => i = j

LEMMA SetOfAppend ==
    ASSUME NEW S, NEW s \in Seq(S), NEW x \in S
    PROVE  /\ Append(s, x) \in Seq(S) /\ ToSet(Append(s, x)) = ToSet(s) \cup {x}
           /\ Distinct(s) /\ x \notin ToSet(s) => Distinct(Append(s, x))
<1> DEFINE a == Append(s, x)
<1>1. /\ a \in Seq(S) /\ Len(a) = Len(s) + 1 /\ a[Len(s) + 1] = x
      /\ \A i \in 1 .. Len(s) : a[i] = s[i]
  BY AppendProperties
<1>2. DOMAIN s = 1 .. Len(s) /\ DOMAIN a = 1 .. Len(s) + 1 /\ Len(s) \in Nat
  BY <1>1, LenProperties
<1> HIDE DEF a
<1>3. ToSet(a) = ToSet(s) \cup {x}
  <2>1. ToSet(a) \subseteq ToSet(s) \cup {x}  BY <1>1, <1>2 DEF ToSet
  <2>2. x \in ToSet(a)
    <3>1. Len(s) + 1 \in DOMAIN a  BY <1>2
    <3> QED  BY <3>1, <1>1 DEF ToSet
  <2>3. ToSet(s) \subseteq ToSet(a)
    <3> SUFFICES ASSUME NEW i \in DOMAIN s PROVE s[i] \in ToSet(a)  BY DEF ToSet
    <3>1. i \in DOMAIN a /\ a[i] = s[i]  BY <1>1, <1>2
    <3> QED  BY <3>1 DEF ToSet
  <2> QED  BY <2>1, <2>2, <2>3
<1>4. ASSUME Distinct(s), x \notin ToSet(s), NEW i \in DOMAIN a, NEW j \in DOMAIN a, a[i] = a[j]
      PROVE  i = j
  <2>1. \A k \in DOMAIN s : s[k] # x  BY <1>4 DEF ToSet
  <2>2. CASE i \in DOMAIN s /\ j \in DOMAIN s
    <3>1. s[i] = s[j]  BY <2>2, <1>1, <1>2, <1>4
    <3> QED  BY <3>1, <2>2, <1>4 DEF Distinct
  <2>3. CASE i \notin DOMAIN s \/ j \notin DOMAIN s
    <3>1. i = Len(s) + 1 \/ j = Len(s) + 1  BY <2>3, <1>2, <1>4
    <3> QED  BY <3>1, <2>1, <1>1, <1>2, <1>4
  <2> QED  BY <2>2, <2>3
<1>5. Distinct(s) /\ x \notin ToSet(s) => Distinct(a)  BY <1>4 DEF Distinct
<1> QED  BY <1>1, <1>3, <1>5 DEF a

LEMMA SetOfTail ==
    ASSUME NEW S, NEW s \in Seq(S), s # <<>>
    PROVE  /\ Tail(s) \in Seq(S) /\ ToSet(Tail(s)) \subseteq ToSet(s)
           /\ Head(s) \in S /\ Head(s) \in ToSet(s)
           /\ Distinct(s) => Distinct(Tail(s))
<1>1. /\ Tail(s) \in Seq(S) /\ Len(Tail(s)) = Len(s) - 1 /\ Head(s) \in S
      /\ \A i \in 1 .. Len(Tail(s)) : Tail(s)[i] = s[i + 1]
  BY HeadTailProperties
<1>2. /\ DOMAIN s = 1 .. Len(s) /\ DOMAIN Tail(s) = 1 .. Len(s) - 1 /\ Len(s) \in Nat
  BY <1>1, LenProperties
<1>3. Len(s) # 0 /\ Head(s) = s[1]  BY EmptySeq
<1>4. Head(s) \in ToSet(s)
  <2>1. 1 \in DOMAIN s  BY <1>2, <1>3
  <2> QED  BY <2>1, <1>3 DEF ToSet
<1>5. ASSUME NEW i \in DOMAIN Tail(s) PROVE i + 1 \in DOMAIN s /\ Tail(s)[i] = s[i + 1]
  BY <1>1, <1>2
<1>6. ToSet(Tail(s)) \subseteq ToSet(s)  BY <1>5 DEF ToSet
<1>7. ASSUME Distinct(s), NEW i \in DOMAIN Tail(s), NEW j \in DOMAIN Tail(s), Tail(s)[i] = Tail(s)[j]
      PROVE  i = j
  <2>1. i + 1 = j + 1  BY <1>5, <1>7 DEF Distinct
  <2> QED  BY <2>1, <1>2
<1> QED  BY <1>1, <1>4, <1>6, <1>7 DEF Distinct

LEMMA SetOfPrefix ==
    ASSUME NEW S, NEW s \in Seq(S), NEW n \in 0 .. Len(s)
    PROVE  SubSeq(s, 1, n) \in Seq(S) /\ ToSet(SubSeq(s, 1, n)) \subseteq ToSet(s)
<1>1. DOMAIN s = 1 .. Len(s) /\ Len(s) \in Nat /\ \A i \in 1 .. n : s[i] \in S
  BY LenProperties
<1>2. /\ SubSeq(s, 1, n) \in Seq(S) /\ Len(SubSeq(s, 1, n)) = n
      /\ \A i \in 1 .. n : SubSeq(s, 1, n)[i] = s[i]
  BY <1>1, SubSeqProperties
<1>3. DOMAIN SubSeq(s, 1, n) = 1 .. n  BY <1>2, LenProperties
<1> QED  BY <1>1, <1>2, <1>3 DEF ToSet

LEMMA SetOfWithout ==
    ASSUME NEW S, NEW s \in Seq(S), Distinct(s), NEW x
    PROVE  /\ Without(s, x) \in Seq(S) /\ Distinct(Without(s, x))
           /\ ToSet(Without(s, x)) = ToSet(s) \ {x}
<1>1. CASE x \notin ToSet(s)  BY <1>1 DEF Without
<1>2. CASE x \in ToSet(s)
  <2>1. \E i \in DOMAIN s : s[i] = x  BY <1>2 DEF ToSet
  <2> DEFINE k == CHOOSE i \in DOMAIN s : s[i] = x
             w == Without(s, x)
  <2>2. k \in DOMAIN s /\ s[k] = x  BY <2>1
  <2>3. w = SubSeq(s, 1, k - 1) \o SubSeq(s, k + 1, Len(s))
    BY <1>2 DEF Without, RemoveAt
  <2> HIDE DEF k, w
  <2>4. DOMAIN s = 1 .. Len(s) /\ Len(s) \in Nat /\ \A i \in 1 .. Len(s) : s[i] \in S
    BY LenProperties
  <2>5. k \in 1 .. Len(s) /\ k - 1 \in Int /\ k + 1 \in Int  BY <2>2, <2>4
  <2>6. /\ SubSeq(s, 1, k - 1) \in Seq(S) /\ Len(SubSeq(s, 1, k - 1)) = k - 1
        /\ \A i \in 1 .. k - 1 : SubSeq(s, 1, k - 1)[i] = s[i]
    <3>1. \A i \in 1 .. k - 1 : s[i] \in S  BY <2>4, <2>5
    <3> QED  BY <3>1, <2>5, SubSeqProperties
  <2>7. /\ SubSeq(s, k + 1, Len(s)) \in Seq(S) /\ Len(SubSeq(s, k + 1, Len(s))) = Len(s) - k
        /\ \A i \in 1 .. Len(s) - k : SubSeq(s, k + 1, Len(s))[i] = s[k + i]
    <3>1. \A i \in k + 1 .. Len(s) : s[i] \in S  BY <2>4, <2>5
    <3>2. /\ SubSeq(s, k + 1, Len(s)) \in Seq(S)
          /\ Len(SubSeq(s, k + 1, Len(s))) = IF k + 1 <= Len(s) THEN Len(s) - (k + 1) + 1 ELSE 0
          /\ \A i \in 1 .. Len(s) - (k + 1) + 1 : SubSeq(s, k + 1, Len(s))[i] = s[k + 1 + i - 1]
      BY <3>1, <2>4, <2>5, SubSeqProperties
    <3>3. Len(SubSeq(s, k + 1, Len(s))) = Len(s) - k
      <4>1. PICK z : z = Len(SubSeq(s, k + 1, Len(s)))  OBVIOUS
      <4>2. z = IF k + 1 <= Len(s) THEN Len(s) - (k + 1) + 1 ELSE 0  BY <4>1, <3>2
      <4>3. CASE k + 1 <= Len(s)
        <5>1. Len(s) - (k + 1) + 1 = Len(s) - k  BY <2>4, <2>5
        <5> QED  BY <5>1, <4>1, <4>2, <4>3
      <4>4. CASE ~(k + 1 <= Len(s))
        <5>1. Len(s) \in Nat /\ k \in Nat /\ k <= Len(s)  BY <2>4, <2>5
        <5>2. k = Len(s)  BY <5>1, <4>4
        <5>3. Len(s) - k = 0  BY <5>1, <5>2
        <5> QED  BY <5>3, <4>1, <4>2, <4>4
      <4> QED  BY <4>3, <4>4
    <3>4. ASSUME NEW i \in 1 .. Len(s) - k PROVE SubSeq(s, k + 1, Len(s))[i] = s[k + i]
      <4>1. Len(s) - (k + 1) + 1 = Len(s) - k /\ k + 1 + i - 1 = k + i  BY <2>4, <2>5
      <4> QED  BY <4>1, <3>2
    <3> QED  BY <3>2, <3>3, <3>4
  <2>8. /\ w \in Seq(S) /\ Len(w) = Len(s) - 1
        /\ \A i \in 1 .. Len(s) - 1 : w[i] = IF i < k THEN s[i] ELSE s[i + 1]
    <3>1. PICK p, q : p = SubSeq(s, 1, k - 1) /\ q = SubSeq(s, k + 1, Len(s))  OBVIOUS
    <3>2. /\ w \in Seq(S) /\ Len(w) = Len(p) + Len(q)
          /\ \A i \in 1 .. Len(p) + Len(q) : w[i] = IF i <= Len(p) THEN p[i] ELSE q[i - Len(p)]
      BY <3>1, <2>3, <2>6, <2>7, ConcatProperties
    <3>3. Len(p) = k - 1 /\ Len(q) = Len(s) - k  BY <3>1, <2>6, <2>7
    <3>4. Len(p) + Len(q) = Len(s) - 1  BY <3>3, <2>4, <2>5
    <3>5. ASSUME NEW i \in 1 .. Len(s) - 1 PROVE w[i] = IF i < k THEN s[i] ELSE s[i + 1]
      <4>1. w[i] = IF i <= Len(p) THEN p[i] ELSE q[i - Len(p)]  BY <3>2, <3>4
      <4>2. CASE i < k
        <5>1. i <= Len(p) /\ i \in 1 .. k - 1  BY <4>2, <3>3, <2>5
        <5> QED  BY <5>1, <4>1, <4>2, <3>1, <2>6
      <4>3. CASE ~(i < k)
        <5>1. ~(i <= Len(p)) /\ i - Len(p) = i - k + 1 /\ i - k + 1 \in 1 .. Len(s) - k
          BY <4>3, <3>3, <2>4, <2>5
        <5>2. q[i - k + 1] = s[k + (i - k + 1)]  BY <5>1, <3>1, <2>7
        <5>3. k + (i - k + 1) = i + 1  BY <2>4, <2>5
        <5> QED  BY <5>1, <5>2, <5>3, <4>1, <4>3
      <4> QED  BY <4>2, <4>3
    <3> QED  BY <3>2, <3>4, <3>5
  <2>9. DOMAIN w = 1 .. Len(s) - 1  BY <2>8, LenProperties
  <2>10. ToSet(w) \subseteq ToSet(s) \ {x}
    <3> SUFFICES ASSUME NEW i \in DOMAIN w PROVE w[i] \in ToSet(s) /\ w[i] # x  BY DEF ToSet
    <3>1. CASE i < k
      <4>1. i \in DOMAIN s /\ w[i] = s[i] /\ i # k  BY <3>1, <2>4, <2>5, <2>8, <2>9
      <4> QED  BY <4>1, <2>2 DEF ToSet, Distinct
    <3>2. CASE ~(i < k)
      <4>1. i + 1 \in DOMAIN s /\ w[i] = s[i + 1] /\ i + 1 # k
        BY <3>2, <2>4, <2>5, <2>8, <2>9
      <4> QED  BY <4>1, <2>2 DEF ToSet, Distinct
    <3> QED  BY <3>1, <3>2
  <2>11. ToSet(s) \ {x} \subseteq ToSet(w)
    <3> SUFFICES ASSUME NEW i \in DOMAIN s, s[i] # x PROVE s[i] \in ToSet(w)  BY DEF ToSet
    <3>1. CASE i < k
      <4>1. i \in DOMAIN w /\ w[i] = s[i]  BY <3>1, <2>4, <2>5, <2>8, <2>9
      <4> QED  BY <4>1 DEF ToSet
    <3>2. CASE ~(i < k)
      <4>1. i - 1 \in DOMAIN w /\ w[i - 1] = s[i]
        BY <3>2, <2>2, <2>4, <2>5, <2>8, <2>9
      <4> QED  BY <4>1 DEF ToSet
    <3> QED  BY <3>1, <3>2
  <2>12. Distinct(w)
    <3> SUFFICES ASSUME NEW i \in DOMAIN w, NEW j \in DOMAIN w, w[i] = w[j] PROVE i = j
      BY DEF Distinct
    <3>1. PICK p \in DOMAIN s : p = (IF i < k THEN i ELSE i + 1) /\ w[i] = s[p]
      BY <2>4, <2>5, <2>8, <2>9
    <3>2. PICK q \in DOMAIN s : q = (IF j < k THEN j ELSE j + 1) /\ w[j] = s[q]
      BY <2>4, <2>5, <2>8, <2>9
    <3>3. p = q  BY <3>1, <3>2 DEF Distinct
    <3> QED  BY <3>1, <3>2, <3>3, <2>5, <2>9
  <2> QED  BY <2>8, <2>10, <2>11, <2>12 DEF w
<1> QED  BY <1>1, <1>2

\* So many different ids, so many entries at least.
LEMMA DistinctFit ==
    ASSUME NEW S, IsFiniteSet(S), NEW s \in Seq(S), Distinct(s)
    PROVE  Len(s) <= Cardinality(S)
<1>1. Len(s) \in Nat /\ s \in [1 .. Len(s) -> S]  BY LenProperties
<1>2. s \in Injection(1 .. Len(s), S)  BY <1>1 DEF Injection, IsInjective, Distinct
<1>3. Cardinality(1 .. Len(s)) <= Cardinality(S)  BY <1>2, FS_Injection
<1>4. Cardinality(1 .. Len(s)) = Len(s)
  <2>1. Cardinality(1 .. Len(s)) = IF 1 > Len(s) THEN 0 ELSE Len(s) - 1 + 1
    BY <1>1, FS_Interval
  <2> QED  BY <2>1, <1>1
<1> QED  BY <1>3, <1>4

LEMMA SetOfOrder ==
    ASSUME NEW S, IsFiniteSet(S), NEW s \in SetToSeqs(S)
    PROVE  s \in Seq(S) /\ Distinct(s) /\ ToSet(s) = S
<1>1. PICK n \in Nat : n = Cardinality(S)  BY FS_CardinalityType
<1>2. s \in [1 .. n -> S] /\ \A i, j \in 1 .. n : i # j => s[i] # s[j]
  BY <1>1 DEF SetToSeqs
<1>3. s \in Seq(S)  BY <1>2, SeqDef
<1>4. Cardinality(1 .. n) = n
  <2>1. Cardinality(1 .. n) = IF 1 > n THEN 0 ELSE n - 1 + 1  BY FS_Interval
  <2> QED  BY <2>1
<1>5. s \in Injection(1 .. n, S)  BY <1>2 DEF Injection, IsInjective
<1>6. s \in Surjection(1 .. n, S)  BY <1>1, <1>4, <1>5, FS_Injection
<1>7. ToSet(s) = S  BY <1>2, <1>6 DEF Surjection, ToSet
<1> QED  BY <1>2, <1>3, <1>7 DEF Distinct

----------------------------------------------------------------------------
\* Links

Procs == {"up", "hung", "stopping", "closed", "down"}
Stages == {"idle", "accepting", "hello", "serving"}

LinkTypes ==
    /\ proc \in [Nodes -> Procs]
    /\ wire \in [Links -> {"up", "cut"}] /\ stage \in [Ends -> Stages]
    /\ peers \in [Nodes -> [Nodes -> Links \cup {NoLink}]]
    /\ allWriters \in [Nodes -> SUBSET Links]

\* The writer of a link in service is one that stop() closes.
ServedHasWriter == \A e \in Ends : stage[e] = "serving" => e[1] \in allWriters[e[2]]

LinkInv == LinkTypes /\ RegisteredServes /\ ServedHasWriter

\* A link joins two different nodes, and its ends are at them.
LEMMA EndsOfLinks ==
    /\ \A l \in Links : /\ l[1] \in Nodes /\ l[2] \in Nodes /\ l[1] # l[2]
                        /\ <<l, l[1]>> \in Ends /\ <<l, l[2]>> \in Ends
    /\ \A e \in Ends : /\ e = <<e[1], e[2]>> /\ e[1] \in Links /\ e[2] \in Nodes
                       /\ e[2] = e[1][1] \/ e[2] = e[1][2]
                       /\ Other(e) \in Ends /\ Other(e)[1] = e[1]
                       /\ Other(e)[2] = Peer(e[1], e[2])
                       /\ Peer(e[1], e[2]) \in Nodes /\ Peer(e[1], e[2]) # e[2]
<1>1. \A l \in Links : /\ l[1] \in Nodes /\ l[2] \in Nodes /\ l[1] # l[2]
                       /\ <<l, l[1]>> \in Ends /\ <<l, l[2]>> \in Ends
  BY MeshAssumption DEF Ends
<1> QED  BY <1>1 DEF Ends, Other, Peer

LEMMA LinkInit == Init => LinkInv
  BY MeshAssumption, EndsOfLinks
  DEF Init, LinkInv, LinkTypes, Procs, Stages, RegisteredServes, ServedHasWriter

\* An end that is not in service changes its stage, and nothing else of the
\* registrations.
LEMMA StageKeeps ==
    ASSUME LinkInv, LinkTypes', UNCHANGED <<peers, allWriters>>,
           \A e \in Ends : stage[e] = "serving" <=> stage'[e] = "serving"
    PROVE  LinkInv'
  BY DEF LinkInv, RegisteredServes, ServedHasWriter

LEMMA DialLinks ==
    ASSUME LinkInv, NEW l \in Links, Dial(l)
    PROVE  LinkInv'
<1>1. LinkTypes'  BY EndsOfLinks DEF Dial, LinkInv, LinkTypes, Stages
<1>2. \A e \in Ends : stage[e] = "serving" <=> stage'[e] = "serving"
  BY EndsOfLinks DEF Dial, LinkInv, LinkTypes
<1> QED  BY <1>1, <1>2, StageKeeps DEF Dial

LEMMA AcceptLinks ==
    ASSUME LinkInv, NEW l \in Links, Accept(l)
    PROVE  LinkInv'
<1>1. LinkTypes'  BY EndsOfLinks DEF Accept, LinkInv, LinkTypes, Stages
<1>2. \A e \in Ends : stage[e] = "serving" <=> stage'[e] = "serving"
  BY EndsOfLinks DEF Accept, LinkInv, LinkTypes
<1> QED  BY <1>1, <1>2, StageKeeps DEF Accept

LEMMA HandshakeFailsLinks ==
    ASSUME LinkInv, NEW f \in Ends, HandshakeFails(f)
    PROVE  LinkInv'
<1>1. LinkTypes'  BY DEF HandshakeFails, LinkInv, LinkTypes, Stages
<1>2. \A e \in Ends : stage[e] = "serving" <=> stage'[e] = "serving"
  BY DEF HandshakeFails, LinkInv, LinkTypes
<1> QED  BY <1>1, <1>2, StageKeeps DEF HandshakeFails

LEMMA StopClosesLinks ==
    ASSUME LinkInv, NEW n \in Nodes, StopCloses(n)
    PROVE  LinkInv'
<1>1. LinkTypes'  BY DEF StopCloses, LinkInv, LinkTypes, Procs, Stages
<1>2. \A e \in Ends : stage[e] = "serving" <=> stage'[e] = "serving"
  BY DEF StopCloses, Backlog, LinkInv, LinkTypes
<1> QED  BY <1>1, <1>2, StageKeeps DEF StopCloses

\* A handshake registers the link it puts into service.
LEMMA HandshakeLinks ==
    ASSUME LinkInv, NEW f \in Ends, Handshake(f)
    PROVE  LinkInv'
<1>1. f = <<f[1], f[2]>> /\ f[1] \in Links /\ f[2] \in Nodes /\ Peer(f[1], f[2]) \in Nodes
  BY EndsOfLinks
<1>2. /\ stage' = [stage EXCEPT ![f] = "serving"]
      /\ peers' = [peers EXCEPT ![f[2]][Peer(f[1], f[2])] = f[1]]
      /\ allWriters' = [allWriters EXCEPT ![f[2]] = @ \cup {f[1]}]
      /\ UNCHANGED <<proc, wire>>
  BY DEF Handshake
<1>3. LinkTypes'  BY <1>1, <1>2 DEF LinkInv, LinkTypes, Stages
<1>4. ServedHasWriter'  BY <1>1, <1>2, EndsOfLinks DEF LinkInv, LinkTypes, ServedHasWriter
<1>5. RegisteredServes'
  <2> SUFFICES ASSUME NEW n \in Nodes, NEW m \in Nodes, peers'[n][m] # NoLink
               PROVE  LET l == peers'[n][m] IN
                        /\ <<l, n>> \in Ends /\ Peer(l, n) = m
                        /\ stage'[<<l, n>>] = "serving" /\ l \in allWriters'[n]
    BY DEF RegisteredServes
  <2>1. CASE n = f[2] /\ m = Peer(f[1], f[2])
    BY <2>1, <1>1, <1>2 DEF LinkInv, LinkTypes
  <2>2. CASE ~(n = f[2] /\ m = Peer(f[1], f[2]))
    <3>1. peers'[n][m] = peers[n][m]  BY <2>2, <1>1, <1>2 DEF LinkInv, LinkTypes
    <3> QED  BY <3>1, <1>1, <1>2 DEF LinkInv, LinkTypes, RegisteredServes
  <2> QED  BY <2>1, <2>2
<1> QED  BY <1>3, <1>4, <1>5 DEF LinkInv

\* The end of a link takes its own registration away, if it has one, and its
\* own writer.
LEMMA TearDownLinks ==
    ASSUME LinkInv, NEW f \in Ends, TearDown(f) \/ DeliverFails(f)
    PROVE  LinkInv'
<1>1. f = <<f[1], f[2]>> /\ f[1] \in Links /\ f[2] \in Nodes /\ Peer(f[1], f[2]) \in Nodes
  BY EndsOfLinks
<1>2. /\ stage' = [stage EXCEPT ![f] = "idle"]
      /\ peers' = Unregister(peers, f[1], f[2])
      /\ allWriters' = [allWriters EXCEPT ![f[2]] = @ \ {f[1]}]
      /\ wire' = [wire EXCEPT ![f[1]] = "cut"] /\ UNCHANGED proc
  BY DEF TearDown, DeliverFails, LinkEnds
<1>3. LinkTypes'  BY <1>1, <1>2 DEF LinkInv, LinkTypes, Stages, Unregister
<1>4. ServedHasWriter'
  <2> SUFFICES ASSUME NEW e \in Ends, stage'[e] = "serving" PROVE e[1] \in allWriters'[e[2]]
    BY DEF ServedHasWriter
  <2>1. e # f /\ stage[e] = "serving"  BY <1>2 DEF LinkInv, LinkTypes
  <2>2. e[2] # f[2] \/ e[1] # f[1]  BY <2>1, EndsOfLinks
  <2>3. e[1] \in allWriters[e[2]] /\ e[2] \in Nodes
    BY <2>1, EndsOfLinks DEF LinkInv, ServedHasWriter
  <2> QED  BY <2>2, <2>3, <1>1, <1>2 DEF LinkInv, LinkTypes
<1>5. RegisteredServes'
  <2> SUFFICES ASSUME NEW n \in Nodes, NEW m \in Nodes, peers'[n][m] # NoLink
               PROVE  LET l == peers'[n][m] IN
                        /\ <<l, n>> \in Ends /\ Peer(l, n) = m
                        /\ stage'[<<l, n>>] = "serving" /\ l \in allWriters'[n]
    BY DEF RegisteredServes
  <2>1. peers'[n][m] = peers[n][m]
    BY <1>1, <1>2 DEF LinkInv, LinkTypes, Unregister
  <2>2. <<peers[n][m], n>> \in Ends /\ Peer(peers[n][m], n) = m
    BY <2>1 DEF LinkInv, RegisteredServes
  <2>3. <<peers[n][m], n>> # f
    <3> SUFFICES ASSUME peers[n][m] = f[1], n = f[2] PROVE FALSE  BY <1>1
    <3>1. peers[f[2]][Peer(f[1], f[2])] = f[1]  BY <2>2
    <3>2. peers'[n][m] = NoLink  BY <3>1, <2>2, <1>1, <1>2 DEF LinkInv, LinkTypes, Unregister
    <3> QED  BY <3>2
  <2> QED  BY <2>1, <2>2, <2>3, <1>1, <1>2 DEF LinkInv, LinkTypes, RegisteredServes
<1> QED  BY <1>3, <1>4, <1>5 DEF LinkInv

\* A node that is gone has no links; the others keep their ends.
LEMMA GoneLinks ==
    ASSUME LinkInv, NEW n \in Nodes, Gone(n)
    PROVE  LinkInv'
<1>1. LinkTypes'  BY DEF Gone, LinkInv, LinkTypes, Procs, Stages
<1>2. ServedHasWriter'  BY EndsOfLinks DEF Gone, LinkInv, LinkTypes, ServedHasWriter
<1>3. RegisteredServes'
  <2> SUFFICES ASSUME NEW k \in Nodes, NEW m \in Nodes, peers'[k][m] # NoLink
               PROVE  LET l == peers'[k][m] IN
                        /\ <<l, k>> \in Ends /\ Peer(l, k) = m
                        /\ stage'[<<l, k>>] = "serving" /\ l \in allWriters'[k]
    BY DEF RegisteredServes
  <2>1. k # n /\ peers'[k][m] = peers[k][m]  BY DEF Gone, LinkInv, LinkTypes
  <2>2. /\ <<peers[k][m], k>> \in Ends /\ Peer(peers[k][m], k) = m
        /\ stage[<<peers[k][m], k>>] = "serving" /\ peers[k][m] \in allWriters[k]
    BY <2>1 DEF LinkInv, RegisteredServes
  <2>3. stage' = [e \in Ends |-> IF e[2] = n THEN "idle" ELSE stage[e]]
    BY DEF Gone
  <2> QED  BY <2>1, <2>2, <2>3 DEF Gone, LinkInv, LinkTypes
<1> QED  BY <1>1, <1>2, <1>3 DEF LinkInv

\* The invariant holds of every step.
LEMMA LinkStepKeeps ==
    ASSUME LinkInv, [Next]_vars
    PROVE  LinkInv'
<1>1. ASSUME UNCHANGED <<proc, links>> PROVE LinkInv'
  BY <1>1 DEF links, LinkInv, LinkTypes, RegisteredServes, ServedHasWriter
<1>2. ASSUME UNCHANGED links, proc' \in [Nodes -> Procs] PROVE LinkInv'
  BY <1>2 DEF links, LinkInv, LinkTypes, RegisteredServes, ServedHasWriter
<1>3. CASE LinkStep
  BY <1>3, DialLinks, AcceptLinks, HandshakeLinks, HandshakeFailsLinks, TearDownLinks
  DEF LinkStep
<1>4. CASE MessageStep
  BY <1>4, <1>1 DEF MessageStep, Relay, Receive, Deliver, FloodWrite, FloodDone
<1>5. CASE NodeStep
  <2>1. ASSUME NEW n \in Nodes, Stop(n) \/ Start(n) \/ Hang(n) \/ Resume(n) PROVE LinkInv'
    BY <2>1, <1>2 DEF Stop, Start, Hang, Resume, LinkInv, LinkTypes, Procs
  <2>2. ASSUME NEW l \in Links, Lose(l) PROVE LinkInv'
    BY <2>2 DEF Lose, LinkInv, LinkTypes, RegisteredServes, ServedHasWriter
  <2>3. ASSUME NEW n \in Nodes, Exit(n) \/ Crash(n) PROVE LinkInv'
    BY <2>3, GoneLinks DEF Exit, Crash
  <2> QED  BY <1>5, <2>1, <2>2, <2>3, StopClosesLinks, TearDownLinks DEF NodeStep
<1>6. CASE UNCHANGED vars  BY <1>6, <1>1 DEF vars
<1> QED  BY <1>3, <1>4, <1>5, <1>6 DEF Next

LEMMA LinksHold == Spec => []LinkInv
  BY LinkInit, LinkStepKeeps, PTL DEF Spec

\* Whatever a flood or a query finds in _peer_writers is a link to that peer
\* whose read loop runs and which stop() would close.
THEOREM RegisteredLinksServe == Spec => []RegisteredServes
<1>1. LinkInv => RegisteredServes  BY DEF LinkInv
<1> QED  BY <1>1, LinksHold, PTL

\* A peer is forgotten only when the very link it was registered with ends: the
\* end of an older duplicate leaves the newer registration alone.
THEOREM RegistrationsEndWithTheirLink == Spec => NewerLinkStays
<1>1. ASSUME LinkInv, [Next]_vars, NEW n \in Nodes, NEW m \in Nodes,
             peers[n][m] # NoLink, peers'[n][m] = NoLink
      PROVE  stage'[<<peers[n][m], n>>] # "serving"
  <2>1. /\ <<peers[n][m], n>> \in Ends /\ Peer(peers[n][m], n) = m
        /\ stage[<<peers[n][m], n>>] = "serving"
    BY <1>1 DEF LinkInv, RegisteredServes
  <2>2. ASSUME NEW e \in Ends, TearDown(e) \/ DeliverFails(e)
        PROVE  stage'[<<peers[n][m], n>>] # "serving"
    <3>1. /\ stage' = [stage EXCEPT ![e] = "idle"]
          /\ peers' = Unregister(peers, e[1], e[2])
      BY <2>2 DEF TearDown, DeliverFails, LinkEnds
    <3>2. e = <<peers[n][m], n>>
      BY <3>1, <1>1, EndsOfLinks DEF LinkInv, LinkTypes, Unregister
    <3> QED  BY <3>1, <3>2, <1>1 DEF LinkInv, LinkTypes
  <2>3. ASSUME NEW k \in Nodes, Gone(k) PROVE stage'[<<peers[n][m], n>>] # "serving"
    <3>1. k = n  BY <2>3, <1>1 DEF Gone, LinkInv, LinkTypes
    <3> QED  BY <3>1, <2>3, <2>1 DEF Gone
  <2>4. ASSUME NEW e \in Ends, Handshake(e) PROVE FALSE
    BY <2>4, <1>1, MeshAssumption, EndsOfLinks DEF Handshake, LinkInv, LinkTypes
  <2>5. CASE LinkStep
    BY <2>5, <2>2, <2>4, <1>1 DEF LinkStep, Dial, Accept, HandshakeFails
  <2>6. CASE MessageStep
    BY <2>6, <1>1 DEF MessageStep, Relay, Receive, Deliver, FloodWrite, FloodDone, links
  <2>7. CASE NodeStep
    BY <2>7, <2>2, <2>3, <1>1 DEF NodeStep, Stop, StopCloses, Exit, Crash, Start, Hang, Resume, Lose, links
  <2>8. CASE UNCHANGED vars  BY <2>8, <1>1 DEF vars, links
  <2> QED  BY <1>1, <2>5, <2>6, <2>7, <2>8 DEF Next
<1>2. LinkInv /\ [Next]_vars =>
        [\A n, m \in Nodes : peers[n][m] # NoLink /\ peers'[n][m] = NoLink
            => stage'[<<peers[n][m], n>>] # "serving"]_vars
  BY <1>1
<1> QED  BY <1>2, LinksHold, PTL DEF Spec, NewerLinkStays

\* stop() closes the connection of every link in service, orphaned duplicates
\* that are no longer registered included.
THEOREM StopClosesServedLinks == Spec => StopCutsServedLinks
<1>1. ASSUME LinkInv, [Next]_vars, NEW n \in Nodes,
             proc[n] = "stopping", proc'[n] = "closed",
             NEW e \in EndsOf(n), stage[e] = "serving"
      PROVE  wire'[e[1]] = "cut"
  <2>1. e \in Ends /\ e[2] = n /\ e[1] \in Links /\ e[1] \in allWriters[n]
    BY <1>1, EndsOfLinks DEF EndsOf, LinkInv, ServedHasWriter
  <2>2. ASSUME NEW k \in Nodes, StopCloses(k) PROVE wire'[e[1]] = "cut"
    <3>1. k = n  BY <2>2, <1>1 DEF StopCloses, LinkInv, LinkTypes
    <3> QED  BY <3>1, <2>2, <2>1 DEF StopCloses, WritersToClose
  <2>3. ASSUME NEW k \in Nodes,
               Stop(k) \/ Exit(k) \/ Crash(k) \/ Start(k) \/ Hang(k) \/ Resume(k)
        PROVE  FALSE
    BY <2>3, <1>1 DEF Stop, Exit, Crash, Gone, Start, Hang, Resume, LinkInv, LinkTypes
  <2>4. CASE LinkStep
    BY <2>4, <1>1 DEF LinkStep, Dial, Accept, Handshake, HandshakeFails, TearDown
  <2>5. CASE MessageStep
    BY <2>5, <1>1 DEF MessageStep, Relay, Receive, Deliver, FloodWrite, FloodDone
  <2>6. CASE NodeStep  BY <2>6, <2>2, <2>3, <1>1 DEF NodeStep, Lose, DeliverFails
  <2>7. CASE UNCHANGED vars  BY <2>7, <1>1 DEF vars
  <2> QED  BY <1>1, <2>4, <2>5, <2>6, <2>7 DEF Next
<1>2. LinkInv /\ [Next]_vars =>
        [\A n \in Nodes : proc[n] = "stopping" /\ proc'[n] = "closed" =>
            \A e \in EndsOf(n) : stage[e] = "serving" => wire'[e[1]] = "cut"]_vars
  BY <1>1
<1> QED  BY <1>2, LinksHold, PTL DEF Spec, StopCutsServedLinks

----------------------------------------------------------------------------
\* Frames and floods

Frames == Messages \cup {Hello}
Calls == {c \in [msg : Messages \cup {NoMessage}, step : {"idle", "deliver", "flood"},
                 to : Seq(Links)] : c.step # "idle" => c.msg \in Messages}

TrafficTypes ==
    /\ inbox \in [Ends -> Seq(Frames)] /\ task \in [Tasks -> Calls]
    /\ origin \in [Messages -> Nodes \cup {NoNode}]
    /\ handled \in [Nodes -> [Messages -> Nat]]
    /\ seen \in [Nodes -> Seq(Messages)] /\ \A n \in Nodes : Distinct(seen[n])

LateHello(s) == \E i \in 2 .. Len(s) : s[i] = Hello

\* A PEER_HELLO comes first in its connection, and never to a read loop.
HelloFirst == \A e \in Ends :
    /\ stage[e] = "serving" => Hello \notin ToSet(inbox[e])
    /\ stage[e] \in {"accepting", "hello"} => ~LateHello(inbox[e])

\* Before the acceptor gets to it, nothing comes back to the dialer.
HelloComes == \A l \in Links : stage[<<l, l[2]>>] = "accepting" =>
    stage[<<l, l[1]>>] = "idle" \/ (stage[<<l, l[1]>>] = "hello" /\ inbox[<<l, l[1]>>] = <<>>)

\* A flood has a message, and is to write to links in service, once to each.
FloodsServed == \A t \in Tasks :
    /\ Distinct(task[t].to)
    /\ task[t].to # <<>> => task[t].msg \in Messages
    /\ \A l \in ToSet(task[t].to) : <<l, NodeOf(t)>> \in Ends /\ stage[<<l, NodeOf(t)>>] = "serving"

FrameInv == LinkInv /\ TrafficTypes /\ HelloFirst /\ HelloComes /\ FloodsServed

LEMMA RememberedType ==
    ASSUME NEW S, NEW c \in Seq(S), Distinct(c), NEW x \in S
    PROVE  /\ Remembered(c, x, CacheSize) \in Seq(S) /\ Distinct(Remembered(c, x, CacheSize))
           /\ ToSet(Remembered(c, x, CacheSize)) \subseteq ToSet(c) \cup {x}
<1>1. CASE SeenBefore(c, x)
  <2>1. /\ Without(c, x) \in Seq(S) /\ Distinct(Without(c, x))
        /\ ToSet(Without(c, x)) = ToSet(c) \ {x}
    BY SetOfWithout
  <2>2. /\ Append(Without(c, x), x) \in Seq(S) /\ Distinct(Append(Without(c, x), x))
        /\ ToSet(Append(Without(c, x), x)) = ToSet(Without(c, x)) \cup {x}
    BY <2>1, SetOfAppend
  <2> QED  BY <1>1, <2>1, <2>2 DEF Remembered
<1>2. CASE ~SeenBefore(c, x)
  <2>1. PICK a : a = Append(c, x)  OBVIOUS
  <2>2. a \in Seq(S) /\ Distinct(a) /\ ToSet(a) = ToSet(c) \cup {x} /\ a # <<>>
    BY <1>2, <2>1, SetOfAppend, AppendProperties DEF SeenBefore
  <2>3. Tail(a) \in Seq(S) /\ Distinct(Tail(a)) /\ ToSet(Tail(a)) \subseteq ToSet(a)
    BY <2>2, SetOfTail
  <2>4. Remembered(c, x, CacheSize) = IF Len(a) > CacheSize THEN Tail(a) ELSE a
    BY <1>2, <2>1 DEF Remembered
  <2>5. CASE Len(a) > CacheSize  BY <2>5, <2>2, <2>3, <2>4
  <2>6. CASE ~(Len(a) > CacheSize)  BY <2>6, <2>2, <2>4
  <2> QED  BY <2>5, <2>6
<1> QED  BY <1>1, <1>2

\* A cache with room for every id forgets none.
LEMMA RememberedAll ==
    ASSUME NEW S, IsFiniteSet(S), Cardinality(S) <= CacheSize,
           NEW c \in Seq(S), Distinct(c), NEW x \in S
    PROVE  ToSet(Remembered(c, x, CacheSize)) = ToSet(c) \cup {x}
<1>1. CASE SeenBefore(c, x)
  <2>1. /\ Without(c, x) \in Seq(S) /\ Distinct(Without(c, x))
        /\ ToSet(Without(c, x)) = ToSet(c) \ {x}
    BY SetOfWithout
  <2>2. ToSet(Append(Without(c, x), x)) = ToSet(Without(c, x)) \cup {x}
    BY <2>1, SetOfAppend
  <2> QED  BY <1>1, <2>1, <2>2 DEF Remembered
<1>2. CASE ~SeenBefore(c, x)
  <2>1. PICK a : a = Append(c, x)  OBVIOUS
  <2>2. a \in Seq(S) /\ Distinct(a) /\ ToSet(a) = ToSet(c) \cup {x}
    BY <1>2, <2>1, SetOfAppend DEF SeenBefore
  <2>3. Len(a) <= Cardinality(S)  BY <2>2, DistinctFit
  <2>4. Len(a) \in Nat /\ Cardinality(S) \in Nat /\ CacheSize \in Nat
    BY <2>2, LenProperties, FS_CardinalityType, MeshAssumption
  <2>5. ~(Len(a) > CacheSize)  BY <2>3, <2>4
  <2> QED  BY <1>2, <2>1, <2>2, <2>5 DEF Remembered
<1> QED  BY <1>1, <1>2

\* PEER_HELLO in a sequence of frames.
LEMMA HelloInFrames ==
    ASSUME NEW s \in Seq(Frames)
    PROVE  /\ ~LateHello(<<>>) /\ ~LateHello(<<Hello>>)
           /\ Hello \notin ToSet(s) => ~LateHello(s)
           /\ ~LateHello(s) /\ s # <<>> => Hello \notin ToSet(Tail(s))
           /\ \A m \in Messages : ~LateHello(s) => ~LateHello(Append(s, m))
           /\ \A n \in 0 .. Len(s) : ~LateHello(s) => ~LateHello(SubSeq(s, 1, n))
<1>1. DOMAIN s = 1 .. Len(s) /\ Len(s) \in Nat  BY LenProperties
<1>2. ~LateHello(<<>>) /\ ~LateHello(<<Hello>>)  BY DEF LateHello
<1>3. Hello \notin ToSet(s) => ~LateHello(s)  BY <1>1 DEF LateHello, ToSet
<1>4. ASSUME ~LateHello(s), s # <<>> PROVE Hello \notin ToSet(Tail(s))
  <2>1. /\ Tail(s) \in Seq(Frames) /\ Len(Tail(s)) = Len(s) - 1
        /\ \A i \in 1 .. Len(Tail(s)) : Tail(s)[i] = s[i + 1]
    BY <1>4, HeadTailProperties
  <2>2. DOMAIN Tail(s) = 1 .. Len(s) - 1  BY <2>1, LenProperties
  <2>3. ASSUME NEW i \in DOMAIN Tail(s) PROVE Tail(s)[i] # Hello
    <3>1. i + 1 \in 2 .. Len(s) /\ Tail(s)[i] = s[i + 1]  BY <2>1, <2>2, <1>1
    <3> QED  BY <3>1, <1>4 DEF LateHello
  <2> QED  BY <2>3 DEF ToSet
<1>5. ASSUME NEW m \in Messages, ~LateHello(s) PROVE ~LateHello(Append(s, m))
  <2>1. PICK a : a = Append(s, m)  OBVIOUS
  <2>2. /\ Len(a) = Len(s) + 1 /\ a[Len(s) + 1] = m
        /\ \A i \in 1 .. Len(s) : a[i] = s[i]
    BY <2>1, AppendProperties DEF Frames
  <2>3. ASSUME NEW i \in 2 .. Len(a) PROVE a[i] # Hello
    <3>1. CASE i = Len(s) + 1  BY <3>1, <2>2, MeshAssumption
    <3>2. CASE i # Len(s) + 1
      <4>1. i \in 2 .. Len(s) /\ a[i] = s[i]  BY <3>2, <2>2, <1>1
      <4> QED  BY <4>1, <1>5 DEF LateHello
    <3> QED  BY <3>1, <3>2
  <2> QED  BY <2>1, <2>3 DEF LateHello
<1>6. ASSUME NEW n \in 0 .. Len(s), ~LateHello(s) PROVE ~LateHello(SubSeq(s, 1, n))
  <2>1. \A i \in 1 .. n : s[i] \in Frames  BY <1>1, LenProperties
  <2>2. /\ Len(SubSeq(s, 1, n)) = n /\ \A i \in 1 .. n : SubSeq(s, 1, n)[i] = s[i]
    BY <2>1, <1>1, SubSeqProperties
  <2>3. PICK p : p = SubSeq(s, 1, n)  OBVIOUS
  <2>4. ASSUME NEW i \in 2 .. Len(p) PROVE p[i] # Hello
    <3>1. i \in 2 .. Len(s) /\ p[i] = s[i]  BY <2>2, <2>3, <1>1
    <3> QED  BY <3>1, <1>6 DEF LateHello
  <2> QED  BY <2>3, <2>4 DEF LateHello
<1> QED  BY <1>2, <1>3, <1>4, <1>5, <1>6

LEMMA FrameInit == Init => FrameInv
<1> SUFFICES ASSUME Init PROVE FrameInv  OBVIOUS
<1>1. LinkInv  BY LinkInit
<1>2. \A S : <<>> \in Seq(S)  BY EmptySeq
<1>3. ToSet(<<>>) = {} /\ Distinct(<<>>)  BY DEF ToSet, Distinct
<1>4. NoTask \in Calls  BY <1>2 DEF NoTask, Calls
<1>5. TrafficTypes  BY <1>2, <1>3, <1>4 DEF Init, TrafficTypes
<1>6. HelloFirst  BY <1>3 DEF Init, HelloFirst
<1>7. HelloComes  BY EndsOfLinks DEF Init, HelloComes
<1>8. FloodsServed  BY <1>3 DEF Init, FloodsServed, NoTask
<1> QED  BY <1>1, <1>5, <1>6, <1>7, <1>8 DEF FrameInv

\* The floods of a step that stops, ends or leaves each, and ends no link.
LEMMA FloodsKeep ==
    ASSUME FrameInv, UNCHANGED origin,
           \A e \in Ends : stage[e] = "serving" => stage'[e] = "serving",
           \A t \in Tasks : \/ task'[t].to = <<>>
                            \/ task'[t].to = task[t].to /\ task'[t].msg = task[t].msg
    PROVE  FloodsServed'
<1> SUFFICES ASSUME NEW t \in Tasks
             PROVE  /\ Distinct(task'[t].to)
                    /\ task'[t].to # <<>> => task'[t].msg \in Messages
                    /\ \A l \in ToSet(task'[t].to) :
                          <<l, NodeOf(t)>> \in Ends /\ stage'[<<l, NodeOf(t)>>] = "serving"
  BY DEF FloodsServed, NodeOf
<1>1. CASE task'[t].to = <<>>  BY <1>1 DEF ToSet, Distinct
<1>2. CASE task'[t].to = task[t].to /\ task'[t].msg = task[t].msg
  BY <1>2 DEF FrameInv, FloodsServed
<1> QED  BY <1>1, <1>2

\* What happens to the frames at one end, when no connection begins.
InboxStep(e) ==
    \/ inbox'[e] = inbox[e]
    \/ \E n \in 0 .. Len(inbox[e]) : inbox'[e] = SubSeq(inbox[e], 1, n)
    \/ stage[e] = "serving" /\ inbox[e] # <<>> /\ inbox'[e] = Tail(inbox[e])
    \/ /\ stage[Other(e)] = "serving"
       /\ \E m \in Messages : inbox'[e] = Append(inbox[e], m)

LEMMA InboxKeeps ==
    ASSUME FrameInv, inbox' \in [Ends -> Seq(Frames)], \A e \in Ends : InboxStep(e),
           \A e \in Ends : stage'[e] = stage[e] \/ stage'[e] = "idle"
    PROVE  HelloFirst' /\ HelloComes'
<1>1. ASSUME NEW e \in Ends
      PROVE  /\ stage'[e] = "serving" => Hello \notin ToSet(inbox'[e])
             /\ stage'[e] \in {"accepting", "hello"} => ~LateHello(inbox'[e])
  <2>1. PICK s \in Seq(Frames) : s = inbox[e]  BY DEF FrameInv, TrafficTypes
  <2>2. /\ stage[e] = "serving" => Hello \notin ToSet(s)
        /\ stage[e] \in {"accepting", "hello"} => ~LateHello(s)
    BY <2>1 DEF FrameInv, HelloFirst
  <2>3. stage'[e] = stage[e] \/ stage'[e] = "idle"  OBVIOUS
  <2>4. CASE inbox'[e] = s  BY <2>2, <2>3, <2>4
  <2>5. CASE \E n \in 0 .. Len(s) : inbox'[e] = SubSeq(s, 1, n)
    BY <2>2, <2>3, <2>5, SetOfPrefix, HelloInFrames
  <2>6. CASE stage[e] = "serving" /\ s # <<>> /\ inbox'[e] = Tail(s)
    BY <2>2, <2>3, <2>6, SetOfTail
  <2>7. CASE \E m \in Messages : inbox'[e] = Append(s, m)
    <3>1. PICK m \in Messages : inbox'[e] = Append(s, m)  BY <2>7
    <3>2. m \in Frames /\ m # Hello  BY MeshAssumption DEF Frames
    <3>3. ToSet(Append(s, m)) = ToSet(s) \cup {m}  BY <3>2, SetOfAppend
    <3>4. ~LateHello(s) => ~LateHello(Append(s, m))  BY HelloInFrames
    <3> QED  BY <2>2, <2>3, <3>1, <3>2, <3>3, <3>4
  <2> QED  BY <2>1, <2>4, <2>5, <2>6, <2>7 DEF InboxStep
<1>2. ASSUME NEW l \in Links, stage'[<<l, l[2]>>] = "accepting"
      PROVE  \/ stage'[<<l, l[1]>>] = "idle"
             \/ stage'[<<l, l[1]>>] = "hello" /\ inbox'[<<l, l[1]>>] = <<>>
  <2>1. PICK e \in Ends : e = <<l, l[1]>>  BY EndsOfLinks
  <2>2. PICK f \in Ends : f = <<l, l[2]>>  BY EndsOfLinks
  <2>3. Other(e) = f  BY <2>1, <2>2 DEF Other, Peer
  <2>4. stage[f] = "accepting"  BY <1>2, <2>2
  <2>5. stage[e] = "idle" \/ (stage[e] = "hello" /\ inbox[e] = <<>>)
    BY <2>1, <2>2, <2>4 DEF FrameInv, HelloComes
  <2>6. CASE stage[e] = "idle"  BY <2>6, <2>1
  <2>7. CASE stage[e] = "hello" /\ inbox[e] = <<>>
    <3>1. \A n \in 0 .. Len(inbox[e]) : SubSeq(inbox[e], 1, n) = <<>>
      <4>1. Len(inbox[e]) = 0  BY <2>7, EmptySeq
      <4> QED  BY <4>1, <2>7, SubSeqEmpty
    <3>2. inbox'[e] = <<>>  BY <3>1, <2>3, <2>4, <2>7 DEF InboxStep
    <3> QED  BY <3>2, <2>1, <2>7
  <2> QED  BY <2>5, <2>6, <2>7
<1>3. HelloFirst'  BY <1>1 DEF HelloFirst
<1>4. HelloComes'  BY <1>2 DEF HelloComes
<1> QED  BY <1>3, <1>4

LEMMA DialFrames ==
    ASSUME FrameInv, NEW l \in Links, Dial(l)
    PROVE  TrafficTypes' /\ HelloFirst' /\ HelloComes' /\ FloodsServed'
<1>1. PICK e \in Ends : e = <<l, l[1]>>  BY EndsOfLinks
<1>2. PICK f \in Ends : f = <<l, l[2]>>  BY EndsOfLinks
<1>3. e # f  BY <1>1, <1>2, EndsOfLinks
<1>4. /\ stage[e] = "idle" /\ stage[f] = "idle"
      /\ stage' = [stage EXCEPT ![e] = "hello", ![f] = "accepting"]
      /\ inbox' = [inbox EXCEPT ![e] = <<>>, ![f] = <<Hello>>]
      /\ UNCHANGED <<seen, task, origin, handled>>
  BY <1>1, <1>2 DEF Dial
<1>5. <<>> \in Seq(Frames) /\ <<Hello>> \in Seq(Frames)  BY EmptySeq DEF Frames
<1>6. TrafficTypes'  BY <1>4, <1>5 DEF FrameInv, TrafficTypes
<1>7. HelloFirst'
  <2>1. ~LateHello(<<>>) /\ ~LateHello(<<Hello>>)  BY <1>5, HelloInFrames
  <2>2. \A d \in Ends : stage'[d] = (IF d = e THEN "hello" ELSE IF d = f THEN "accepting" ELSE stage[d])
    BY <1>3, <1>4 DEF FrameInv, LinkInv, LinkTypes
  <2>3. \A d \in Ends : inbox'[d] = (IF d = e THEN <<>> ELSE IF d = f THEN <<Hello>> ELSE inbox[d])
    BY <1>3, <1>4 DEF FrameInv, TrafficTypes
  <2> QED  BY <2>1, <2>2, <2>3, <1>3 DEF FrameInv, HelloFirst
<1>8. HelloComes'
  <2> SUFFICES ASSUME NEW k \in Links, stage'[<<k, k[2]>>] = "accepting"
               PROVE  \/ stage'[<<k, k[1]>>] = "idle"
                      \/ stage'[<<k, k[1]>>] = "hello" /\ inbox'[<<k, k[1]>>] = <<>>
    BY DEF HelloComes
  <2>1. PICK g \in Ends, h \in Ends : g = <<k, k[1]>> /\ h = <<k, k[2]>>  BY EndsOfLinks
  <2>2. CASE k = l
    BY <2>1, <2>2, <1>1, <1>3, <1>4 DEF FrameInv, LinkInv, LinkTypes, TrafficTypes
  <2>3. CASE k # l
    <3>1. g \notin {e, f} /\ h \notin {e, f}  BY <2>1, <2>3, <1>1, <1>2
    <3>2. stage'[g] = stage[g] /\ stage'[h] = stage[h] /\ inbox'[g] = inbox[g]
      BY <3>1, <1>4 DEF FrameInv, LinkInv, LinkTypes, TrafficTypes
    <3> QED  BY <3>2, <2>1 DEF FrameInv, HelloComes
  <2> QED  BY <2>2, <2>3
<1>9. FloodsServed'
  <2>1. \A d \in Ends : stage[d] = "serving" => stage'[d] = "serving"
    BY <1>4 DEF FrameInv, LinkInv, LinkTypes
  <2> QED  BY <2>1, <1>4, FloodsKeep
<1> QED  BY <1>6, <1>7, <1>8, <1>9

\* The answer of the acceptor finds the dialer gone or its inbox empty.
LEMMA AcceptFrames ==
    ASSUME FrameInv, NEW l \in Links, Accept(l)
    PROVE  TrafficTypes' /\ HelloFirst' /\ HelloComes' /\ FloodsServed'
<1>1. PICK e \in Ends : e = <<l, l[1]>>  BY EndsOfLinks
<1>2. PICK f \in Ends : f = <<l, l[2]>>  BY EndsOfLinks
<1>3. e # f /\ Other(f) = e  BY <1>1, <1>2, EndsOfLinks DEF Other, Peer
<1>4. /\ stage[f] = "accepting" /\ stage' = [stage EXCEPT ![f] = "hello"]
      /\ inbox' = (IF wire[l] = "up" THEN [inbox EXCEPT ![e] = Append(@, Hello)] ELSE inbox)
      /\ UNCHANGED <<seen, task, origin, handled>>
  BY <1>2, <1>3 DEF Accept
<1>5. stage[e] = "idle" \/ (stage[e] = "hello" /\ inbox[e] = <<>>)
  BY <1>1, <1>2, <1>4 DEF FrameInv, HelloComes
<1>6. inbox[e] \in Seq(Frames) /\ Append(inbox[e], Hello) \in Seq(Frames)
  BY SetOfAppend DEF FrameInv, TrafficTypes, Frames
<1>7. TrafficTypes'  BY <1>4, <1>6 DEF FrameInv, TrafficTypes
<1>8. HelloFirst'
  <2> SUFFICES ASSUME NEW d \in Ends
               PROVE  /\ stage'[d] = "serving" => Hello \notin ToSet(inbox'[d])
                      /\ stage'[d] \in {"accepting", "hello"} => ~LateHello(inbox'[d])
    BY DEF HelloFirst
  <2>1. CASE d = e
    <3>1. stage'[e] = stage[e]  BY <1>3, <1>4 DEF FrameInv, LinkInv, LinkTypes
    <3>2. CASE stage[e] = "idle"  BY <3>1, <3>2, <2>1
    <3>3. CASE stage[e] = "hello" /\ inbox[e] = <<>>
      <4>1. inbox'[e] = <<>> \/ inbox'[e] = <<Hello>>
        BY <3>3, <1>4 DEF FrameInv, TrafficTypes
      <4> QED  BY <4>1, <3>1, <3>3, <2>1, <1>6, HelloInFrames
    <3> QED  BY <3>2, <3>3, <1>5
  <2>2. CASE d # e
    <3>1. inbox'[d] = inbox[d]  BY <2>2, <1>4 DEF FrameInv, TrafficTypes
    <3>2. \/ stage'[d] = stage[d]
          \/ d = f /\ stage[d] = "accepting" /\ stage'[d] = "hello"
      BY <1>4 DEF FrameInv, LinkInv, LinkTypes
    <3> QED  BY <3>1, <3>2 DEF FrameInv, HelloFirst
  <2> QED  BY <2>1, <2>2
<1>9. HelloComes'
  <2> SUFFICES ASSUME NEW k \in Links, stage'[<<k, k[2]>>] = "accepting"
               PROVE  \/ stage'[<<k, k[1]>>] = "idle"
                      \/ stage'[<<k, k[1]>>] = "hello" /\ inbox'[<<k, k[1]>>] = <<>>
    BY DEF HelloComes
  <2>1. PICK g \in Ends, h \in Ends : g = <<k, k[1]>> /\ h = <<k, k[2]>>  BY EndsOfLinks
  <2>2. k # l  BY <2>1, <1>2, <1>4 DEF FrameInv, LinkInv, LinkTypes
  <2>3. g \notin {e, f} /\ h # f  BY <2>1, <2>2, <1>1, <1>2
  <2>4. stage'[g] = stage[g] /\ stage'[h] = stage[h] /\ inbox'[g] = inbox[g]
    BY <2>3, <1>4 DEF FrameInv, LinkInv, LinkTypes, TrafficTypes
  <2> QED  BY <2>1, <2>4 DEF FrameInv, HelloComes
<1>10. FloodsServed'
  <2>1. \A d \in Ends : stage[d] = "serving" => stage'[d] = "serving"
    BY <1>4 DEF FrameInv, LinkInv, LinkTypes
  <2> QED  BY <2>1, <1>4, FloodsKeep
<1> QED  BY <1>7, <1>8, <1>9, <1>10

LEMMA HandshakeFrames ==
    ASSUME FrameInv, NEW f \in Ends, Handshake(f)
    PROVE  TrafficTypes' /\ HelloFirst' /\ HelloComes' /\ FloodsServed'
<1>1. /\ stage[f] = "hello" /\ stage' = [stage EXCEPT ![f] = "serving"]
      /\ inbox[f] # <<>> /\ inbox' = [inbox EXCEPT ![f] = Tail(@)]
      /\ UNCHANGED <<seen, task, origin, handled>>
  BY DEF Handshake
<1>2. inbox[f] \in Seq(Frames) /\ Tail(inbox[f]) \in Seq(Frames)
  BY <1>1, SetOfTail DEF FrameInv, TrafficTypes
<1>3. TrafficTypes'  BY <1>1, <1>2 DEF FrameInv, TrafficTypes
<1>4. HelloFirst'
  <2>1. Hello \notin ToSet(Tail(inbox[f]))
    BY <1>1, <1>2, HelloInFrames DEF FrameInv, HelloFirst
  <2>2. inbox'[f] = Tail(inbox[f]) /\ stage'[f] = "serving"
    BY <1>1 DEF FrameInv, LinkInv, LinkTypes, TrafficTypes
  <2>3. \A d \in Ends \ {f} : inbox'[d] = inbox[d] /\ stage'[d] = stage[d]
    BY <1>1 DEF FrameInv, LinkInv, LinkTypes, TrafficTypes
  <2> QED  BY <2>1, <2>2, <2>3 DEF FrameInv, HelloFirst
<1>5. HelloComes'
  <2> SUFFICES ASSUME NEW k \in Links, stage'[<<k, k[2]>>] = "accepting"
               PROVE  \/ stage'[<<k, k[1]>>] = "idle"
                      \/ stage'[<<k, k[1]>>] = "hello" /\ inbox'[<<k, k[1]>>] = <<>>
    BY DEF HelloComes
  <2>1. PICK g \in Ends, h \in Ends : g = <<k, k[1]>> /\ h = <<k, k[2]>>  BY EndsOfLinks
  <2>2. h # f /\ stage'[h] = stage[h]  BY <2>1, <1>1 DEF FrameInv, LinkInv, LinkTypes
  <2>3. stage[g] = "idle" \/ (stage[g] = "hello" /\ inbox[g] = <<>>)
    BY <2>1, <2>2 DEF FrameInv, HelloComes
  <2>4. g # f  BY <2>3, <1>1
  <2>5. stage'[g] = stage[g] /\ inbox'[g] = inbox[g]
    BY <2>4, <1>1 DEF FrameInv, LinkInv, LinkTypes, TrafficTypes
  <2> QED  BY <2>1, <2>3, <2>5
<1>6. FloodsServed'
  <2>1. \A d \in Ends : stage[d] = "serving" => stage'[d] = "serving"
    BY <1>1 DEF FrameInv, LinkInv, LinkTypes
  <2> QED  BY <2>1, <1>1, FloodsKeep
<1> QED  BY <1>3, <1>4, <1>5, <1>6

\* An end of a link that is not in service gives up; the traffic stays.
LEMMA TrafficSame ==
    ASSUME FrameInv, UNCHANGED traffic,
           \A e \in Ends : \/ stage'[e] = stage[e]
                           \/ stage[e] # "serving" /\ stage'[e] = "idle"
    PROVE  TrafficTypes' /\ HelloFirst' /\ HelloComes' /\ FloodsServed'
<1>1. UNCHANGED <<inbox, seen, task, origin, handled>>  BY DEF traffic
<1>2. TrafficTypes'  BY <1>1 DEF FrameInv, TrafficTypes
<1>3. HelloFirst' /\ HelloComes'
  <2>1. inbox' \in [Ends -> Seq(Frames)]  BY <1>1 DEF FrameInv, TrafficTypes
  <2>2. \A e \in Ends : InboxStep(e)  BY <1>1 DEF InboxStep
  <2>3. \A e \in Ends : stage'[e] = stage[e] \/ stage'[e] = "idle"  OBVIOUS
  <2> QED  BY <2>1, <2>2, <2>3, InboxKeeps
<1>4. FloodsServed'
  <2>1. \A e \in Ends : stage[e] = "serving" => stage'[e] = "serving"  OBVIOUS
  <2> QED  BY <2>1, <1>1, FloodsKeep
<1> QED  BY <1>2, <1>3, <1>4

LEMMA HandshakeFailsFrames ==
    ASSUME FrameInv, NEW f \in Ends, HandshakeFails(f)
    PROVE  TrafficTypes' /\ HelloFirst' /\ HelloComes' /\ FloodsServed'
<1>1. \A e \in Ends : stage'[e] = stage[e] \/ (stage[e] # "serving" /\ stage'[e] = "idle")
  BY DEF HandshakeFails, FrameInv, LinkInv, LinkTypes
<1> QED  BY <1>1, TrafficSame DEF HandshakeFails

LEMMA StopClosesFrames ==
    ASSUME FrameInv, NEW n \in Nodes, StopCloses(n)
    PROVE  TrafficTypes' /\ HelloFirst' /\ HelloComes' /\ FloodsServed'
<1>1. \A e \in Ends : stage'[e] = stage[e] \/ (stage[e] # "serving" /\ stage'[e] = "idle")
  BY DEF StopCloses, Backlog, FrameInv, LinkInv, LinkTypes
<1> QED  BY <1>1, TrafficSame DEF StopCloses

\* The end of a link counts at most the message that was being delivered.
LEMMA EndCounts ==
    ASSUME TrafficTypes, NEW f \in Ends, TearDown(f) \/ DeliverFails(f)
    PROVE  /\ handled' \in [Nodes -> [Messages -> Nat]]
           /\ \A n \in Nodes, m \in Messages : handled'[n][m] \in {handled[n][m], handled[n][m] + 1}
<1>1. handled \in [Nodes -> [Messages -> Nat]] /\ f[2] \in Nodes
  BY EndsOfLinks DEF TrafficTypes
<1>2. CASE TearDown(f)  BY <1>1, <1>2 DEF TearDown
<1>3. CASE DeliverFails(f)
  <2>1. handled' = [handled EXCEPT ![f[2]][task[f].msg] = @ + 1] /\ task[f].step = "deliver"
    BY <1>3 DEF DeliverFails
  <2>2. task[f].msg \in Messages  BY <2>1 DEF TrafficTypes, Calls, Tasks
  <2> QED  BY <1>1, <2>1, <2>2
<1> QED  BY <1>2, <1>3

\* A link that goes out of service is taken out of the floods of its node.
LEMMA TearDownFrames ==
    ASSUME FrameInv, NEW f \in Ends, TearDown(f) \/ DeliverFails(f)
    PROVE  TrafficTypes' /\ HelloFirst' /\ HelloComes' /\ FloodsServed'
<1>1. f = <<f[1], f[2]>> /\ f[1] \in Links /\ f[2] \in Nodes  BY EndsOfLinks
<1>2. /\ stage' = [stage EXCEPT ![f] = "idle"]
      /\ task' = [t \in Tasks |->
                     IF t = f THEN NoTask
                     ELSE IF NodeOf(t) = f[2] THEN [task[t] EXCEPT !.to = Without(@, f[1])]
                     ELSE task[t]]
      /\ UNCHANGED <<inbox, seen, origin>>
  BY DEF TearDown, DeliverFails, LinkEnds
<1>3. ASSUME NEW t \in Tasks
      PROVE  /\ task'[t] \in Calls /\ Distinct(task'[t].to)
             /\ task'[t].to # <<>> => task'[t].msg \in Messages
             /\ \A l \in ToSet(task'[t].to) :
                   <<l, NodeOf(t)>> \in Ends /\ stage'[<<l, NodeOf(t)>>] = "serving"
  <2>1. /\ task[t] \in Calls /\ Distinct(task[t].to)
        /\ task[t].to # <<>> => task[t].msg \in Messages
        /\ \A l \in ToSet(task[t].to) :
              <<l, NodeOf(t)>> \in Ends /\ stage[<<l, NodeOf(t)>>] = "serving"
    BY DEF FrameInv, TrafficTypes, FloodsServed
  <2>2. CASE t = f
    <3>1. task'[t] = NoTask  BY <2>2, <1>2
    <3>2. <<>> \in Seq(Links) /\ ToSet(<<>>) = {} /\ Distinct(<<>>)
      BY EmptySeq DEF ToSet, Distinct
    <3> QED  BY <3>1, <3>2 DEF NoTask, Calls
  <2>3. CASE t # f /\ NodeOf(t) = f[2]
    <3>1. PICK w : w = Without(task[t].to, f[1])  OBVIOUS
    <3>2. task'[t] = [task[t] EXCEPT !.to = w]  BY <2>3, <3>1, <1>2
    <3>3. task[t].to \in Seq(Links)  BY <2>1 DEF Calls
    <3>4. w \in Seq(Links) /\ Distinct(w) /\ ToSet(w) = ToSet(task[t].to) \ {f[1]}
      BY <2>1, <3>1, <3>3, SetOfWithout
    <3>5. task'[t] \in Calls /\ task'[t].to = w /\ task'[t].msg = task[t].msg
      BY <3>2, <3>4, <2>1 DEF Calls
    <3>6. task[t].to = <<>> => w = <<>>  BY <3>1 DEF Without, ToSet
    <3>7. \A l \in ToSet(w) : <<l, NodeOf(t)>> \in Ends /\ stage'[<<l, NodeOf(t)>>] = "serving"
      BY <3>4, <2>1, <1>1, <1>2 DEF FrameInv, LinkInv, LinkTypes
    <3> QED  BY <3>4, <3>5, <3>6, <3>7, <2>1
  <2>4. CASE t # f /\ NodeOf(t) # f[2]
    <3>1. task'[t] = task[t]  BY <2>4, <1>2
    <3>2. \A l \in ToSet(task[t].to) : <<l, NodeOf(t)>> # f  BY <2>4, <1>1
    <3> QED  BY <3>1, <3>2, <2>1, <1>2 DEF FrameInv, LinkInv, LinkTypes
  <2> QED  BY <2>2, <2>3, <2>4
<1>4. TrafficTypes'
  <2>1. task' \in [Tasks -> Calls]  BY <1>2, <1>3
  <2>2. handled' \in [Nodes -> [Messages -> Nat]]  BY EndCounts DEF FrameInv
  <2> QED  BY <2>1, <2>2, <1>2 DEF FrameInv, TrafficTypes
<1>5. FloodsServed'
  <2>1. UNCHANGED origin  BY <1>2
  <2> QED  BY <1>3, <2>1 DEF FloodsServed, NodeOf
<1>6. HelloFirst' /\ HelloComes'
  <2>1. inbox' \in [Ends -> Seq(Frames)]  BY <1>2 DEF FrameInv, TrafficTypes
  <2>2. \A e \in Ends : InboxStep(e)  BY <1>2 DEF InboxStep
  <2>3. \A e \in Ends : stage'[e] = stage[e] \/ stage'[e] = "idle"
    BY <1>2 DEF FrameInv, LinkInv, LinkTypes
  <2> QED  BY <2>1, <2>2, <2>3, InboxKeeps
<1> QED  BY <1>4, <1>5, <1>6

\* The writers a flood takes are the registered ones: links in service, each once.
LEMMA TargetsServe ==
    ASSUME FrameInv, NEW n \in Nodes, NEW x, NEW s \in Targets(n, x)
    PROVE  /\ s \in Seq(Links) /\ Distinct(s)
           /\ \A l \in ToSet(s) : <<l, n>> \in Ends /\ stage[<<l, n>>] = "serving"
           /\ \A m \in Nodes \ {x} : peers[n][m] # NoLink => peers[n][m] \in ToSet(s)
<1> DEFINE T == {peers[n][m] : m \in Nodes \ {x}} \ {NoLink}
<1>1. IsFiniteSet(T)
  <2>1. IsFiniteSet(Nodes)  BY MeshAssumption
  <2>2. PICK f : f = [m \in Nodes |-> peers[n][m]]  OBVIOUS
  <2>3. PICK S : S = {f[m] : m \in Nodes}  OBVIOUS
  <2>4. f \in Surjection(Nodes, S)  BY <2>2, <2>3 DEF Surjection
  <2>5. IsFiniteSet(S)  BY <2>1, <2>4, FS_Surjection
  <2>6. T \in SUBSET S  BY <2>2, <2>3
  <2> QED  BY <2>5, <2>6, FS_Subset
<1>2. T \subseteq Links /\ \A l \in T : <<l, n>> \in Ends /\ stage[<<l, n>>] = "serving"
  BY DEF FrameInv, LinkInv, LinkTypes, RegisteredServes
<1>3. s \in SetToSeqs(T)  BY DEF Targets
<1>4. \A m \in Nodes \ {x} : peers[n][m] # NoLink => peers[n][m] \in T  OBVIOUS
<1> HIDE DEF T
<1>5. s \in Seq(T) /\ Distinct(s) /\ ToSet(s) = T  BY <1>1, <1>3, SetOfOrder
<1> QED  BY <1>2, <1>4, <1>5, SeqMonotonic

LEMMA FramesStay ==
    ASSUME FrameInv, UNCHANGED <<inbox, stage>>
    PROVE  HelloFirst' /\ HelloComes'
<1>1. inbox' \in [Ends -> Seq(Frames)]  BY DEF FrameInv, TrafficTypes
<1>2. \A e \in Ends : InboxStep(e)  BY DEF InboxStep
<1> QED  BY <1>1, <1>2, InboxKeeps

LEMMA RelayFrames ==
    ASSUME FrameInv, NEW n \in Nodes, NEW m \in Messages, Relay(n, m)
    PROVE  TrafficTypes' /\ HelloFirst' /\ HelloComes' /\ FloodsServed'
<1>1. /\ origin[m] = NoNode /\ origin' = [origin EXCEPT ![m] = n]
      /\ seen' = [seen EXCEPT ![n] = Remembered(@, m, CacheSize)]
      /\ handled' = [handled EXCEPT ![n][m] = @ + 1]
      /\ UNCHANGED <<inbox, stage>>
  BY DEF Relay, RecordOrigin, links
<1>2. PICK to \in Targets(n, n) :
        task' = [task EXCEPT ![m] = [msg |-> m, step |-> "flood", to |-> to]]
  BY DEF Relay
<1>3. /\ to \in Seq(Links) /\ Distinct(to)
      /\ \A l \in ToSet(to) : <<l, n>> \in Ends /\ stage[<<l, n>>] = "serving"
  BY TargetsServe
<1>4. PICK c : c = [msg |-> m, step |-> "flood", to |-> to]  OBVIOUS
<1>5. c \in Calls /\ c.to = to /\ c.msg = m  BY <1>3, <1>4 DEF Calls
<1>6. task' = [task EXCEPT ![m] = c] /\ m \in Tasks  BY <1>2, <1>4 DEF Tasks
<1>7. seen' \in [Nodes -> Seq(Messages)] /\ \A k \in Nodes : Distinct(seen'[k])
  <2>1. seen[n] \in Seq(Messages) /\ Distinct(seen[n])  BY DEF FrameInv, TrafficTypes
  <2>2. PICK r : r = Remembered(seen[n], m, CacheSize)  OBVIOUS
  <2>3. r \in Seq(Messages) /\ Distinct(r)  BY <2>1, <2>2, RememberedType
  <2>4. seen' = [seen EXCEPT ![n] = r]  BY <1>1, <2>2
  <2> QED  BY <2>3, <2>4 DEF FrameInv, TrafficTypes
<1>8. TrafficTypes'
  <2>1. task' \in [Tasks -> Calls]  BY <1>5, <1>6 DEF FrameInv, TrafficTypes
  <2>2. origin' \in [Messages -> Nodes \cup {NoNode}]  BY <1>1 DEF FrameInv, TrafficTypes
  <2>3. handled' \in [Nodes -> [Messages -> Nat]]  BY <1>1 DEF FrameInv, TrafficTypes
  <2> QED  BY <2>1, <2>2, <2>3, <1>1, <1>7 DEF FrameInv, TrafficTypes
<1>9. FloodsServed'
  <2> SUFFICES ASSUME NEW t \in Tasks, NEW k, k = IF t \in Messages THEN origin'[t] ELSE t[2]
               PROVE  /\ Distinct(task'[t].to)
                      /\ task'[t].to # <<>> => task'[t].msg \in Messages
                      /\ \A l \in ToSet(task'[t].to) :
                            <<l, k>> \in Ends /\ stage'[<<l, k>>] = "serving"
    BY DEF FloodsServed, NodeOf
  <2>1. CASE t = m
    <3>1. task'[t] = c /\ k = n  BY <2>1, <1>1, <1>6 DEF FrameInv, TrafficTypes
    <3> QED  BY <3>1, <1>1, <1>3, <1>5
  <2>2. CASE t # m
    <3>1. task'[t] = task[t] /\ k = NodeOf(t)
      BY <2>2, <1>1, <1>6 DEF FrameInv, TrafficTypes, NodeOf
    <3> QED  BY <3>1, <1>1 DEF FrameInv, FloodsServed
  <2> QED  BY <2>1, <2>2
<1> QED  BY <1>1, <1>8, <1>9, FramesStay

\* What a read loop reads is a message.
LEMMA ReceiveFrames ==
    ASSUME FrameInv, NEW e \in Ends, Receive(e)
    PROVE  /\ TrafficTypes' /\ HelloFirst' /\ HelloComes' /\ FloodsServed'
           /\ Head(inbox[e]) \in Messages
<1>1. PICK n \in Nodes : n = e[2]  BY EndsOfLinks
<1>2. PICK m : m = Head(inbox[e])  OBVIOUS
<1>3. /\ stage[e] = "serving" /\ task[e] = NoTask /\ inbox[e] # <<>>
      /\ inbox' = [inbox EXCEPT ![e] = Tail(@)]
      /\ seen' = [seen EXCEPT ![n] = Remembered(@, m, CacheSize)]
      /\ task' = (IF SeenBefore(seen[n], m) THEN task
                  ELSE [task EXCEPT ![e] = [msg |-> m, step |-> "deliver", to |-> <<>>]])
      /\ UNCHANGED <<stage, origin, handled>>
  BY <1>1, <1>2 DEF Receive, links
<1>4. PICK s \in Seq(Frames) : s = inbox[e]  BY DEF FrameInv, TrafficTypes
<1>5. Tail(s) \in Seq(Frames) /\ Head(s) \in Frames /\ Head(s) \in ToSet(s)
  BY <1>3, <1>4, SetOfTail
<1>6. m \in Messages  BY <1>2, <1>3, <1>4, <1>5 DEF FrameInv, HelloFirst, Frames
<1>7. seen' \in [Nodes -> Seq(Messages)] /\ \A k \in Nodes : Distinct(seen'[k])
  <2>1. seen[n] \in Seq(Messages) /\ Distinct(seen[n])  BY DEF FrameInv, TrafficTypes
  <2>2. PICK r : r = Remembered(seen[n], m, CacheSize)  OBVIOUS
  <2>3. r \in Seq(Messages) /\ Distinct(r)  BY <1>6, <2>1, <2>2, RememberedType
  <2>4. seen' = [seen EXCEPT ![n] = r]  BY <1>3, <2>2
  <2> QED  BY <2>3, <2>4 DEF FrameInv, TrafficTypes
<1>8. PICK c : c = [msg |-> m, step |-> "deliver", to |-> <<>>]  OBVIOUS
<1>9. c \in Calls /\ c.to = <<>> /\ e \in Tasks  BY <1>6, <1>8, EmptySeq DEF Calls, Tasks
<1>10. task' = task \/ task' = [task EXCEPT ![e] = c]  BY <1>3, <1>8
<1>11. inbox' \in [Ends -> Seq(Frames)]  BY <1>3, <1>4, <1>5 DEF FrameInv, TrafficTypes
<1>12. TrafficTypes'
  <2>1. task' \in [Tasks -> Calls]  BY <1>9, <1>10 DEF FrameInv, TrafficTypes
  <2> QED  BY <2>1, <1>3, <1>7, <1>11 DEF FrameInv, TrafficTypes
<1>13. HelloFirst' /\ HelloComes'
  <2>1. \A d \in Ends : InboxStep(d)  BY <1>3 DEF InboxStep, FrameInv, TrafficTypes
  <2> QED  BY <2>1, <1>3, <1>11, InboxKeeps
<1>14. FloodsServed'
  <2>1. \A t \in Tasks : \/ task'[t].to = <<>>
                         \/ task'[t].to = task[t].to /\ task'[t].msg = task[t].msg
    BY <1>9, <1>10 DEF FrameInv, TrafficTypes
  <2> QED  BY <2>1, <1>3, FloodsKeep
<1> QED  BY <1>2, <1>6, <1>12, <1>13, <1>14

LEMMA DeliverFrames ==
    ASSUME FrameInv, NEW e \in Ends, Deliver(e)
    PROVE  TrafficTypes' /\ HelloFirst' /\ HelloComes' /\ FloodsServed'
<1>1. PICK n \in Nodes : n = e[2] /\ NodeOf(e) = n
  BY EndsOfLinks, MeshAssumption DEF NodeOf
<1>2. PICK m : m = task[e].msg  OBVIOUS
<1>3. /\ task[e].step = "deliver" /\ handled' = [handled EXCEPT ![n][m] = @ + 1]
      /\ UNCHANGED <<stage, inbox, seen, origin>>
  BY <1>1, <1>2 DEF Deliver, links
<1>4. PICK to \in Targets(n, Peer(e[1], n)) :
        task' = [task EXCEPT ![e] = [@ EXCEPT !.step = "flood", !.to = to]]
  BY <1>1 DEF Deliver, Onward
<1>5. /\ to \in Seq(Links) /\ Distinct(to)
      /\ \A l \in ToSet(to) : <<l, n>> \in Ends /\ stage[<<l, n>>] = "serving"
  BY TargetsServe
<1>6. e \in Tasks /\ task[e] \in Calls  BY DEF Tasks, FrameInv, TrafficTypes
<1>7. m \in Messages  BY <1>2, <1>3, <1>6 DEF Calls
<1>8. PICK c : c = [task[e] EXCEPT !.step = "flood", !.to = to]  OBVIOUS
<1>9. c \in Calls /\ c.to = to /\ c.msg = m  BY <1>2, <1>5, <1>6, <1>7, <1>8 DEF Calls
<1>10. task' = [task EXCEPT ![e] = c]  BY <1>4, <1>8
<1>11. TrafficTypes'
  <2>1. task' \in [Tasks -> Calls]  BY <1>9, <1>10 DEF FrameInv, TrafficTypes
  <2>2. handled' \in [Nodes -> [Messages -> Nat]]  BY <1>3, <1>7 DEF FrameInv, TrafficTypes
  <2> QED  BY <2>1, <2>2, <1>3 DEF FrameInv, TrafficTypes
<1>12. FloodsServed'
  <2> SUFFICES ASSUME NEW t \in Tasks
               PROVE  /\ Distinct(task'[t].to)
                      /\ task'[t].to # <<>> => task'[t].msg \in Messages
                      /\ \A l \in ToSet(task'[t].to) :
                            <<l, NodeOf(t)>> \in Ends /\ stage'[<<l, NodeOf(t)>>] = "serving"
    BY <1>3 DEF FloodsServed, NodeOf
  <2>1. CASE t = e
    <3>1. task'[t] = c  BY <2>1, <1>6, <1>10 DEF FrameInv, TrafficTypes
    <3> QED  BY <3>1, <2>1, <1>1, <1>3, <1>5, <1>7, <1>9
  <2>2. CASE t # e
    <3>1. task'[t] = task[t]  BY <2>2, <1>10 DEF FrameInv, TrafficTypes
    <3> QED  BY <3>1, <1>3 DEF FrameInv, FloodsServed
  <2> QED  BY <2>1, <2>2
<1> QED  BY <1>3, <1>11, <1>12, FramesStay

\* A flood writes a message into a connection that its own end has in service.
LEMMA FloodWriteFrames ==
    ASSUME FrameInv, NEW t \in Tasks, FloodWrite(t)
    PROVE  TrafficTypes' /\ HelloFirst' /\ HelloComes' /\ FloodsServed'
<1>1. PICK c \in Calls : c = task[t]  BY DEF FrameInv, TrafficTypes
<1>2. PICK l : l = Head(c.to)  OBVIOUS
<1>3. PICK n : n = NodeOf(t)  OBVIOUS
<1>4. c.to # <<>> /\ c.to \in Seq(Links)  BY <1>1 DEF FloodWrite, Calls
<1>5. /\ Distinct(c.to) /\ c.msg \in Messages
      /\ \A k \in ToSet(c.to) : <<k, n>> \in Ends /\ stage[<<k, n>>] = "serving"
  BY <1>1, <1>3, <1>4 DEF FrameInv, FloodsServed
<1>6. /\ l \in ToSet(c.to) /\ Tail(c.to) \in Seq(Links) /\ Distinct(Tail(c.to))
      /\ ToSet(Tail(c.to)) \subseteq ToSet(c.to)
  BY <1>2, <1>4, <1>5, SetOfTail
<1>7. PICK e \in Ends : e = <<l, n>> /\ stage[e] = "serving"  BY <1>5, <1>6
<1>8. PICK f \in Ends : f = <<l, Peer(l, n)>> /\ Other(f) = e
  <2>1. Other(e) = <<l, Peer(l, n)>> /\ Other(e) \in Ends  BY <1>7, EndsOfLinks DEF Other
  <2>2. Other(Other(e)) = e  BY <2>1, <1>7, EndsOfLinks DEF Other, Peer
  <2> QED  BY <2>1, <2>2
<1>9. /\ inbox' = inbox \/ inbox' = [inbox EXCEPT ![f] = Append(@, c.msg)]
      /\ task' = [task EXCEPT ![t].to = Tail(@)]
      /\ UNCHANGED <<stage, seen, origin, handled>>
  BY <1>1, <1>2, <1>3, <1>8 DEF FloodWrite, links
<1>10. inbox' \in [Ends -> Seq(Frames)]
  <2>1. c.msg \in Frames /\ inbox[f] \in Seq(Frames)
    BY <1>5 DEF Frames, FrameInv, TrafficTypes
  <2>2. Append(inbox[f], c.msg) \in Seq(Frames)  BY <2>1, SetOfAppend
  <2> QED  BY <2>2, <1>9 DEF FrameInv, TrafficTypes
<1>11. PICK d : d = [c EXCEPT !.to = Tail(@)]  OBVIOUS
<1>12. d \in Calls /\ d.to = Tail(c.to) /\ d.msg = c.msg  BY <1>6, <1>11 DEF Calls
<1>13. task' = [task EXCEPT ![t] = d]  BY <1>1, <1>9, <1>11
<1>14. TrafficTypes'
  <2>1. task' \in [Tasks -> Calls]  BY <1>12, <1>13 DEF FrameInv, TrafficTypes
  <2> QED  BY <2>1, <1>9, <1>10 DEF FrameInv, TrafficTypes
<1>15. HelloFirst' /\ HelloComes'
  <2>1. \A g \in Ends : InboxStep(g)
    BY <1>5, <1>7, <1>8, <1>9 DEF InboxStep, FrameInv, TrafficTypes
  <2> QED  BY <2>1, <1>9, <1>10, InboxKeeps
<1>16. FloodsServed'
  <2> SUFFICES ASSUME NEW u \in Tasks
               PROVE  /\ Distinct(task'[u].to)
                      /\ task'[u].to # <<>> => task'[u].msg \in Messages
                      /\ \A k \in ToSet(task'[u].to) :
                            <<k, NodeOf(u)>> \in Ends /\ stage'[<<k, NodeOf(u)>>] = "serving"
    BY <1>9 DEF FloodsServed, NodeOf
  <2>1. CASE u = t
    <3>1. task'[u] = d  BY <2>1, <1>13 DEF FrameInv, TrafficTypes
    <3> QED  BY <3>1, <2>1, <1>3, <1>5, <1>6, <1>9, <1>12
  <2>2. CASE u # t
    <3>1. task'[u] = task[u]  BY <2>2, <1>13 DEF FrameInv, TrafficTypes
    <3> QED  BY <3>1, <1>9 DEF FrameInv, FloodsServed
  <2> QED  BY <2>1, <2>2
<1> QED  BY <1>14, <1>15, <1>16

LEMMA FloodDoneFrames ==
    ASSUME FrameInv, NEW t \in Tasks, FloodDone(t)
    PROVE  TrafficTypes' /\ HelloFirst' /\ HelloComes' /\ FloodsServed'
<1>1. /\ task' = [task EXCEPT ![t] = NoTask]
      /\ UNCHANGED <<stage, inbox, seen, origin, handled>>
  BY DEF FloodDone, links
<1>2. NoTask \in Calls /\ NoTask.to = <<>>  BY EmptySeq DEF NoTask, Calls
<1>3. TrafficTypes'
  <2>1. task' \in [Tasks -> Calls]  BY <1>1, <1>2 DEF FrameInv, TrafficTypes
  <2> QED  BY <2>1, <1>1 DEF FrameInv, TrafficTypes
<1>4. FloodsServed'
  <2>1. \A u \in Tasks : \/ task'[u].to = <<>>
                         \/ task'[u].to = task[u].to /\ task'[u].msg = task[u].msg
    BY <1>1, <1>2 DEF FrameInv, TrafficTypes
  <2> QED  BY <2>1, <1>1, FloodsKeep
<1> QED  BY <1>1, <1>3, <1>4, FramesStay

\* The floods of a node that is gone are gone.
LEMMA GoneFrames ==
    ASSUME FrameInv, NEW n \in Nodes, Gone(n)
    PROVE  TrafficTypes' /\ HelloFirst' /\ HelloComes' /\ FloodsServed'
<1>1. /\ stage' = [e \in Ends |-> IF e[2] = n THEN "idle" ELSE stage[e]]
      /\ seen' = [seen EXCEPT ![n] = <<>>]
      /\ task' = [t \in Tasks |-> IF NodeOf(t) = n THEN NoTask ELSE task[t]]
      /\ handled' = [handled EXCEPT ![n] = [m \in Messages |-> 0]]
      /\ UNCHANGED <<inbox, origin>>
  BY DEF Gone
<1>2. /\ NoTask \in Calls /\ NoTask.to = <<>> /\ <<>> \in Seq(Messages)
      /\ Distinct(<<>>) /\ ToSet(<<>>) = {}
  BY EmptySeq DEF NoTask, Calls, Distinct, ToSet
<1>3. TrafficTypes'
  <2>1. task' \in [Tasks -> Calls]  BY <1>1, <1>2 DEF FrameInv, TrafficTypes
  <2>2. seen' \in [Nodes -> Seq(Messages)] /\ \A k \in Nodes : Distinct(seen'[k])
    BY <1>1, <1>2 DEF FrameInv, TrafficTypes
  <2>3. handled' \in [Nodes -> [Messages -> Nat]]  BY <1>1 DEF FrameInv, TrafficTypes
  <2> QED  BY <2>1, <2>2, <2>3, <1>1 DEF FrameInv, TrafficTypes
<1>4. HelloFirst' /\ HelloComes'
  <2>1. inbox' \in [Ends -> Seq(Frames)]  BY <1>3 DEF TrafficTypes
  <2>2. \A e \in Ends : InboxStep(e)  BY <1>1 DEF InboxStep
  <2>3. \A e \in Ends : stage'[e] = stage[e] \/ stage'[e] = "idle"  BY <1>1
  <2> QED  BY <2>1, <2>2, <2>3, InboxKeeps
<1>5. FloodsServed'
  <2> SUFFICES ASSUME NEW t \in Tasks
               PROVE  /\ Distinct(task'[t].to)
                      /\ task'[t].to # <<>> => task'[t].msg \in Messages
                      /\ \A l \in ToSet(task'[t].to) :
                            <<l, NodeOf(t)>> \in Ends /\ stage'[<<l, NodeOf(t)>>] = "serving"
    BY <1>1 DEF FloodsServed, NodeOf
  <2>1. CASE NodeOf(t) = n  BY <2>1, <1>1, <1>2
  <2>2. CASE NodeOf(t) # n
    <3>1. task'[t] = task[t]  BY <2>2, <1>1
    <3>2. \A l \in ToSet(task[t].to) : /\ <<l, NodeOf(t)>> \in Ends
                                       /\ stage'[<<l, NodeOf(t)>>] = stage[<<l, NodeOf(t)>>]
      BY <2>2, <1>1 DEF FrameInv, FloodsServed
    <3> QED  BY <3>1, <3>2 DEF FrameInv, FloodsServed
  <2> QED  BY <2>1, <2>2
<1> QED  BY <1>3, <1>4, <1>5

\* What is lost with a connection is a suffix of what was on its way.
LEMMA LoseFrames ==
    ASSUME FrameInv, NEW l \in Links, Lose(l)
    PROVE  /\ TrafficTypes' /\ HelloFirst' /\ HelloComes' /\ FloodsServed'
           /\ \A d \in Ends : \E n \in 0 .. Len(inbox[d]) :
                 inbox'[d] = inbox[d] \/ inbox'[d] = SubSeq(inbox[d], 1, n)
<1>1. PICK e \in Ends : e = <<l, l[1]>>  BY EndsOfLinks
<1>2. PICK f \in Ends : f = <<l, l[2]>>  BY EndsOfLinks
<1>3. e # f  BY <1>1, <1>2, EndsOfLinks
<1>4. PICK i \in 0 .. Len(inbox[e]), j \in 0 .. Len(inbox[f]) :
        inbox' = [inbox EXCEPT ![e] = SubSeq(@, 1, i), ![f] = SubSeq(@, 1, j)]
  BY <1>1, <1>2 DEF Lose
<1>5. UNCHANGED <<stage, seen, task, origin, handled>>  BY DEF Lose
<1>6. inbox[e] \in Seq(Frames) /\ inbox[f] \in Seq(Frames)  BY DEF FrameInv, TrafficTypes
<1>7. SubSeq(inbox[e], 1, i) \in Seq(Frames) /\ SubSeq(inbox[f], 1, j) \in Seq(Frames)
  BY <1>6, SetOfPrefix
<1>8. \A d \in Ends : inbox'[d] = (IF d = e THEN SubSeq(inbox[d], 1, i)
                                   ELSE IF d = f THEN SubSeq(inbox[d], 1, j) ELSE inbox[d])
  BY <1>3, <1>4 DEF FrameInv, TrafficTypes
<1>9. inbox' \in [Ends -> Seq(Frames)]  BY <1>4, <1>7 DEF FrameInv, TrafficTypes
<1>10. TrafficTypes'  BY <1>5, <1>9 DEF FrameInv, TrafficTypes
<1>11. HelloFirst' /\ HelloComes'
  <2>1. \A d \in Ends : InboxStep(d)  BY <1>8 DEF InboxStep
  <2> QED  BY <2>1, <1>5, <1>9, InboxKeeps
<1>12. FloodsServed'  BY <1>5, FloodsKeep
<1>13. ASSUME NEW d \in Ends
       PROVE  \E n \in 0 .. Len(inbox[d]) : inbox'[d] = inbox[d] \/ inbox'[d] = SubSeq(inbox[d], 1, n)
  <2>1. Len(inbox[d]) \in Nat  BY LenProperties DEF FrameInv, TrafficTypes
  <2>2. CASE d = e  BY <2>2, <1>8
  <2>3. CASE d # e /\ d = f
    <3>1. inbox'[d] = SubSeq(inbox[d], 1, j)  BY <2>3, <1>8
    <3> QED  BY <3>1, <2>3
  <2>4. CASE d # e /\ d # f
    <3>1. inbox'[d] = inbox[d] /\ 0 \in 0 .. Len(inbox[d])  BY <2>1, <2>4, <1>8
    <3> QED  BY <3>1
  <2> QED  BY <2>2, <2>3, <2>4
<1> QED  BY <1>10, <1>11, <1>12, <1>13

LEMMA FrameStepKeeps ==
    ASSUME FrameInv, [Next]_vars
    PROVE  FrameInv'
<1>1. LinkInv'  BY LinkStepKeeps DEF FrameInv
<1>2. ASSUME UNCHANGED traffic, UNCHANGED stage
      PROVE  TrafficTypes' /\ HelloFirst' /\ HelloComes' /\ FloodsServed'
  BY <1>2, TrafficSame
<1>3. CASE LinkStep
  BY <1>1, <1>3, DialFrames, AcceptFrames, HandshakeFrames, HandshakeFailsFrames,
     TearDownFrames
  DEF LinkStep, FrameInv
<1>4. CASE MessageStep
  BY <1>1, <1>4, RelayFrames, ReceiveFrames, DeliverFrames, FloodWriteFrames, FloodDoneFrames
  DEF MessageStep, FrameInv
<1>5. CASE NodeStep
  <2>1. ASSUME NEW n \in Nodes, Stop(n) \/ Start(n) \/ Hang(n) \/ Resume(n) PROVE FrameInv'
    BY <2>1, <1>1, <1>2 DEF Stop, Start, Hang, Resume, FrameInv, links
  <2>2. ASSUME NEW n \in Nodes, Exit(n) \/ Crash(n) PROVE FrameInv'
    BY <2>2, <1>1, GoneFrames DEF Exit, Crash, FrameInv
  <2> QED  BY <1>1, <1>5, <2>1, <2>2, StopClosesFrames, LoseFrames, TearDownFrames
           DEF NodeStep, FrameInv
<1>6. CASE UNCHANGED vars  BY <1>1, <1>2, <1>6 DEF vars, links, FrameInv
<1> QED  BY <1>3, <1>4, <1>5, <1>6 DEF Next

----------------------------------------------------------------------------
\* What a node remembers and handles

\* There is room in the cache for every message id there is.
RemembersAll == IsFiniteSet(Messages) /\ Cardinality(Messages) <= CacheSize

\* A message that nobody has relayed yet is nowhere.
Unsent == \A m \in Messages : origin[m] = NoNode =>
    /\ \A n \in Nodes : handled[n][m] = 0 /\ m \notin ToSet(seen[n])
    /\ \A e \in Ends : m \notin ToSet(inbox[e])
    /\ \A t \in Tasks : task[t].msg # m

\* What a node has handled in this life is in its cache.
HandledSeen == \A n \in Nodes, m \in Messages :
    handled[n][m] = 0 \/ (handled[n][m] = 1 /\ m \in ToSet(seen[n]))

\* A message that is about to be delivered is in the cache, has not been handled,
\* and no other read loop of the node is about to deliver it.
Pending == \A e \in Ends : task[e].step = "deliver" =>
    /\ task[e].msg \in ToSet(seen[e[2]]) /\ handled[e[2]][task[e].msg] = 0
    /\ \A f \in EndsOf(e[2]) : task[f].step = "deliver" /\ task[f].msg = task[e].msg => f = e

FloodInv == FrameInv /\ Unsent /\ HandledSeen /\ Pending

LEMMA FloodInit == Init => FloodInv
<1> SUFFICES ASSUME Init PROVE FloodInv  OBVIOUS
<1>1. FrameInv  BY FrameInit
<1>2. Unsent  BY MeshAssumption DEF Init, Unsent, ToSet, NoTask
<1>3. HandledSeen  BY DEF Init, HandledSeen
<1>4. Pending  BY DEF Init, Pending, NoTask, Tasks
<1> QED  BY <1>1, <1>2, <1>3, <1>4 DEF FloodInv

\* A step that handles, remembers and takes up no message, and moves no frame but
\* those of a flood.
LEMMA QuietKeeps ==
    ASSUME FloodInv, FrameInv', UNCHANGED <<handled, seen, origin>>,
           \A e \in Ends : \A m \in ToSet(inbox'[e]) :
               m \in ToSet(inbox[e]) \/ m = Hello \/ \E t \in Tasks : task[t].msg = m,
           \A t \in Tasks : \/ task'[t] = NoTask
                            \/ task'[t].msg = task[t].msg /\ task'[t].step = task[t].step
    PROVE  FloodInv'
<1>1. Unsent'
  <2> SUFFICES ASSUME NEW m \in Messages, origin[m] = NoNode
               PROVE  /\ \A n \in Nodes : handled[n][m] = 0 /\ m \notin ToSet(seen[n])
                      /\ \A e \in Ends : m \notin ToSet(inbox'[e])
                      /\ \A t \in Tasks : task'[t].msg # m
    BY DEF Unsent
  <2>1. /\ \A n \in Nodes : handled[n][m] = 0 /\ m \notin ToSet(seen[n])
        /\ \A e \in Ends : m \notin ToSet(inbox[e])
        /\ \A t \in Tasks : task[t].msg # m
    BY DEF FloodInv, Unsent
  <2>2. m # Hello /\ NoTask.msg # m  BY MeshAssumption DEF NoTask
  <2> QED  BY <2>1, <2>2
<1>2. HandledSeen'  BY DEF FloodInv, HandledSeen
<1>3. Pending'
  <2>1. \A e \in Ends : task'[e].step = "deliver" =>
          task[e].step = "deliver" /\ task'[e].msg = task[e].msg
    BY DEF Tasks, NoTask
  <2> SUFFICES ASSUME NEW e \in Ends, task'[e].step = "deliver"
               PROVE  /\ task'[e].msg \in ToSet(seen[e[2]]) /\ handled[e[2]][task'[e].msg] = 0
                      /\ \A f \in EndsOf(e[2]) :
                            task'[f].step = "deliver" /\ task'[f].msg = task'[e].msg => f = e
    BY DEF Pending
  <2> QED  BY <2>1 DEF FloodInv, Pending, EndsOf
<1> QED  BY <1>1, <1>2, <1>3 DEF FloodInv

\* The steps of the links, of a flood and of the network.
QuietStep ==
    \/ LinkStep
    \/ \E t \in Tasks : FloodWrite(t) \/ FloodDone(t)
    \/ \E n \in Nodes : Stop(n) \/ StopCloses(n) \/ Start(n) \/ Hang(n) \/ Resume(n)
    \/ \E l \in Links : Lose(l)
    \/ UNCHANGED vars

LEMMA QuietStepKeeps ==
    ASSUME FloodInv, FrameInv', QuietStep
    PROVE  FloodInv'
<1>1. ASSUME UNCHANGED <<task, inbox, handled, seen, origin>> PROVE FloodInv'
  BY <1>1, QuietKeeps
<1>2. ASSUME NEW l \in Links, Dial(l) PROVE FloodInv'
  <2>1. PICK e, f : e = <<l, l[1]>> /\ f = <<l, l[2]>>  OBVIOUS
  <2>2. /\ inbox' = [inbox EXCEPT ![e] = <<>>, ![f] = <<Hello>>]
        /\ UNCHANGED <<seen, task, origin, handled>>
    BY <1>2, <2>1 DEF Dial
  <2>3. ToSet(<<>>) = {} /\ ToSet(<<Hello>>) = {Hello}  BY DEF ToSet
  <2>4. \A d \in Ends : ToSet(inbox'[d]) \subseteq ToSet(inbox[d]) \cup {Hello}
    BY <2>2, <2>3 DEF FloodInv, FrameInv, TrafficTypes
  <2> QED  BY <2>2, <2>4, QuietKeeps
<1>3. ASSUME NEW l \in Links, Accept(l) PROVE FloodInv'
  <2>1. PICK e \in Ends : e = Other(<<l, l[2]>>)  BY EndsOfLinks
  <2>2. /\ inbox' = inbox \/ inbox' = [inbox EXCEPT ![e] = Append(@, Hello)]
        /\ UNCHANGED <<seen, task, origin, handled>>
    BY <1>3, <2>1 DEF Accept
  <2>3. inbox[e] \in Seq(Frames)  BY DEF FloodInv, FrameInv, TrafficTypes
  <2>4. ToSet(Append(inbox[e], Hello)) = ToSet(inbox[e]) \cup {Hello}
    BY <2>3, SetOfAppend DEF Frames
  <2>5. \A d \in Ends : ToSet(inbox'[d]) \subseteq ToSet(inbox[d]) \cup {Hello}
    BY <2>2, <2>4 DEF FloodInv, FrameInv, TrafficTypes
  <2> QED  BY <2>2, <2>5, QuietKeeps
<1>4. ASSUME NEW e \in Ends, Handshake(e) PROVE FloodInv'
  <2>1. /\ inbox[e] # <<>> /\ inbox' = [inbox EXCEPT ![e] = Tail(@)]
        /\ UNCHANGED <<seen, task, origin, handled>>
    BY <1>4 DEF Handshake
  <2>2. inbox[e] \in Seq(Frames)  BY DEF FloodInv, FrameInv, TrafficTypes
  <2>3. ToSet(Tail(inbox[e])) \subseteq ToSet(inbox[e])  BY <2>1, <2>2, SetOfTail
  <2>4. \A d \in Ends : ToSet(inbox'[d]) \subseteq ToSet(inbox[d])
    BY <2>1, <2>3 DEF FloodInv, FrameInv, TrafficTypes
  <2> QED  BY <2>1, <2>4, QuietKeeps
<1>5. ASSUME NEW e \in Ends, TearDown(e) PROVE FloodInv'
  <2>1. /\ UNCHANGED <<inbox, seen, origin, handled>>
        /\ task' = [t \in Tasks |->
                      IF t = e THEN NoTask
                      ELSE IF NodeOf(t) = e[2] THEN [task[t] EXCEPT !.to = Without(@, e[1])]
                      ELSE task[t]]
    BY <1>5 DEF TearDown, LinkEnds
  <2>2. ASSUME NEW t \in Tasks
        PROVE  \/ task'[t] = NoTask
               \/ task'[t].msg = task[t].msg /\ task'[t].step = task[t].step
    <3>1. task[t] \in Calls  BY DEF FloodInv, FrameInv, TrafficTypes
    <3>2. PICK w : w = Without(task[t].to, e[1])  OBVIOUS
    <3>3. \/ task'[t] = NoTask \/ task'[t] = task[t]
          \/ task'[t] = [task[t] EXCEPT !.to = w]
      BY <2>1, <3>2
    <3> QED  BY <3>1, <3>3 DEF Calls
  <2> QED  BY <2>1, <2>2, QuietKeeps
<1>6. ASSUME NEW t \in Tasks, FloodWrite(t) PROVE FloodInv'
  <2>1. PICK f, m : /\ m = task[t].msg
                    /\ inbox' = inbox \/ inbox' = [inbox EXCEPT ![f] = Append(@, m)]
    BY <1>6 DEF FloodWrite
  <2>2. /\ task' = [task EXCEPT ![t].to = Tail(@)] /\ task[t].to # <<>>
        /\ UNCHANGED <<seen, origin, handled>>
    BY <1>6 DEF FloodWrite
  <2>3. m \in Messages /\ task[t] \in Calls
    BY <2>1, <2>2 DEF FloodInv, FrameInv, FloodsServed, TrafficTypes
  <2>4. ASSUME NEW d \in Ends PROVE ToSet(inbox'[d]) \subseteq ToSet(inbox[d]) \cup {m}
    <3>1. inbox[d] \in Seq(Frames)  BY DEF FloodInv, FrameInv, TrafficTypes
    <3>2. ToSet(Append(inbox[d], m)) = ToSet(inbox[d]) \cup {m}
      BY <2>3, <3>1, SetOfAppend DEF Frames
    <3>3. inbox'[d] = inbox[d] \/ inbox'[d] = Append(inbox[d], m)
      BY <2>1 DEF FloodInv, FrameInv, TrafficTypes
    <3> QED  BY <3>2, <3>3
  <2>5. ASSUME NEW u \in Tasks
        PROVE  task'[u].msg = task[u].msg /\ task'[u].step = task[u].step
    BY <2>2, <2>3 DEF FloodInv, FrameInv, TrafficTypes, Calls
  <2> QED  BY <2>1, <2>2, <2>4, <2>5, QuietKeeps
<1>7. ASSUME NEW t \in Tasks, FloodDone(t) PROVE FloodInv'
  <2>1. task' = [task EXCEPT ![t] = NoTask] /\ UNCHANGED <<inbox, seen, origin, handled>>
    BY <1>7 DEF FloodDone
  <2>2. \A u \in Tasks : task'[u] = NoTask \/ task'[u] = task[u]
    BY <2>1 DEF FloodInv, FrameInv, TrafficTypes
  <2> QED  BY <2>1, <2>2, QuietKeeps
<1>8. ASSUME NEW l \in Links, Lose(l) PROVE FloodInv'
  <2>1. ASSUME NEW d \in Ends PROVE ToSet(inbox'[d]) \subseteq ToSet(inbox[d])
    <3>1. inbox[d] \in Seq(Frames)  BY DEF FloodInv, FrameInv, TrafficTypes
    <3>2. PICK n \in 0 .. Len(inbox[d]) : inbox'[d] = inbox[d] \/ inbox'[d] = SubSeq(inbox[d], 1, n)
      BY <1>8, LoseFrames DEF FloodInv
    <3> QED  BY <3>1, <3>2, SetOfPrefix
  <2>2. UNCHANGED <<seen, task, origin, handled>>  BY <1>8 DEF Lose
  <2> QED  BY <2>1, <2>2, QuietKeeps
<1>9. ASSUME NEW e \in Ends, HandshakeFails(e) PROVE FloodInv'
  BY <1>1, <1>9 DEF HandshakeFails, traffic
<1>10. ASSUME NEW n \in Nodes, Stop(n) \/ StopCloses(n) \/ Start(n) \/ Hang(n) \/ Resume(n)
       PROVE  FloodInv'
  BY <1>1, <1>10 DEF Stop, StopCloses, Start, Hang, Resume, traffic
<1>11. CASE UNCHANGED vars  BY <1>1, <1>11 DEF vars, traffic
<1> QED  BY <1>2, <1>3, <1>4, <1>5, <1>6, <1>7, <1>8, <1>9, <1>10, <1>11
     DEF QuietStep, LinkStep

\* A relay is of a message that is nowhere yet.
LEMMA RelayKeeps ==
    ASSUME RemembersAll, FloodInv, FrameInv', NEW n \in Nodes, NEW m \in Messages, Relay(n, m)
    PROVE  FloodInv'
<1>1. /\ origin[m] = NoNode /\ origin' = [origin EXCEPT ![m] = n]
      /\ seen' = [seen EXCEPT ![n] = Remembered(@, m, CacheSize)]
      /\ handled' = [handled EXCEPT ![n][m] = @ + 1]
      /\ UNCHANGED inbox
  BY DEF Relay, RecordOrigin
<1>2. PICK c : /\ task' = [task EXCEPT ![m] = c] /\ c.msg = m /\ c.step = "flood"
  <2>1. PICK to \in Targets(n, n) :
          task' = [task EXCEPT ![m] = [msg |-> m, step |-> "flood", to |-> to]]
    BY DEF Relay
  <2>2. PICK c : c = [msg |-> m, step |-> "flood", to |-> to]  OBVIOUS
  <2>3. c.msg = m /\ c.step = "flood"  BY <2>2
  <2>4. task' = [task EXCEPT ![m] = c]  BY <2>1, <2>2
  <2> QED  BY <2>3, <2>4
<1>3. /\ \A k \in Nodes : handled[k][m] = 0
      /\ \A t \in Tasks : task[t].msg # m
  BY <1>1 DEF FloodInv, Unsent
<1>4. \A t \in Tasks : t # m => task'[t] = task[t]
  BY <1>2 DEF FloodInv, FrameInv, TrafficTypes
<1>5. task'[m] = c /\ m \notin Ends
  BY <1>2, MeshAssumption DEF FloodInv, FrameInv, TrafficTypes, Tasks
<1>6. PICK r : r = Remembered(seen[n], m, CacheSize)  OBVIOUS
<1>7. ToSet(r) = ToSet(seen[n]) \cup {m}
  BY <1>6, RememberedAll DEF RemembersAll, FloodInv, FrameInv, TrafficTypes
<1>8. \A k \in Nodes : seen'[k] = IF k = n THEN r ELSE seen[k]
  BY <1>1, <1>6 DEF FloodInv, FrameInv, TrafficTypes
<1>9. \A k \in Nodes, x \in Messages : handled'[k][x] = IF k = n /\ x = m THEN 1 ELSE handled[k][x]
  BY <1>1, <1>3 DEF FloodInv, FrameInv, TrafficTypes
<1>10. Unsent'
  <2> SUFFICES ASSUME NEW x \in Messages, origin'[x] = NoNode
               PROVE  /\ \A k \in Nodes : handled'[k][x] = 0 /\ x \notin ToSet(seen'[k])
                      /\ \A e \in Ends : x \notin ToSet(inbox[e])
                      /\ \A t \in Tasks : task'[t].msg # x
    BY <1>1 DEF Unsent
  <2>1. x # m /\ origin[x] = NoNode  BY <1>1, MeshAssumption DEF FloodInv, FrameInv, TrafficTypes
  <2> QED  BY <2>1, <1>2, <1>4, <1>5, <1>7, <1>8, <1>9 DEF FloodInv, Unsent
<1>11. HandledSeen'
  <2>1. \A k \in Nodes : ToSet(seen[k]) \subseteq ToSet(seen'[k])  BY <1>7, <1>8
  <2>2. m \in ToSet(seen'[n])  BY <1>7, <1>8
  <2> QED  BY <2>1, <2>2, <1>9 DEF FloodInv, HandledSeen
<1>12. Pending'
  <2> SUFFICES ASSUME NEW e \in Ends, task'[e].step = "deliver"
               PROVE  /\ task'[e].msg \in ToSet(seen'[e[2]]) /\ handled'[e[2]][task'[e].msg] = 0
                      /\ \A f \in EndsOf(e[2]) :
                            task'[f].step = "deliver" /\ task'[f].msg = task'[e].msg => f = e
    BY DEF Pending
  <2>1. \A f \in Ends : task'[f] = task[f] /\ task[f].msg # m  BY <1>3, <1>4, <1>5 DEF Tasks
  <2>2. task[e].msg \in Messages /\ e[2] \in Nodes
    BY <2>1, EndsOfLinks DEF FloodInv, FrameInv, TrafficTypes, Calls, Tasks
  <2>3. /\ task[e].msg \in ToSet(seen[e[2]]) /\ handled[e[2]][task[e].msg] = 0
        /\ \A f \in EndsOf(e[2]) : task[f].step = "deliver" /\ task[f].msg = task[e].msg => f = e
    BY <2>1 DEF FloodInv, Pending
  <2>4. ToSet(seen[e[2]]) \subseteq ToSet(seen'[e[2]])  BY <2>2, <1>7, <1>8
  <2> QED  BY <2>1, <2>2, <2>3, <2>4, <1>9 DEF EndsOf
<1> QED  BY <1>10, <1>11, <1>12 DEF FloodInv

\* A read loop takes up only what is not in the cache, and puts it there.
LEMMA ReceiveKeeps ==
    ASSUME RemembersAll, FloodInv, FrameInv', NEW e \in Ends, Receive(e)
    PROVE  FloodInv'
<1>1. PICK n \in Nodes : n = e[2]  BY EndsOfLinks
<1>2. PICK m \in Messages : m = Head(inbox[e])  BY ReceiveFrames DEF FloodInv
<1>3. PICK c : c = [msg |-> m, step |-> "deliver", to |-> <<>>]  OBVIOUS
<1>4. /\ inbox[e] # <<>> /\ inbox' = [inbox EXCEPT ![e] = Tail(@)]
      /\ seen' = [seen EXCEPT ![n] = Remembered(@, m, CacheSize)]
      /\ task' = (IF SeenBefore(seen[n], m) THEN task ELSE [task EXCEPT ![e] = c])
      /\ UNCHANGED <<origin, handled>>
  BY <1>1, <1>2, <1>3 DEF Receive
<1>5. inbox[e] \in Seq(Frames)  BY DEF FloodInv, FrameInv, TrafficTypes
<1>6. m \in ToSet(inbox[e]) /\ ToSet(Tail(inbox[e])) \subseteq ToSet(inbox[e])
  BY <1>2, <1>4, <1>5, SetOfTail
<1>7. PICK r : r = Remembered(seen[n], m, CacheSize)  OBVIOUS
<1>8. ToSet(r) = ToSet(seen[n]) \cup {m}
  BY <1>7, RememberedAll DEF RemembersAll, FloodInv, FrameInv, TrafficTypes
<1>9. \A k \in Nodes : seen'[k] = IF k = n THEN r ELSE seen[k]
  BY <1>4, <1>7 DEF FloodInv, FrameInv, TrafficTypes
<1>10. \A k \in Nodes : ToSet(seen[k]) \subseteq ToSet(seen'[k])  BY <1>8, <1>9
<1>11. \A t \in Tasks : \/ task'[t] = task[t]
                        \/ t = e /\ task'[t] = c /\ m \notin ToSet(seen[n])
  BY <1>4 DEF FloodInv, FrameInv, TrafficTypes, SeenBefore
<1>12. c.msg = m /\ c.step = "deliver"  BY <1>3
<1>13. Unsent'
  <2> SUFFICES ASSUME NEW x \in Messages, origin[x] = NoNode
               PROVE  /\ \A k \in Nodes : handled[k][x] = 0 /\ x \notin ToSet(seen'[k])
                      /\ \A d \in Ends : x \notin ToSet(inbox'[d])
                      /\ \A t \in Tasks : task'[t].msg # x
    BY <1>4 DEF Unsent
  <2>1. /\ \A k \in Nodes : handled[k][x] = 0 /\ x \notin ToSet(seen[k])
        /\ \A d \in Ends : x \notin ToSet(inbox[d])
        /\ \A t \in Tasks : task[t].msg # x
    BY DEF FloodInv, Unsent
  <2>2. x # m  BY <2>1, <1>6
  <2>3. \A d \in Ends : ToSet(inbox'[d]) \subseteq ToSet(inbox[d])
    BY <1>4, <1>6 DEF FloodInv, FrameInv, TrafficTypes
  <2> QED  BY <2>1, <2>2, <2>3, <1>8, <1>9, <1>11, <1>12
<1>14. HandledSeen'  BY <1>4, <1>10 DEF FloodInv, HandledSeen
<1>15. Pending'
  <2> SUFFICES ASSUME NEW d \in Ends, task'[d].step = "deliver"
               PROVE  /\ task'[d].msg \in ToSet(seen'[d[2]]) /\ handled[d[2]][task'[d].msg] = 0
                      /\ \A f \in EndsOf(d[2]) :
                            task'[f].step = "deliver" /\ task'[f].msg = task'[d].msg => f = d
    BY <1>4 DEF Pending
  <2>1. \A f \in Ends : task[f].step = "deliver" => task[f].msg \in ToSet(seen[f[2]])
    BY DEF FloodInv, Pending
  <2>2. d[2] \in Nodes  BY EndsOfLinks
  <2>3. CASE task'[d] = c /\ d = e /\ m \notin ToSet(seen[n])
    <3>1. handled[n][m] = 0  BY <2>3 DEF FloodInv, HandledSeen
    <3>2. \A f \in EndsOf(n) : task'[f].step = "deliver" /\ task'[f].msg = m => f = e
      BY <2>1, <2>3, <1>11 DEF EndsOf, Tasks
    <3>3. m \in ToSet(seen'[n])  BY <1>8, <1>9
    <3> QED  BY <3>1, <3>2, <3>3, <2>3, <1>1, <1>12
  <2>4. CASE task'[d] = task[d]
    <3>1. /\ task[d].msg \in ToSet(seen[d[2]]) /\ handled[d[2]][task[d].msg] = 0
          /\ \A f \in EndsOf(d[2]) : task[f].step = "deliver" /\ task[f].msg = task[d].msg => f = d
      BY <2>4 DEF FloodInv, Pending
    <3>2. ASSUME NEW f \in EndsOf(d[2]), task'[f].step = "deliver", task'[f].msg = task'[d].msg
          PROVE  f = d
      <4>1. f \in Ends /\ f \in Tasks /\ f[2] = d[2]  BY DEF EndsOf, Tasks
      <4>2. CASE task'[f] = task[f]  BY <4>2, <3>1, <3>2, <2>4
      <4>3. CASE f = e /\ task'[f] = c /\ m \notin ToSet(seen[n])
        BY <4>3, <4>1, <3>1, <3>2, <2>4, <1>1, <1>12
      <4> QED  BY <4>1, <4>2, <4>3, <1>11
    <3> QED  BY <3>1, <3>2, <2>2, <2>4, <1>10
  <2> QED  BY <2>3, <2>4, <1>11 DEF Tasks
<1> QED  BY <1>13, <1>14, <1>15 DEF FloodInv

\* The one read loop that is about to deliver a message delivers it.
LEMMA DeliverKeeps ==
    ASSUME FloodInv, FrameInv', NEW e \in Ends, Deliver(e)
    PROVE  FloodInv'
<1>1. PICK n \in Nodes : n = e[2]  BY EndsOfLinks
<1>2. PICK m : m = task[e].msg  OBVIOUS
<1>3. /\ task[e].step = "deliver" /\ handled' = [handled EXCEPT ![n][m] = @ + 1]
      /\ UNCHANGED <<inbox, seen, origin>>
  BY <1>1, <1>2 DEF Deliver
<1>4. PICK to : task' = [task EXCEPT ![e] = [@ EXCEPT !.step = "flood", !.to = to]]
  BY DEF Deliver
<1>5. task[e] \in Calls /\ m \in Messages
  BY <1>2, <1>3 DEF Tasks, FloodInv, FrameInv, TrafficTypes, Calls
<1>6. PICK c : c = [task[e] EXCEPT !.step = "flood", !.to = to]  OBVIOUS
<1>7. c.msg = m /\ c.step = "flood"  BY <1>2, <1>5, <1>6 DEF Calls
<1>8. \A t \in Tasks : task'[t] = IF t = e THEN c ELSE task[t]
  BY <1>4, <1>6 DEF FloodInv, FrameInv, TrafficTypes
<1>9. /\ m \in ToSet(seen[n]) /\ handled[n][m] = 0
      /\ \A f \in EndsOf(n) : task[f].step = "deliver" /\ task[f].msg = m => f = e
  BY <1>1, <1>2, <1>3 DEF FloodInv, Pending
<1>10. \A k \in Nodes, x \in Messages : handled'[k][x] = IF k = n /\ x = m THEN 1 ELSE handled[k][x]
  BY <1>3, <1>5, <1>9 DEF FloodInv, FrameInv, TrafficTypes
<1>11. Unsent'
  <2> SUFFICES ASSUME NEW x \in Messages, origin[x] = NoNode
               PROVE  /\ \A k \in Nodes : handled'[k][x] = 0 /\ x \notin ToSet(seen[k])
                      /\ \A d \in Ends : x \notin ToSet(inbox[d])
                      /\ \A t \in Tasks : task'[t].msg # x
    BY <1>3 DEF Unsent
  <2>1. /\ \A k \in Nodes : handled[k][x] = 0 /\ x \notin ToSet(seen[k])
        /\ \A d \in Ends : x \notin ToSet(inbox[d])
        /\ \A t \in Tasks : task[t].msg # x
    BY DEF FloodInv, Unsent
  <2>2. x # m  BY <2>1, <1>2 DEF Tasks
  <2> QED  BY <2>1, <2>2, <1>7, <1>8, <1>10
<1>12. HandledSeen'  BY <1>3, <1>9, <1>10 DEF FloodInv, HandledSeen
<1>13. Pending'
  <2> SUFFICES ASSUME NEW d \in Ends, task'[d].step = "deliver"
               PROVE  /\ task'[d].msg \in ToSet(seen[d[2]]) /\ handled'[d[2]][task'[d].msg] = 0
                      /\ \A f \in EndsOf(d[2]) :
                            task'[f].step = "deliver" /\ task'[f].msg = task'[d].msg => f = d
    BY <1>3 DEF Pending
  <2>1. d # e /\ task'[d] = task[d]  BY <1>7, <1>8 DEF Tasks
  <2>2. /\ task[d].msg \in ToSet(seen[d[2]]) /\ handled[d[2]][task[d].msg] = 0
        /\ \A f \in EndsOf(d[2]) : task[f].step = "deliver" /\ task[f].msg = task[d].msg => f = d
    BY <2>1 DEF FloodInv, Pending
  <2>3. task[d].msg \in Messages /\ d[2] \in Nodes
    BY <2>1, EndsOfLinks DEF FloodInv, FrameInv, TrafficTypes, Calls, Tasks
  <2>4. ~(d[2] = n /\ task[d].msg = m)  BY <2>1, <1>9 DEF EndsOf
  <2>5. handled'[d[2]][task[d].msg] = 0  BY <2>2, <2>3, <2>4, <1>10
  <2>6. \A f \in EndsOf(d[2]) : task'[f].step = "deliver" => task'[f] = task[f]
    BY <1>7, <1>8 DEF EndsOf, Tasks
  <2> QED  BY <2>1, <2>2, <2>5, <2>6
<1> QED  BY <1>11, <1>12, <1>13 DEF FloodInv

\* It does so too when the delivery raises, and then neither it nor a flood of its
\* node goes on over the link.
LEMMA DeliverFailsKeeps ==
    ASSUME FloodInv, FrameInv', NEW e \in Ends, DeliverFails(e)
    PROVE  FloodInv'
<1>1. PICK n \in Nodes : n = e[2]  BY EndsOfLinks
<1>2. PICK m : m = task[e].msg  OBVIOUS
<1>3. /\ task[e].step = "deliver" /\ handled' = [handled EXCEPT ![n][m] = @ + 1]
      /\ UNCHANGED <<inbox, seen, origin>>
      /\ task' = [t \in Tasks |->
                     IF t = e THEN NoTask
                     ELSE IF NodeOf(t) = n THEN [task[t] EXCEPT !.to = Without(@, e[1])]
                     ELSE task[t]]
  BY <1>1, <1>2 DEF DeliverFails, LinkEnds
<1>4. m \in Messages
  BY <1>2, <1>3 DEF Tasks, FloodInv, FrameInv, TrafficTypes, Calls
<1>5. ASSUME NEW t \in Tasks
      PROVE  \/ task'[t] = NoTask
             \/ t # e /\ task'[t].msg = task[t].msg /\ task'[t].step = task[t].step
  <2>1. task[t] \in Calls  BY DEF FloodInv, FrameInv, TrafficTypes
  <2>2. PICK w : w = Without(task[t].to, e[1])  OBVIOUS
  <2>3. \/ task'[t] = NoTask
        \/ t # e /\ (task'[t] = task[t] \/ task'[t] = [task[t] EXCEPT !.to = w])
    BY <2>2, <1>3
  <2> QED  BY <2>1, <2>3 DEF Calls
<1>6. /\ m \in ToSet(seen[n]) /\ handled[n][m] = 0
      /\ \A f \in EndsOf(n) : task[f].step = "deliver" /\ task[f].msg = m => f = e
  BY <1>1, <1>2, <1>3 DEF FloodInv, Pending
<1>7. \A k \in Nodes, x \in Messages : handled'[k][x] = IF k = n /\ x = m THEN 1 ELSE handled[k][x]
  BY <1>3, <1>4, <1>6 DEF FloodInv, FrameInv, TrafficTypes
<1>8. Unsent'
  <2> SUFFICES ASSUME NEW x \in Messages, origin[x] = NoNode
               PROVE  /\ \A k \in Nodes : handled'[k][x] = 0 /\ x \notin ToSet(seen[k])
                      /\ \A d \in Ends : x \notin ToSet(inbox[d])
                      /\ \A t \in Tasks : task'[t].msg # x
    BY <1>3 DEF Unsent
  <2>1. /\ \A k \in Nodes : handled[k][x] = 0 /\ x \notin ToSet(seen[k])
        /\ \A d \in Ends : x \notin ToSet(inbox[d])
        /\ \A t \in Tasks : task[t].msg # x
    BY DEF FloodInv, Unsent
  <2>2. x # m /\ NoTask.msg # x  BY <2>1, <1>2, MeshAssumption DEF Tasks, NoTask
  <2> QED  BY <2>1, <2>2, <1>5, <1>7
<1>9. HandledSeen'  BY <1>3, <1>6, <1>7 DEF FloodInv, HandledSeen
<1>10. Pending'
  <2> SUFFICES ASSUME NEW d \in Ends, task'[d].step = "deliver"
               PROVE  /\ task'[d].msg \in ToSet(seen[d[2]]) /\ handled'[d[2]][task'[d].msg] = 0
                      /\ \A f \in EndsOf(d[2]) :
                            task'[f].step = "deliver" /\ task'[f].msg = task'[d].msg => f = d
    BY <1>3 DEF Pending
  <2>1. \A f \in Ends : task'[f].step = "deliver" =>
          f # e /\ task[f].step = "deliver" /\ task'[f].msg = task[f].msg
    BY <1>5 DEF Tasks, NoTask
  <2>2. /\ task[d].msg \in ToSet(seen[d[2]]) /\ handled[d[2]][task[d].msg] = 0
        /\ \A f \in EndsOf(d[2]) : task[f].step = "deliver" /\ task[f].msg = task[d].msg => f = d
    BY <2>1 DEF FloodInv, Pending
  <2>3. task[d].msg \in Messages /\ d[2] \in Nodes
    BY <2>1, EndsOfLinks DEF FloodInv, FrameInv, TrafficTypes, Calls, Tasks
  <2>4. ~(d[2] = n /\ task[d].msg = m)  BY <2>1, <1>6 DEF EndsOf
  <2>5. handled'[d[2]][task[d].msg] = 0  BY <2>2, <2>3, <2>4, <1>7
  <2> QED  BY <2>1, <2>2, <2>5 DEF EndsOf
<1> QED  BY <1>8, <1>9, <1>10 DEF FloodInv

\* A node that is gone has handled and seen nothing and is about to deliver nothing.
LEMMA GoneKeeps ==
    ASSUME FloodInv, FrameInv', NEW n \in Nodes, Gone(n)
    PROVE  FloodInv'
<1>1. /\ seen' = [seen EXCEPT ![n] = <<>>]
      /\ task' = [t \in Tasks |-> IF NodeOf(t) = n THEN NoTask ELSE task[t]]
      /\ handled' = [handled EXCEPT ![n] = [m \in Messages |-> 0]]
      /\ UNCHANGED <<inbox, origin>>
  BY DEF Gone
<1>2. \A k \in Nodes, m \in Messages : handled'[k][m] = IF k = n THEN 0 ELSE handled[k][m]
  BY <1>1 DEF FloodInv, FrameInv, TrafficTypes
<1>3. \A k \in Nodes : k # n => seen'[k] = seen[k]
  BY <1>1 DEF FloodInv, FrameInv, TrafficTypes
<1>4. Unsent'
  <2>1. ToSet(<<>>) = {}  BY DEF ToSet
  <2>2. ToSet(seen'[n]) = {}  BY <2>1, <1>1 DEF FloodInv, FrameInv, TrafficTypes
  <2> QED  BY <2>2, <1>1, <1>2, <1>3, MeshAssumption DEF FloodInv, Unsent, NoTask
<1>5. HandledSeen'  BY <1>2, <1>3 DEF FloodInv, HandledSeen
<1>6. Pending'
  <2> SUFFICES ASSUME NEW d \in Ends, task'[d].step = "deliver"
               PROVE  /\ task'[d].msg \in ToSet(seen'[d[2]]) /\ handled'[d[2]][task'[d].msg] = 0
                      /\ \A f \in EndsOf(d[2]) :
                            task'[f].step = "deliver" /\ task'[f].msg = task'[d].msg => f = d
    BY DEF Pending
  <2>1. \A f \in Ends : f \in Tasks /\ NodeOf(f) = f[2]  BY MeshAssumption DEF NodeOf, Tasks
  <2>2. d[2] # n /\ task'[d] = task[d] /\ d[2] \in Nodes
    BY <2>1, <1>1, EndsOfLinks DEF NoTask
  <2>3. \A f \in EndsOf(d[2]) : task'[f] = task[f]  BY <2>1, <2>2, <1>1 DEF EndsOf
  <2>4. task[d].msg \in Messages
    BY <2>1, <2>2 DEF FloodInv, FrameInv, TrafficTypes, Calls
  <2>5. /\ task[d].msg \in ToSet(seen[d[2]]) /\ handled[d[2]][task[d].msg] = 0
        /\ \A f \in EndsOf(d[2]) : task[f].step = "deliver" /\ task[f].msg = task[d].msg => f = d
    BY <2>2 DEF FloodInv, Pending
  <2> QED  BY <2>2, <2>3, <2>4, <2>5, <1>2, <1>3
<1> QED  BY <1>4, <1>5, <1>6 DEF FloodInv

LEMMA FloodStepKeeps ==
    ASSUME RemembersAll, FloodInv, [Next]_vars
    PROVE  FloodInv'
<1>1. FrameInv'  BY FrameStepKeeps DEF FloodInv
<1>2. CASE LinkStep  BY <1>1, <1>2, QuietStepKeeps DEF QuietStep
<1>3. CASE MessageStep
  <2>1. ASSUME NEW t \in Tasks, FloodWrite(t) \/ FloodDone(t) PROVE FloodInv'
    BY <1>1, <2>1, QuietStepKeeps DEF QuietStep
  <2> QED  BY <1>1, <1>3, <2>1, RelayKeeps, ReceiveKeeps, DeliverKeeps DEF MessageStep
<1>4. CASE NodeStep
  <2>1. ASSUME NEW n \in Nodes, Exit(n) \/ Crash(n) PROVE FloodInv'
    BY <1>1, <2>1, GoneKeeps DEF Exit, Crash
  <2>2. ASSUME NEW n \in Nodes, Stop(n) \/ StopCloses(n) \/ Start(n) \/ Hang(n) \/ Resume(n)
        PROVE  FloodInv'
    BY <1>1, <2>2, QuietStepKeeps DEF QuietStep
  <2>3. ASSUME NEW l \in Links, Lose(l) PROVE FloodInv'
    BY <1>1, <2>3, QuietStepKeeps DEF QuietStep
  <2> QED  BY <1>1, <1>4, <2>1, <2>2, <2>3, DeliverFailsKeeps DEF NodeStep
<1>5. CASE UNCHANGED vars  BY <1>1, <1>5, QuietStepKeeps DEF QuietStep
<1> QED  BY <1>2, <1>3, <1>4, <1>5 DEF Next

\* However links come and go, nodes stop, crash, hang and return, a node handles
\* a message at most once in its life, as long as its DedupCache has room for all.
THEOREM FloodsHandleOnce ==
    ASSUME RemembersAll
    PROVE  Spec => []HandledOnce
<1>1. Init => FloodInv  BY FloodInit
<1>2. FloodInv /\ [Next]_vars => FloodInv'  BY FloodStepKeeps
<1>3. FloodInv => HandledOnce
  <2> SUFFICES ASSUME FloodInv, NEW n \in Nodes, NEW m \in Messages PROVE handled[n][m] <= 1
    BY DEF HandledOnce
  <2>1. handled[n][m] = 0 \/ handled[n][m] = 1  BY DEF FloodInv, HandledSeen
  <2> QED  BY <2>1
<1> QED  BY <1>1, <1>2, <1>3, PTL DEF Spec

----------------------------------------------------------------------------
\* Floods that reach every node

\* Before the acceptor gets to it, its connection has no frame for the dialer; an
\* end that accepts is the acceptor's.
AnswersFirst == \A l \in Links :
    /\ stage[<<l, l[1]>>] # "accepting"
    /\ stage[<<l, l[2]>>] = "accepting" /\ wire[l] = "up" => inbox[<<l, l[1]>>] = <<>>

\* A frame is on a connection once.  The messages on it were written by the
\* other end in service, in its node's present life.
FramesOnce == \A e \in Ends :
    /\ Distinct(inbox[e])
    /\ \A m \in Messages \cap ToSet(inbox[e]) : stage[Other(e)] # "idle" =>
          stage[Other(e)] = "serving" /\ handled[Other(e)[2]][m] # 0

\* A node floods what it has handled, each message in one task, and what a flood
\* has still to write is not on the link yet.
FloodsOnce == \A t \in Tasks :
    /\ t \in Messages => task[t] = NoTask \/ task[t].msg = t
    /\ task[t].step = "flood" =>
          /\ NodeOf(t) \in Nodes /\ handled[NodeOf(t)][task[t].msg] # 0
          /\ \A u \in Tasks : task[u].step = "flood" /\ task[u].msg = task[t].msg
                              /\ NodeOf(u) = NodeOf(t) => u = t
          /\ \A l \in ToSet(task[t].to) :
                task[t].msg \notin ToSet(inbox[<<l, Peer(l, NodeOf(t))>>])
    /\ task[t].step # "flood" => task[t].to = <<>>

OnceInv == FloodInv /\ AnswersFirst /\ FramesOnce /\ FloodsOnce

\* A link whose ends both are on the connection that is up.
Live(l) == /\ wire[l] = "up" /\ stage[<<l, l[1]>>] \in {"hello", "serving"}
           /\ stage[<<l, l[2]>>] \in {"hello", "serving"}

AllUp == \A n \in Nodes : proc[n] = "up"

\* Node k sends to node j.
Firm(k, j) == peers[k][j] # NoLink /\ Live(peers[k][j])

\* What k has flooded has reached j, is on its way or about to be sent, over a link
\* that lives.
Covered(m, k, j) ==
    \/ m \in ToSet(seen[j])
    \/ \E l \in Links :
          /\ <<l, k>> \in Ends /\ Peer(l, k) = j /\ Live(l)
          /\ \/ m \in ToSet(inbox[<<l, j>>])
             \/ \E t \in Tasks : NodeOf(t) = k /\ task[t].msg = m /\ l \in ToSet(task[t].to)

\* From n it is at most two steps of R to every other node.
Spans(R, n) == \A j \in Nodes \ {n} : <<n, j>> \in R \/ \E k \in Nodes : <<n, k>> \in R /\ <<k, j>> \in R

\* Of a message relayed with every node in reach and no fault since: it came from
\* nodes that have handled it, over links that live;
OnLiveLinks(m) == \A e \in Ends :
    /\ m \in ToSet(inbox[e]) \/ task[e].msg = m => handled[Other(e)[2]][m] = 1
    /\ (stage[e] # "idle" /\ m \in ToSet(inbox[e])) \/ task[e].msg = m => Live(e[1])

\* who has seen it has handled it or is about to;
SeenHandled(m) == \A n \in Nodes : m \in ToSet(seen[n]) =>
    handled[n][m] = 1 \/ \E e \in EndsOf(n) : task[e].msg = m /\ task[e].step = "deliver"

\* and over links by which all were in reach everyone sends it on.
Spreads(m) == \E R \in SUBSET (Nodes \X Nodes) :
    /\ Spans(R, origin[m])
    /\ \A p \in R : Firm(p[1], p[2]) /\ (handled[p[1]][m] = 1 => Covered(m, p[1], p[2]))

WholeInv == OnceInv /\ whole \subseteq Messages /\ \A m \in whole :
    /\ AllUp /\ Settled /\ origin[m] \in Nodes /\ handled[origin[m]][m] = 1
    /\ OnLiveLinks(m) /\ SeenHandled(m) /\ Spreads(m)

\* A flood or a connection does not get more to carry.
Shrinks(s, r) == /\ ToSet(r) \subseteq ToSet(s) /\ (Distinct(s) => Distinct(r))
                 /\ (s = <<>> => r = <<>>)

\* What links, floods and nodes do when nothing is dialed, answered or written.
Winds ==
    /\ \A l \in Links : wire'[l] = "up" => wire[l] = "up"
    /\ \A e \in Ends : /\ Shrinks(inbox[e], inbox'[e])
                       /\ \/ stage'[e] = stage[e] \/ stage'[e] = "idle"
                          \/ stage[e] = "hello" /\ stage'[e] = "serving"
    /\ \A t \in Tasks :
          \/ task'[t] = NoTask
          \/ /\ task'[t].msg = task[t].msg /\ task'[t].step = task[t].step
             /\ Shrinks(task[t].to, task'[t].to)
          \/ t \in Ends /\ task'[t].step = "deliver" /\ task'[t].to = <<>>
    /\ \A n \in Nodes, m \in Messages : handled[n][m] # 0 =>
          \/ handled'[n][m] # 0
          \/ /\ \A e \in EndsOf(n) : stage'[e] = "idle"
             /\ \A t \in Tasks : NodeOf(t) = n => task'[t] = NoTask
    /\ UNCHANGED origin

LEMMA WindsKeeps ==
    ASSUME OnceInv, FloodInv', Winds
    PROVE  OnceInv'
<1>1. AnswersFirst'
  <2> SUFFICES ASSUME NEW l \in Links
               PROVE  /\ stage'[<<l, l[1]>>] # "accepting"
                      /\ stage'[<<l, l[2]>>] = "accepting" /\ wire'[l] = "up"
                           => inbox'[<<l, l[1]>>] = <<>>
    BY DEF AnswersFirst
  <2>1. PICK e \in Ends, f \in Ends : e = <<l, l[1]>> /\ f = <<l, l[2]>>  BY EndsOfLinks
  <2>2. stage[e] # "accepting" /\ (stage[f] = "accepting" /\ wire[l] = "up" => inbox[e] = <<>>)
    BY <2>1 DEF OnceInv, AnswersFirst
  <2> QED  BY <2>1, <2>2 DEF Winds, Shrinks
<1>2. FramesOnce'
  <2> SUFFICES ASSUME NEW e \in Ends
               PROVE  /\ Distinct(inbox'[e])
                      /\ \A m \in Messages \cap ToSet(inbox'[e]) : stage'[Other(e)] # "idle" =>
                            stage'[Other(e)] = "serving" /\ handled'[Other(e)[2]][m] # 0
    BY DEF FramesOnce
  <2>1. Distinct(inbox[e]) /\ Shrinks(inbox[e], inbox'[e])
    BY DEF OnceInv, FramesOnce, Winds
  <2>2. PICK f \in Ends : f = Other(e) /\ f[2] \in Nodes /\ f \in EndsOf(f[2])
    BY EndsOfLinks DEF EndsOf
  <2>3. \A m \in Messages \cap ToSet(inbox[e]) : stage[f] # "idle" =>
            stage[f] = "serving" /\ handled[f[2]][m] # 0
    BY <2>2 DEF OnceInv, FramesOnce
  <2>4. stage'[f] = stage[f] \/ stage'[f] = "idle" \/ (stage[f] = "hello" /\ stage'[f] = "serving")
    BY DEF Winds
  <2>5. ASSUME NEW m \in Messages \cap ToSet(inbox'[e]), stage'[f] # "idle"
        PROVE  stage'[f] = "serving" /\ handled'[f[2]][m] # 0
    <3>1. m \in ToSet(inbox[e]) /\ stage[f] # "idle"  BY <2>1, <2>4, <2>5 DEF Shrinks
    <3>2. stage[f] = "serving" /\ handled[f[2]][m] # 0  BY <2>3, <3>1
    <3>3. stage'[f] = "serving"  BY <2>4, <2>5, <3>2
    <3> QED  BY <2>2, <2>5, <3>2, <3>3 DEF Winds
  <2> QED  BY <2>1, <2>2, <2>5 DEF Shrinks
<1>3. FloodsOnce'
  <2> SUFFICES ASSUME NEW t \in Tasks
               PROVE  /\ t \in Messages => task'[t] = NoTask \/ task'[t].msg = t
                      /\ task'[t].step = "flood" =>
                            /\ NodeOf(t) \in Nodes /\ handled'[NodeOf(t)][task'[t].msg] # 0
                            /\ \A u \in Tasks : task'[u].step = "flood" /\ task'[u].msg = task'[t].msg
                                                /\ NodeOf(u) = NodeOf(t) => u = t
                            /\ \A l \in ToSet(task'[t].to) :
                                  task'[t].msg \notin ToSet(inbox'[<<l, Peer(l, NodeOf(t))>>])
                      /\ task'[t].step # "flood" => task'[t].to = <<>>
    BY DEF FloodsOnce, Winds, NodeOf
  <2>1. NoTask.step = "idle" /\ NoTask.to = <<>>  BY DEF NoTask
  <2>2. \A u \in Tasks :
          /\ u \in Messages => task[u] = NoTask \/ task[u].msg = u
          /\ task[u].step # "flood" => task[u].to = <<>>
    BY DEF OnceInv, FloodsOnce
  <2>3. \A u \in Tasks : task'[u].step = "flood" =>
          /\ task[u].step = "flood" /\ task'[u].msg = task[u].msg
          /\ Shrinks(task[u].to, task'[u].to)
    BY <2>1 DEF Winds
  <2>4. task'[t].step # "flood" => task'[t].to = <<>>
    BY <2>1, <2>2 DEF Winds, Shrinks
  <2>5. ASSUME t \in Messages PROVE task'[t] = NoTask \/ task'[t].msg = t
    <3>1. t \notin Ends  BY <2>5, MeshAssumption
    <3>2. CASE task'[t] = NoTask  BY <3>2
    <3>3. CASE task'[t].msg = task[t].msg /\ task'[t].step = task[t].step /\ task'[t] # NoTask
      <4>1. CASE task[t] # NoTask  BY <4>1, <3>3, <2>2, <2>5
      <4>2. CASE task[t] = NoTask
        <5>1. Shrinks(task[t].to, task'[t].to)  BY <3>1, <3>3 DEF Winds
        <5>2. task'[t].to = <<>>  BY <5>1, <4>2, <2>1 DEF Shrinks
        <5>3. task'[t] \in Calls  BY DEF FloodInv, FrameInv, TrafficTypes
        <5>4. task'[t] = NoTask
          BY <5>2, <5>3, <4>2, <3>3 DEF Calls, NoTask
        <5> QED  BY <5>4
      <4> QED  BY <4>1, <4>2
    <3> QED  BY <3>1, <3>2, <3>3 DEF Winds
  <2>6. ASSUME task'[t].step = "flood"
        PROVE  /\ NodeOf(t) \in Nodes /\ handled'[NodeOf(t)][task'[t].msg] # 0
               /\ \A u \in Tasks : task'[u].step = "flood" /\ task'[u].msg = task'[t].msg
                                   /\ NodeOf(u) = NodeOf(t) => u = t
               /\ \A l \in ToSet(task'[t].to) :
                     task'[t].msg \notin ToSet(inbox'[<<l, Peer(l, NodeOf(t))>>])
    <3>1. /\ task[t].step = "flood" /\ task'[t].msg = task[t].msg
          /\ ToSet(task'[t].to) \subseteq ToSet(task[t].to)
      BY <2>3, <2>6 DEF Shrinks
    <3>2. /\ NodeOf(t) \in Nodes /\ handled[NodeOf(t)][task[t].msg] # 0
          /\ \A u \in Tasks : task[u].step = "flood" /\ task[u].msg = task[t].msg
                              /\ NodeOf(u) = NodeOf(t) => u = t
          /\ \A l \in ToSet(task[t].to) :
                task[t].msg \notin ToSet(inbox[<<l, Peer(l, NodeOf(t))>>])
      BY <3>1 DEF OnceInv, FloodsOnce
    <3>3. task[t].msg \in Messages
      BY <3>1 DEF OnceInv, FloodInv, FrameInv, TrafficTypes, Calls
    <3>4. handled'[NodeOf(t)][task[t].msg] # 0
      BY <3>2, <3>3, <2>1, <2>6 DEF Winds
    <3>5. \A u \in Tasks : task'[u].step = "flood" /\ task'[u].msg = task'[t].msg
                              /\ NodeOf(u) = NodeOf(t) => u = t
      BY <3>1, <3>2, <2>3
    <3>6. ASSUME NEW l \in ToSet(task'[t].to)
          PROVE  task[t].msg \notin ToSet(inbox'[<<l, Peer(l, NodeOf(t))>>])
      <4>1. l \in ToSet(task[t].to)  BY <3>1
      <4>2. <<l, NodeOf(t)>> \in Ends  BY <4>1 DEF OnceInv, FloodInv, FrameInv, FloodsServed
      <4>3. PICK d \in Ends : d = <<l, Peer(l, NodeOf(t))>>
        BY <4>2, EndsOfLinks DEF Other
      <4>4. ToSet(inbox'[d]) \subseteq ToSet(inbox[d])  BY DEF Winds, Shrinks
      <4> QED  BY <4>1, <4>3, <4>4, <3>2
    <3> QED  BY <3>1, <3>2, <3>4, <3>5, <3>6
  <2> QED  BY <2>4, <2>5, <2>6
<1> QED  BY <1>1, <1>2, <1>3 DEF OnceInv

\* The steps that take away from a sequence.
LEMMA ShrinkSteps ==
    ASSUME NEW S, NEW s \in Seq(S)
    PROVE  /\ Shrinks(s, s) /\ (s # <<>> => Shrinks(s, Tail(s)))
           /\ \A n \in 0 .. Len(s) : Shrinks(s, SubSeq(s, 1, n))
           /\ \A x : Distinct(s) => Shrinks(s, Without(s, x))
<1>1. Shrinks(s, s)  BY DEF Shrinks
<1>2. s # <<>> => Shrinks(s, Tail(s))  BY SetOfTail DEF Shrinks
<1>3. ASSUME NEW n \in 0 .. Len(s) PROVE Shrinks(s, SubSeq(s, 1, n))
  <2>1. PICK r : r = SubSeq(s, 1, n)  OBVIOUS
  <2>2. ToSet(r) \subseteq ToSet(s)  BY <2>1, SetOfPrefix
  <2>3. /\ DOMAIN s = 1 .. Len(s) /\ Len(s) \in Nat /\ \A i \in 1 .. n : s[i] \in S
    BY LenProperties
  <2>4. r \in Seq(S) /\ Len(r) = n /\ \A i \in 1 .. n : r[i] = s[i]
    BY <2>1, <2>3, SubSeqProperties
  <2>5. DOMAIN r = 1 .. n  BY <2>4, LenProperties
  <2>6. Distinct(s) => Distinct(r)  BY <2>3, <2>4, <2>5 DEF Distinct
  <2>7. s = <<>> => r = <<>>
    <3>1. s = <<>> => Len(r) = 0  BY <2>3, <2>4, EmptySeq
    <3> QED  BY <3>1, <2>4, EmptySeq
  <2> QED  BY <2>1, <2>2, <2>6, <2>7 DEF Shrinks
<1>4. ASSUME NEW x, Distinct(s) PROVE Shrinks(s, Without(s, x))
  <2>1. s = <<>> => Without(s, x) = <<>>  BY DEF Without, ToSet
  <2> QED  BY <2>1, <1>4, SetOfWithout DEF Shrinks
<1> QED  BY <1>1, <1>2, <1>3, <1>4

\* Nothing moves but links and nodes.
LEMMA TrafficWinds ==
    ASSUME OnceInv, UNCHANGED traffic,
           \A l \in Links : wire'[l] = "up" => wire[l] = "up",
           \A e \in Ends : stage'[e] = stage[e] \/ stage'[e] = "idle"
    PROVE  Winds
<1>1. UNCHANGED <<inbox, seen, task, origin, handled>>  BY DEF traffic
<1>2. \A e \in Ends : Shrinks(inbox[e], inbox'[e])
  BY <1>1, ShrinkSteps DEF OnceInv, FloodInv, FrameInv, TrafficTypes
<1>3. \A t \in Tasks : Shrinks(task[t].to, task'[t].to)
  <2>1. \A t \in Tasks : task[t].to \in Seq(Links)
    BY DEF OnceInv, FloodInv, FrameInv, TrafficTypes, Calls
  <2> QED  BY <2>1, <1>1, ShrinkSteps
<1> QED  BY <1>1, <1>2, <1>3 DEF Winds

\* The handshake reads a frame, and the end is in service.
LEMMA HandshakeWinds ==
    ASSUME OnceInv, NEW f \in Ends, Handshake(f)
    PROVE  Winds
<1>1. /\ stage[f] = "hello" /\ stage' = [stage EXCEPT ![f] = "serving"]
      /\ inbox[f] # <<>> /\ inbox' = [inbox EXCEPT ![f] = Tail(@)]
      /\ UNCHANGED <<wire, seen, task, origin, handled>>
  BY DEF Handshake
<1>2. \A e \in Ends : Shrinks(inbox[e], inbox'[e])
  <2>1. \A e \in Ends : inbox'[e] = inbox[e] \/ (inbox[e] # <<>> /\ inbox'[e] = Tail(inbox[e]))
    BY <1>1 DEF OnceInv, FloodInv, FrameInv, TrafficTypes
  <2> QED  BY <2>1, ShrinkSteps DEF OnceInv, FloodInv, FrameInv, TrafficTypes
<1>3. \A e \in Ends : stage'[e] = stage[e] \/ (stage[e] = "hello" /\ stage'[e] = "serving")
  BY <1>1 DEF OnceInv, FloodInv, FrameInv, LinkInv, LinkTypes
<1>4. \A t \in Tasks : Shrinks(task[t].to, task'[t].to)
  <2>1. \A t \in Tasks : task[t].to \in Seq(Links)
    BY DEF OnceInv, FloodInv, FrameInv, TrafficTypes, Calls
  <2> QED  BY <2>1, <1>1, ShrinkSteps
<1> QED  BY <1>1, <1>2, <1>3, <1>4 DEF Winds

\* The floods lose a link, the end its read loop.
LEMMA TearDownWinds ==
    ASSUME OnceInv, NEW f \in Ends, TearDown(f) \/ DeliverFails(f)
    PROVE  Winds
<1>1. /\ stage' = [stage EXCEPT ![f] = "idle"] /\ wire' = [wire EXCEPT ![f[1]] = "cut"]
      /\ task' = [t \in Tasks |->
                     IF t = f THEN NoTask
                     ELSE IF NodeOf(t) = f[2] THEN [task[t] EXCEPT !.to = Without(@, f[1])]
                     ELSE task[t]]
      /\ UNCHANGED <<inbox, seen, origin>>
  BY DEF TearDown, DeliverFails, LinkEnds
<1>2. \A e \in Ends : Shrinks(inbox[e], inbox'[e])
  BY <1>1, ShrinkSteps DEF OnceInv, FloodInv, FrameInv, TrafficTypes
<1>3. \A e \in Ends : stage'[e] = stage[e] \/ stage'[e] = "idle"
  BY <1>1 DEF OnceInv, FloodInv, FrameInv, LinkInv, LinkTypes
<1>4. ASSUME NEW t \in Tasks
      PROVE  \/ task'[t] = NoTask
             \/ /\ task'[t].msg = task[t].msg /\ task'[t].step = task[t].step
                /\ Shrinks(task[t].to, task'[t].to)
  <2>1. task[t] \in Calls /\ task[t].to \in Seq(Links) /\ Distinct(task[t].to)
    BY DEF OnceInv, FloodInv, FrameInv, TrafficTypes, Calls, FloodsServed
  <2>2. CASE t = f  BY <2>2, <1>1
  <2>3. CASE t # f /\ NodeOf(t) = f[2]
    <3>1. PICK w : w = Without(task[t].to, f[1])  OBVIOUS
    <3>2. task'[t] = [task[t] EXCEPT !.to = w]  BY <2>3, <3>1, <1>1
    <3>3. Shrinks(task[t].to, w)  BY <2>1, <3>1, ShrinkSteps
    <3> QED  BY <3>2, <3>3, <2>1 DEF Calls
  <2>4. CASE t # f /\ NodeOf(t) # f[2]
    <3>1. task'[t] = task[t]  BY <2>4, <1>1
    <3> QED  BY <3>1, <2>1, ShrinkSteps
  <2> QED  BY <2>2, <2>3, <2>4
<1>5. \A l \in Links : wire'[l] = "up" => wire[l] = "up"
  BY <1>1 DEF OnceInv, FloodInv, FrameInv, LinkInv, LinkTypes
<1>6. \A n \in Nodes, m \in Messages : handled[n][m] # 0 => handled'[n][m] # 0
  <2> SUFFICES ASSUME NEW n \in Nodes, NEW m \in Messages, handled[n][m] # 0
               PROVE  handled'[n][m] # 0
    OBVIOUS
  <2>1. handled[n][m] \in Nat /\ handled'[n][m] \in {handled[n][m], handled[n][m] + 1}
    BY EndCounts DEF OnceInv, FloodInv, FrameInv, TrafficTypes
  <2> QED  BY <2>1
<1> QED  BY <1>1, <1>2, <1>3, <1>4, <1>5, <1>6 DEF Winds

\* A read loop takes a frame off its connection, and at most one up.
LEMMA ReceiveWinds ==
    ASSUME OnceInv, NEW f \in Ends, Receive(f)
    PROVE  Winds
<1>1. PICK c : c = [msg |-> Head(inbox[f]), step |-> "deliver", to |-> <<>>]  OBVIOUS
<1>2. /\ inbox[f] # <<>> /\ inbox' = [inbox EXCEPT ![f] = Tail(@)]
      /\ task' = task \/ task' = [task EXCEPT ![f] = c]
      /\ UNCHANGED <<wire, stage, origin, handled>>
  BY <1>1 DEF Receive, links
<1>3. \A e \in Ends : Shrinks(inbox[e], inbox'[e])
  <2>1. \A e \in Ends : inbox'[e] = inbox[e] \/ (inbox[e] # <<>> /\ inbox'[e] = Tail(inbox[e]))
    BY <1>2 DEF OnceInv, FloodInv, FrameInv, TrafficTypes
  <2> QED  BY <2>1, ShrinkSteps DEF OnceInv, FloodInv, FrameInv, TrafficTypes
<1>4. ASSUME NEW t \in Tasks
      PROVE  \/ /\ task'[t].msg = task[t].msg /\ task'[t].step = task[t].step
                /\ Shrinks(task[t].to, task'[t].to)
             \/ t \in Ends /\ task'[t].step = "deliver" /\ task'[t].to = <<>>
  <2>1. task[t].to \in Seq(Links)
    BY DEF OnceInv, FloodInv, FrameInv, TrafficTypes, Calls
  <2>2. task'[t] = task[t] \/ (t = f /\ task'[t] = c)
    BY <1>2 DEF OnceInv, FloodInv, FrameInv, TrafficTypes
  <2>3. c.step = "deliver" /\ c.to = <<>>  BY <1>1
  <2> QED  BY <2>1, <2>2, <2>3, ShrinkSteps
<1> QED  BY <1>2, <1>3, <1>4 DEF Winds

\* A flood that is through ends.
LEMMA FloodDoneWinds ==
    ASSUME OnceInv, NEW u \in Tasks, FloodDone(u)
    PROVE  Winds
<1>1. task' = [task EXCEPT ![u] = NoTask] /\ UNCHANGED <<wire, stage, inbox, origin, handled>>
  BY DEF FloodDone, links
<1>2. \A e \in Ends : Shrinks(inbox[e], inbox'[e])
  BY <1>1, ShrinkSteps DEF OnceInv, FloodInv, FrameInv, TrafficTypes
<1>3. \A t \in Tasks : task'[t] = NoTask \/ task'[t] = task[t]
  BY <1>1 DEF OnceInv, FloodInv, FrameInv, TrafficTypes
<1>4. \A t \in Tasks : Shrinks(task[t].to, task[t].to)
  <2>1. \A t \in Tasks : task[t].to \in Seq(Links)
    BY DEF OnceInv, FloodInv, FrameInv, TrafficTypes, Calls
  <2> QED  BY <2>1, ShrinkSteps
<1> QED  BY <1>1, <1>2, <1>3, <1>4 DEF Winds

\* With a process end its links, its floods and what it handled.
LEMMA GoneWinds ==
    ASSUME OnceInv, NEW n \in Nodes, Gone(n)
    PROVE  Winds
<1>1. /\ wire' = [l \in Links |-> IF n \in {l[1], l[2]} THEN "cut" ELSE wire[l]]
      /\ stage' = [e \in Ends |-> IF e[2] = n THEN "idle" ELSE stage[e]]
      /\ task' = [t \in Tasks |-> IF NodeOf(t) = n THEN NoTask ELSE task[t]]
      /\ handled' = [handled EXCEPT ![n] = [m \in Messages |-> 0]]
      /\ UNCHANGED <<inbox, origin>>
  BY DEF Gone
<1>2. \A e \in Ends : Shrinks(inbox[e], inbox'[e])
  BY <1>1, ShrinkSteps DEF OnceInv, FloodInv, FrameInv, TrafficTypes
<1>3. \A t \in Tasks : Shrinks(task[t].to, task[t].to)
  <2>1. \A t \in Tasks : task[t].to \in Seq(Links)
    BY DEF OnceInv, FloodInv, FrameInv, TrafficTypes, Calls
  <2> QED  BY <2>1, ShrinkSteps
<1>4. \A t \in Tasks : task'[t] = NoTask \/ task'[t] = task[t]  BY <1>1
<1>5. \A k \in Nodes : k # n => handled'[k] = handled[k]
  BY <1>1 DEF OnceInv, FloodInv, FrameInv, TrafficTypes
<1>6. /\ \A e \in EndsOf(n) : stage'[e] = "idle"
      /\ \A t \in Tasks : NodeOf(t) = n => task'[t] = NoTask
  BY <1>1 DEF EndsOf
<1>7. \A l \in Links : wire'[l] = "up" => wire[l] = "up"  BY <1>1
<1>8. \A e \in Ends : stage'[e] = stage[e] \/ stage'[e] = "idle"  BY <1>1
<1> QED  BY <1>1, <1>2, <1>3, <1>4, <1>5, <1>6, <1>7, <1>8 DEF Winds

\* A lost connection keeps the frames that came first.
LEMMA LoseWinds ==
    ASSUME OnceInv, NEW l \in Links, Lose(l)
    PROVE  Winds
<1>1. /\ wire' = [wire EXCEPT ![l] = "cut"]
      /\ UNCHANGED <<stage, task, origin, handled>>
  BY DEF Lose
<1>2. \A e \in Ends : Shrinks(inbox[e], inbox'[e])
  <2>1. \A e \in Ends : \E n \in 0 .. Len(inbox[e]) :
            inbox'[e] = inbox[e] \/ inbox'[e] = SubSeq(inbox[e], 1, n)
    BY LoseFrames DEF OnceInv, FloodInv
  <2> QED  BY <2>1, ShrinkSteps DEF OnceInv, FloodInv, FrameInv, TrafficTypes
<1>3. \A t \in Tasks : Shrinks(task[t].to, task[t].to)
  <2>1. \A t \in Tasks : task[t].to \in Seq(Links)
    BY DEF OnceInv, FloodInv, FrameInv, TrafficTypes, Calls
  <2> QED  BY <2>1, ShrinkSteps
<1>4. \A k \in Links : wire'[k] = "up" => wire[k] = "up"
  BY <1>1 DEF OnceInv, FloodInv, FrameInv, LinkInv, LinkTypes
<1> QED  BY <1>1, <1>2, <1>3, <1>4 DEF Winds

\* The floods when a connection begins.
LEMMA HelloKeeps ==
    ASSUME OnceInv, UNCHANGED <<task, origin, handled>>,
           \A d \in Ends : ToSet(inbox'[d]) \subseteq ToSet(inbox[d]) \cup {Hello}
    PROVE  FloodsOnce'
<1> SUFFICES ASSUME NEW t \in Tasks, task[t].step = "flood", NEW l \in ToSet(task[t].to)
             PROVE  task[t].msg \notin ToSet(inbox'[<<l, Peer(l, NodeOf(t))>>])
  BY DEF OnceInv, FloodsOnce, NodeOf
<1>1. task[t].msg \notin ToSet(inbox[<<l, Peer(l, NodeOf(t))>>])
  BY DEF OnceInv, FloodsOnce
<1>2. task[t].msg \in Messages
  BY DEF OnceInv, FloodInv, FrameInv, TrafficTypes, Calls
<1>3. <<l, NodeOf(t)>> \in Ends  BY DEF OnceInv, FloodInv, FrameInv, FloodsServed
<1>4. <<l, Peer(l, NodeOf(t))>> \in Ends  BY <1>3, EndsOfLinks DEF Other
<1> QED  BY <1>1, <1>2, <1>4, MeshAssumption

\* A dialed connection begins with nothing but a PEER_HELLO to the acceptor.
LEMMA DialOnce ==
    ASSUME OnceInv, FloodInv', NEW l \in Links, Dial(l)
    PROVE  OnceInv'
<1>1. PICK e \in Ends, f \in Ends : e = <<l, l[1]>> /\ f = <<l, l[2]>>  BY EndsOfLinks
<1>2. e # f  BY <1>1, EndsOfLinks
<1>3. /\ wire' = [wire EXCEPT ![l] = "up"]
      /\ stage' = [stage EXCEPT ![e] = "hello", ![f] = "accepting"]
      /\ inbox' = [inbox EXCEPT ![e] = <<>>, ![f] = <<Hello>>]
      /\ UNCHANGED <<task, origin, handled>>
  BY <1>1 DEF Dial
<1>4. \A d \in Ends :
        /\ stage'[d] = (IF d = e THEN "hello" ELSE IF d = f THEN "accepting" ELSE stage[d])
        /\ inbox'[d] = (IF d = e THEN <<>> ELSE IF d = f THEN <<Hello>> ELSE inbox[d])
  BY <1>2, <1>3 DEF OnceInv, FloodInv, FrameInv, LinkInv, LinkTypes, TrafficTypes
<1>5. ToSet(<<>>) = {} /\ ToSet(<<Hello>>) = {Hello} /\ Distinct(<<>>) /\ Distinct(<<Hello>>)
  BY DEF ToSet, Distinct
<1>6. AnswersFirst'
  <2> SUFFICES ASSUME NEW k \in Links
               PROVE  /\ stage'[<<k, k[1]>>] # "accepting"
                      /\ stage'[<<k, k[2]>>] = "accepting" /\ wire'[k] = "up"
                           => inbox'[<<k, k[1]>>] = <<>>
    BY DEF AnswersFirst
  <2>1. PICK g \in Ends, h \in Ends : g = <<k, k[1]>> /\ h = <<k, k[2]>>  BY EndsOfLinks
  <2>2. CASE k = l  BY <2>1, <2>2, <1>1, <1>2, <1>4
  <2>3. CASE k # l
    <3>1. g \notin {e, f} /\ h \notin {e, f}  BY <2>1, <2>3, <1>1
    <3>2. stage'[g] = stage[g] /\ stage'[h] = stage[h] /\ inbox'[g] = inbox[g] /\ wire'[k] = wire[k]
      BY <3>1, <2>3, <1>3, <1>4 DEF OnceInv, FloodInv, FrameInv, LinkInv, LinkTypes
    <3> QED  BY <3>2, <2>1 DEF OnceInv, AnswersFirst
  <2> QED  BY <2>2, <2>3
<1>7. FramesOnce'
  <2> SUFFICES ASSUME NEW d \in Ends
               PROVE  /\ Distinct(inbox'[d])
                      /\ \A m \in Messages \cap ToSet(inbox'[d]) : stage'[Other(d)] # "idle" =>
                            stage'[Other(d)] = "serving" /\ handled'[Other(d)[2]][m] # 0
    BY DEF FramesOnce
  <2>1. CASE d \in {e, f}
    <3>1. Messages \cap ToSet(inbox'[d]) = {}  BY <2>1, <1>4, <1>5, MeshAssumption
    <3> QED  BY <3>1, <2>1, <1>4, <1>5
  <2>2. CASE d \notin {e, f}
    <3>1. d[1] # l  BY <2>2, <1>1, EndsOfLinks
    <3>2. Other(d) \notin {e, f} /\ Other(d) \in Ends  BY <3>1, <1>1, EndsOfLinks
    <3>3. inbox'[d] = inbox[d] /\ stage'[Other(d)] = stage[Other(d)]  BY <2>2, <3>2, <1>4
    <3> QED  BY <3>3, <1>3 DEF OnceInv, FramesOnce
  <2> QED  BY <2>1, <2>2
<1>8. FloodsOnce'
  <2>1. \A d \in Ends : ToSet(inbox'[d]) \subseteq ToSet(inbox[d]) \cup {Hello}
    BY <1>4, <1>5
  <2> QED  BY <2>1, <1>3, HelloKeeps
<1> QED  BY <1>6, <1>7, <1>8 DEF OnceInv

\* An accepted one answers with a PEER_HELLO.
LEMMA AcceptOnce ==
    ASSUME OnceInv, FloodInv', NEW l \in Links, Accept(l)
    PROVE  OnceInv'
<1>1. PICK e \in Ends, f \in Ends : e = <<l, l[1]>> /\ f = <<l, l[2]>>  BY EndsOfLinks
<1>2. e # f /\ Other(f) = e /\ Other(e) = f  BY <1>1, EndsOfLinks DEF Other, Peer
<1>3. /\ stage[f] = "accepting" /\ stage' = [stage EXCEPT ![f] = "hello"]
      /\ inbox' = (IF wire[l] = "up" THEN [inbox EXCEPT ![e] = Append(@, Hello)] ELSE inbox)
      /\ UNCHANGED <<wire, task, origin, handled>>
  BY <1>1, <1>2 DEF Accept
<1>4. stage[e] # "accepting" /\ (wire[l] = "up" => inbox[e] = <<>>)
  BY <1>1, <1>3 DEF OnceInv, AnswersFirst
<1>5. \A d \in Ends : stage'[d] = IF d = f THEN "hello" ELSE stage[d]
  BY <1>3 DEF OnceInv, FloodInv, FrameInv, LinkInv, LinkTypes
<1>6. \A d \in Ends : inbox'[d] = inbox[d] \/ (d = e /\ inbox'[d] = <<Hello>>)
  <2>1. Append(<<>>, Hello) = <<Hello>>  OBVIOUS
  <2>2. CASE wire[l] = "up"
    <3>1. inbox' = [inbox EXCEPT ![e] = <<Hello>>]  BY <2>1, <2>2, <1>3, <1>4
    <3> QED  BY <3>1 DEF OnceInv, FloodInv, FrameInv, TrafficTypes
  <2>3. CASE wire[l] # "up"  BY <2>3, <1>3
  <2> QED  BY <2>2, <2>3
<1>7. ToSet(<<Hello>>) = {Hello} /\ Distinct(<<Hello>>)  BY DEF ToSet, Distinct
<1>8. AnswersFirst'
  <2> SUFFICES ASSUME NEW k \in Links
               PROVE  /\ stage'[<<k, k[1]>>] # "accepting"
                      /\ stage'[<<k, k[2]>>] = "accepting" /\ wire'[k] = "up"
                           => inbox'[<<k, k[1]>>] = <<>>
    BY DEF AnswersFirst
  <2>1. PICK g \in Ends, h \in Ends : g = <<k, k[1]>> /\ h = <<k, k[2]>>  BY EndsOfLinks
  <2>2. /\ stage[g] # "accepting"
        /\ stage[h] = "accepting" /\ wire[k] = "up" => inbox[g] = <<>>
    BY <2>1 DEF OnceInv, AnswersFirst
  <2>3. CASE k = l  BY <2>1, <2>2, <2>3, <1>1, <1>2, <1>5
  <2>4. CASE k # l
    <3>1. g \notin {e, f} /\ h \notin {e, f}  BY <2>1, <2>4, <1>1
    <3> QED  BY <3>1, <2>1, <2>2, <1>3, <1>5, <1>6
  <2> QED  BY <2>3, <2>4
<1>9. FramesOnce'
  <2> SUFFICES ASSUME NEW d \in Ends
               PROVE  /\ Distinct(inbox'[d])
                      /\ \A m \in Messages \cap ToSet(inbox'[d]) : stage'[Other(d)] # "idle" =>
                            stage'[Other(d)] = "serving" /\ handled'[Other(d)[2]][m] # 0
    BY DEF FramesOnce
  <2>1. /\ Distinct(inbox[d])
        /\ \A m \in Messages \cap ToSet(inbox[d]) : stage[Other(d)] # "idle" =>
              stage[Other(d)] = "serving" /\ handled[Other(d)[2]][m] # 0
    BY DEF OnceInv, FramesOnce
  <2>2. CASE d = e
    <3>1. Messages \cap ToSet(inbox[d]) = {}  BY <2>1, <2>2, <1>2, <1>3
    <3>2. Messages \cap ToSet(inbox'[d]) = {}  BY <3>1, <1>6, <1>7, MeshAssumption
    <3> QED  BY <3>2, <2>1, <1>6, <1>7
  <2>3. CASE d # e
    <3>1. Other(d) \in Ends /\ Other(d) # f
      <4>1. Other(Other(d)) = d  BY EndsOfLinks DEF Other, Peer
      <4> QED  BY <4>1, <2>3, <1>2, EndsOfLinks
    <3> QED  BY <3>1, <2>1, <2>3, <1>3, <1>5, <1>6
  <2> QED  BY <2>2, <2>3
<1>10. FloodsOnce'
  <2>1. \A d \in Ends : ToSet(inbox'[d]) \subseteq ToSet(inbox[d]) \cup {Hello}
    BY <1>6, <1>7
  <2> QED  BY <2>1, <1>3, HelloKeeps
<1> QED  BY <1>8, <1>9, <1>10 DEF OnceInv

\* Links and frames as they are, and nothing handled is forgotten.
LEMMA LinksOnce ==
    ASSUME OnceInv, UNCHANGED <<wire, stage, inbox>>,
           \A n \in Nodes, m \in Messages : handled[n][m] # 0 => handled'[n][m] # 0
    PROVE  AnswersFirst' /\ FramesOnce'
<1>1. AnswersFirst'  BY DEF OnceInv, AnswersFirst
<1>2. FramesOnce'  BY EndsOfLinks DEF OnceInv, FramesOnce
<1> QED  BY <1>1, <1>2

\* What is relayed is on no link and in no other task yet.
LEMMA RelayOnce ==
    ASSUME OnceInv, FloodInv', NEW n \in Nodes, NEW m \in Messages, Relay(n, m)
    PROVE  OnceInv'
<1>1. /\ origin[m] = NoNode /\ origin' = [origin EXCEPT ![m] = n]
      /\ handled' = [handled EXCEPT ![n][m] = @ + 1]
      /\ UNCHANGED <<wire, stage, inbox>>
  BY DEF Relay, links
<1>2. PICK to \in Targets(n, n) :
        task' = [task EXCEPT ![m] = [msg |-> m, step |-> "flood", to |-> to]]
  BY DEF Relay
<1>3. \A l \in ToSet(to) : <<l, n>> \in Ends  BY TargetsServe DEF OnceInv, FloodInv
<1>4. PICK c : c = [msg |-> m, step |-> "flood", to |-> to]  OBVIOUS
<1>5. c.to = to /\ c.msg = m /\ c.step = "flood"  BY <1>4
<1>6. \A t \in Tasks : task'[t] = IF t = m THEN c ELSE task[t]
  BY <1>2, <1>4 DEF OnceInv, FloodInv, FrameInv, TrafficTypes
<1>7. /\ \A k \in Nodes : handled[k][m] = 0
      /\ \A e \in Ends : m \notin ToSet(inbox[e])
      /\ \A t \in Tasks : task[t].msg # m
  BY <1>1 DEF OnceInv, FloodInv, Unsent
<1>8. \A k \in Nodes, x \in Messages :
        handled'[k][x] = IF k = n /\ x = m THEN 1 ELSE handled[k][x]
  BY <1>1, <1>7 DEF OnceInv, FloodInv, FrameInv, TrafficTypes
<1>9. \A x \in Messages : origin'[x] = IF x = m THEN n ELSE origin[x]
  BY <1>1 DEF OnceInv, FloodInv, FrameInv, TrafficTypes
<1>10. FloodsOnce'
  <2> DEFINE By(t) == IF t \in Messages THEN origin'[t] ELSE t[2]
  <2>1. \A t \in Tasks : By(t) = IF t = m THEN n ELSE NodeOf(t)  BY <1>9 DEF NodeOf
  <2> SUFFICES ASSUME NEW t \in Tasks
               PROVE  /\ t \in Messages => task'[t] = NoTask \/ task'[t].msg = t
                      /\ task'[t].step = "flood" =>
                            /\ By(t) \in Nodes /\ handled'[By(t)][task'[t].msg] # 0
                            /\ \A u \in Tasks : task'[u].step = "flood" /\ task'[u].msg = task'[t].msg
                                                /\ By(u) = By(t) => u = t
                            /\ \A l \in ToSet(task'[t].to) :
                                  task'[t].msg \notin ToSet(inbox[<<l, Peer(l, By(t))>>])
                      /\ task'[t].step # "flood" => task'[t].to = <<>>
    BY <1>1 DEF FloodsOnce, NodeOf
  <2> HIDE DEF By
  <2>2. CASE t = m
    <3>1. task'[t] = c /\ By(t) = n  BY <2>1, <2>2, <1>6
    <3>2. handled'[n][m] # 0  BY <1>8
    <3>3. \A u \in Tasks : task'[u].msg = m => u = t  BY <2>2, <1>6, <1>7
    <3>4. \A l \in ToSet(to) : m \notin ToSet(inbox[<<l, Peer(l, n)>>])
      <4> SUFFICES ASSUME NEW l \in ToSet(to) PROVE m \notin ToSet(inbox[<<l, Peer(l, n)>>])
        OBVIOUS
      <4>1. <<l, Peer(l, n)>> \in Ends  BY <1>3, EndsOfLinks DEF Other
      <4> QED  BY <4>1, <1>7
    <3> QED  BY <3>1, <3>2, <3>3, <3>4, <2>2, <1>5
  <2>3. CASE t # m
    <3>1. task'[t] = task[t] /\ By(t) = NodeOf(t)  BY <2>1, <2>3, <1>6
    <3>2. /\ t \in Messages => task[t] = NoTask \/ task[t].msg = t
          /\ task[t].step # "flood" => task[t].to = <<>>
      BY DEF OnceInv, FloodsOnce
    <3>3. ASSUME task[t].step = "flood"
          PROVE  /\ NodeOf(t) \in Nodes /\ handled'[NodeOf(t)][task[t].msg] # 0
                 /\ \A u \in Tasks : task'[u].step = "flood" /\ task'[u].msg = task[t].msg
                                     /\ By(u) = NodeOf(t) => u = t
                 /\ \A l \in ToSet(task[t].to) :
                       task[t].msg \notin ToSet(inbox[<<l, Peer(l, NodeOf(t))>>])
      <4>1. /\ NodeOf(t) \in Nodes /\ handled[NodeOf(t)][task[t].msg] # 0
            /\ \A u \in Tasks : task[u].step = "flood" /\ task[u].msg = task[t].msg
                                /\ NodeOf(u) = NodeOf(t) => u = t
            /\ \A l \in ToSet(task[t].to) :
                  task[t].msg \notin ToSet(inbox[<<l, Peer(l, NodeOf(t))>>])
        BY <3>3 DEF OnceInv, FloodsOnce
      <4>2. task[t].msg \in Messages /\ task[t].msg # m
        BY <3>3, <1>7 DEF OnceInv, FloodInv, FrameInv, TrafficTypes, Calls
      <4>3. handled'[NodeOf(t)][task[t].msg] # 0  BY <4>1, <4>2, <1>8
      <4>4. \A u \in Tasks : task'[u].step = "flood" /\ task'[u].msg = task[t].msg
                             /\ By(u) = NodeOf(t) => u = t
        <5> SUFFICES ASSUME NEW u \in Tasks, task'[u].step = "flood",
                            task'[u].msg = task[t].msg, By(u) = NodeOf(t)
                     PROVE  u = t
          OBVIOUS
        <5>1. u # m  BY <4>2, <1>5, <1>6
        <5>2. task'[u] = task[u] /\ By(u) = NodeOf(u)  BY <5>1, <2>1, <1>6
        <5> QED  BY <5>2, <4>1
      <4> QED  BY <4>1, <4>3, <4>4
    <3> QED  BY <3>1, <3>2, <3>3
  <2> QED  BY <2>2, <2>3
<1>11. \A k \in Nodes, x \in Messages : handled[k][x] # 0 => handled'[k][x] # 0  BY <1>8
<1>12. AnswersFirst' /\ FramesOnce'  BY <1>1, <1>11, LinksOnce
<1> QED  BY <1>10, <1>12 DEF OnceInv

\* What is delivered was not flooded by this node before, so it is on none of the
\* links it will be written to.
LEMMA DeliverOnce ==
    ASSUME OnceInv, FloodInv', NEW e \in Ends, Deliver(e)
    PROVE  OnceInv'
<1>1. PICK n \in Nodes : n = e[2] /\ NodeOf(e) = n
  BY EndsOfLinks, MeshAssumption DEF NodeOf
<1>2. PICK m : m = task[e].msg  OBVIOUS
<1>3. /\ task[e].step = "deliver" /\ handled' = [handled EXCEPT ![n][m] = @ + 1]
      /\ UNCHANGED <<wire, stage, inbox, origin>>
  BY <1>1, <1>2 DEF Deliver, links
<1>4. PICK to \in Targets(n, Peer(e[1], n)) :
        task' = [task EXCEPT ![e] = [@ EXCEPT !.step = "flood", !.to = to]]
  BY <1>1 DEF Deliver, Onward
<1>5. \A l \in ToSet(to) : <<l, n>> \in Ends /\ stage[<<l, n>>] = "serving"
  BY TargetsServe DEF OnceInv, FloodInv
<1>6. e \in Tasks /\ task[e] \in Calls /\ m \in Messages
  BY <1>2, <1>3 DEF Tasks, OnceInv, FloodInv, FrameInv, TrafficTypes, Calls
<1>7. PICK c : c = [task[e] EXCEPT !.step = "flood", !.to = to]  OBVIOUS
<1>8. c.msg = m /\ c.step = "flood" /\ c.to = to  BY <1>2, <1>6, <1>7 DEF Calls
<1>9. \A t \in Tasks : task'[t] = IF t = e THEN c ELSE task[t]
  BY <1>4, <1>7 DEF OnceInv, FloodInv, FrameInv, TrafficTypes
<1>10. handled[n][m] = 0
  BY <1>1, <1>2, <1>3 DEF OnceInv, FloodInv, Pending
<1>11. \A k \in Nodes, x \in Messages :
         handled'[k][x] = IF k = n /\ x = m THEN 1 ELSE handled[k][x]
  BY <1>3, <1>6, <1>10 DEF OnceInv, FloodInv, FrameInv, TrafficTypes
<1>12. FloodsOnce'
  <2> SUFFICES ASSUME NEW t \in Tasks
               PROVE  /\ t \in Messages => task'[t] = NoTask \/ task'[t].msg = t
                      /\ task'[t].step = "flood" =>
                            /\ NodeOf(t) \in Nodes /\ handled'[NodeOf(t)][task'[t].msg] # 0
                            /\ \A u \in Tasks : task'[u].step = "flood" /\ task'[u].msg = task'[t].msg
                                                /\ NodeOf(u) = NodeOf(t) => u = t
                            /\ \A l \in ToSet(task'[t].to) :
                                  task'[t].msg \notin ToSet(inbox[<<l, Peer(l, NodeOf(t))>>])
                      /\ task'[t].step # "flood" => task'[t].to = <<>>
    BY <1>3 DEF FloodsOnce, NodeOf
  <2>1. \A u \in Tasks : task[u].step = "flood" =>
          /\ NodeOf(u) \in Nodes /\ handled[NodeOf(u)][task[u].msg] # 0
          /\ ~(NodeOf(u) = n /\ task[u].msg = m)
    BY <1>10 DEF OnceInv, FloodsOnce
  <2>2. CASE t = e
    <3>1. task'[t] = c /\ NodeOf(t) = n /\ t \notin Messages  BY <2>2, <1>1, <1>9, MeshAssumption
    <3>2. handled'[n][m] # 0  BY <1>6, <1>11
    <3>3. \A u \in Tasks : task'[u].step = "flood" /\ task'[u].msg = m /\ NodeOf(u) = n => u = t
      BY <2>1, <2>2, <1>9
    <3>4. \A l \in ToSet(to) : m \notin ToSet(inbox[<<l, Peer(l, n)>>])
      <4> SUFFICES ASSUME NEW l \in ToSet(to) PROVE m \notin ToSet(inbox[<<l, Peer(l, n)>>])
        OBVIOUS
      <4>1. PICK d \in Ends : d = <<l, n>> /\ stage[d] = "serving"  BY <1>5
      <4>2. PICK g \in Ends : g = <<l, Peer(l, n)>> /\ Other(g) = d
        <5>1. Other(d) = <<l, Peer(l, n)>> /\ Other(d) \in Ends  BY <4>1, EndsOfLinks DEF Other
        <5>2. Other(Other(d)) = d  BY <5>1, <4>1, EndsOfLinks DEF Other, Peer
        <5> QED  BY <5>1, <5>2
      <4>3. \A x \in Messages \cap ToSet(inbox[g]) : stage[d] # "idle" => handled[d[2]][x] # 0
        BY <4>2 DEF OnceInv, FramesOnce
      <4> QED  BY <4>1, <4>2, <4>3, <1>6, <1>10
    <3> QED  BY <3>1, <3>2, <3>3, <3>4, <1>8
  <2>3. CASE t # e
    <3>1. task'[t] = task[t]  BY <2>3, <1>9
    <3>2. /\ t \in Messages => task[t] = NoTask \/ task[t].msg = t
          /\ task[t].step # "flood" => task[t].to = <<>>
      BY DEF OnceInv, FloodsOnce
    <3>3. ASSUME task[t].step = "flood"
          PROVE  /\ NodeOf(t) \in Nodes /\ handled'[NodeOf(t)][task[t].msg] # 0
                 /\ \A u \in Tasks : task'[u].step = "flood" /\ task'[u].msg = task[t].msg
                                     /\ NodeOf(u) = NodeOf(t) => u = t
                 /\ \A l \in ToSet(task[t].to) :
                       task[t].msg \notin ToSet(inbox[<<l, Peer(l, NodeOf(t))>>])
      <4>1. /\ \A u \in Tasks : task[u].step = "flood" /\ task[u].msg = task[t].msg
                                /\ NodeOf(u) = NodeOf(t) => u = t
            /\ \A l \in ToSet(task[t].to) :
                  task[t].msg \notin ToSet(inbox[<<l, Peer(l, NodeOf(t))>>])
        BY <3>3 DEF OnceInv, FloodsOnce
      <4>2. task[t].msg \in Messages
        BY <3>3 DEF OnceInv, FloodInv, FrameInv, TrafficTypes, Calls
      <4>3. NodeOf(t) \in Nodes /\ handled'[NodeOf(t)][task[t].msg] # 0
        BY <2>1, <3>3, <4>2, <1>11
      <4>4. \A u \in Tasks : task'[u].step = "flood" /\ task'[u].msg = task[t].msg
                             /\ NodeOf(u) = NodeOf(t) => u = t
        <5> SUFFICES ASSUME NEW u \in Tasks, task'[u].step = "flood",
                            task'[u].msg = task[t].msg, NodeOf(u) = NodeOf(t)
                     PROVE  u = t
          OBVIOUS
        <5>1. u # e  BY <2>1, <3>3, <1>1, <1>8, <1>9
        <5> QED  BY <5>1, <4>1, <1>9
      <4> QED  BY <4>1, <4>3, <4>4
    <3> QED  BY <3>1, <3>2, <3>3
  <2> QED  BY <2>2, <2>3
<1>13. \A k \in Nodes, x \in Messages : handled[k][x] # 0 => handled'[k][x] # 0  BY <1>11
<1>14. AnswersFirst' /\ FramesOnce'  BY <1>3, <1>13, LinksOnce
<1> QED  BY <1>12, <1>14 DEF OnceInv

\* Head and rest of a sequence.
LEMMA HeadAndTail ==
    ASSUME NEW S, NEW s \in Seq(S), s # <<>>
    PROVE  /\ ToSet(s) = {Head(s)} \cup ToSet(Tail(s))
           /\ Distinct(s) => Head(s) \notin ToSet(Tail(s))
<1>1. /\ Len(Tail(s)) = Len(s) - 1 /\ Tail(s) \in Seq(S)
      /\ \A i \in 1 .. Len(Tail(s)) : Tail(s)[i] = s[i + 1]
  BY HeadTailProperties
<1>2. /\ DOMAIN s = 1 .. Len(s) /\ DOMAIN Tail(s) = 1 .. Len(s) - 1 /\ Len(s) \in Nat
  BY <1>1, LenProperties
<1>3. Len(s) # 0 /\ Head(s) = s[1] /\ 1 \in DOMAIN s  BY <1>2, EmptySeq
<1>4. \A i \in DOMAIN Tail(s) : i + 1 \in DOMAIN s /\ i + 1 # 1 /\ Tail(s)[i] = s[i + 1]
  BY <1>1, <1>2
<1>5. ToSet(s) \subseteq {Head(s)} \cup ToSet(Tail(s))
  <2> SUFFICES ASSUME NEW i \in DOMAIN s, i # 1 PROVE s[i] \in ToSet(Tail(s))
    BY <1>3 DEF ToSet
  <2>1. i - 1 \in DOMAIN Tail(s) /\ Tail(s)[i - 1] = s[i]  BY <1>1, <1>2
  <2> QED  BY <2>1 DEF ToSet
<1>6. Head(s) \in ToSet(s) /\ ToSet(Tail(s)) \subseteq ToSet(s)  BY SetOfTail
<1>7. Distinct(s) => Head(s) \notin ToSet(Tail(s))
  BY <1>3, <1>4 DEF Distinct, ToSet
<1> QED  BY <1>5, <1>6, <1>7

\* A written frame is on the link once: it goes from what the flood has to write
\* to what is on its way.
LEMMA FloodWriteOnce ==
    ASSUME OnceInv, FloodInv', NEW t \in Tasks, FloodWrite(t)
    PROVE  OnceInv'
<1>1. PICK c \in Calls : c = task[t]  BY DEF OnceInv, FloodInv, FrameInv, TrafficTypes
<1>2. PICK l : l = Head(c.to)  OBVIOUS
<1>3. PICK n : n = NodeOf(t)  OBVIOUS
<1>4. c.to # <<>> /\ c.to \in Seq(Links)  BY <1>1 DEF FloodWrite, Calls
<1>5. /\ Distinct(c.to) /\ c.msg \in Messages
      /\ \A k \in ToSet(c.to) : <<k, n>> \in Ends /\ stage[<<k, n>>] = "serving"
  BY <1>1, <1>3, <1>4 DEF OnceInv, FloodInv, FrameInv, FloodsServed
<1>6. /\ Tail(c.to) \in Seq(Links) /\ ToSet(c.to) = {l} \cup ToSet(Tail(c.to))
      /\ l \notin ToSet(Tail(c.to))
  BY <1>2, <1>4, <1>5, SetOfTail, HeadAndTail
<1>7. PICK e \in Ends : e = <<l, n>> /\ stage[e] = "serving"  BY <1>5, <1>6
<1>8. PICK f \in Ends : f = <<l, Peer(l, n)>> /\ Other(f) = e
  <2>1. Other(e) = <<l, Peer(l, n)>> /\ Other(e) \in Ends  BY <1>7, EndsOfLinks DEF Other
  <2>2. Other(Other(e)) = e  BY <2>1, <1>7, EndsOfLinks DEF Other, Peer
  <2> QED  BY <2>1, <2>2
<1>9. /\ inbox' = inbox \/ inbox' = [inbox EXCEPT ![f] = Append(@, c.msg)]
      /\ task' = [task EXCEPT ![t].to = Tail(@)]
      /\ UNCHANGED <<wire, stage, origin, handled>>
  BY <1>1, <1>2, <1>3, <1>8 DEF FloodWrite, links
<1>10. PICK d : d = [c EXCEPT !.to = Tail(@)]  OBVIOUS
<1>11. d \in Calls /\ d.to = Tail(c.to) /\ d.msg = c.msg /\ d.step = c.step
  BY <1>6, <1>10 DEF Calls
<1>12. task' = [task EXCEPT ![t] = d]  BY <1>1, <1>9, <1>10
<1>13. \A u \in Tasks : task'[u] = IF u = t THEN d ELSE task[u]
  BY <1>12 DEF OnceInv, FloodInv, FrameInv, TrafficTypes
<1>14. c.step = "flood"  BY <1>1, <1>4 DEF OnceInv, FloodsOnce
<1>15. /\ n \in Nodes /\ handled[n][c.msg] # 0
       /\ \A u \in Tasks : task[u].step = "flood" /\ task[u].msg = c.msg /\ NodeOf(u) = n => u = t
       /\ \A k \in ToSet(c.to) : c.msg \notin ToSet(inbox[<<k, Peer(k, n)>>])
  BY <1>1, <1>3, <1>14 DEF OnceInv, FloodsOnce
<1>16. c.msg \notin ToSet(inbox[f])  BY <1>6, <1>8, <1>15
<1>17. \A g \in Ends : /\ \/ ToSet(inbox'[g]) = ToSet(inbox[g])
                          \/ g = f /\ ToSet(inbox'[g]) = ToSet(inbox[g]) \cup {c.msg}
                       /\ g # f => inbox'[g] = inbox[g]
                       /\ Distinct(inbox'[g])
  <2>1. inbox \in [Ends -> Seq(Frames)] /\ c.msg \in Frames
    BY <1>5 DEF Frames, OnceInv, FloodInv, FrameInv, TrafficTypes
  <2>2. /\ ToSet(Append(inbox[f], c.msg)) = ToSet(inbox[f]) \cup {c.msg}
        /\ Distinct(Append(inbox[f], c.msg))
    BY <2>1, <1>16, SetOfAppend DEF OnceInv, FramesOnce
  <2>3. \A g \in Ends : inbox'[g] = inbox[g] \/ (g = f /\ inbox'[g] = Append(inbox[f], c.msg))
    BY <2>1, <1>9
  <2>4. \A g \in Ends : Distinct(inbox[g])  BY DEF OnceInv, FramesOnce
  <2> QED  BY <2>2, <2>3, <2>4
<1>18. AnswersFirst'
  <2> SUFFICES ASSUME NEW k \in Links
               PROVE  /\ stage'[<<k, k[1]>>] # "accepting"
                      /\ stage'[<<k, k[2]>>] = "accepting" /\ wire'[k] = "up"
                           => inbox'[<<k, k[1]>>] = <<>>
    BY DEF AnswersFirst
  <2>1. PICK g \in Ends, h \in Ends : g = <<k, k[1]>> /\ h = <<k, k[2]>>  BY EndsOfLinks
  <2>2. /\ stage[g] # "accepting"
        /\ stage[h] = "accepting" /\ wire[k] = "up" => inbox[g] = <<>>
    BY <2>1 DEF OnceInv, AnswersFirst
  <2>3. Other(g) = h  BY <2>1 DEF Other, Peer
  <2> QED  BY <2>1, <2>2, <2>3, <1>7, <1>8, <1>9, <1>17
<1>19. FramesOnce'
  <2> SUFFICES ASSUME NEW g \in Ends
               PROVE  \A m \in Messages \cap ToSet(inbox'[g]) : stage[Other(g)] # "idle" =>
                         stage[Other(g)] = "serving" /\ handled[Other(g)[2]][m] # 0
    BY <1>9, <1>17 DEF FramesOnce
  <2>1. \A m \in Messages \cap ToSet(inbox[g]) : stage[Other(g)] # "idle" =>
           stage[Other(g)] = "serving" /\ handled[Other(g)[2]][m] # 0
    BY DEF OnceInv, FramesOnce
  <2>2. CASE ToSet(inbox'[g]) = ToSet(inbox[g])  BY <2>1, <2>2
  <2>3. CASE g = f /\ ToSet(inbox'[g]) = ToSet(inbox[g]) \cup {c.msg}
    BY <2>1, <2>3, <1>7, <1>8, <1>15
  <2> QED  BY <2>2, <2>3, <1>17
<1>20. FloodsOnce'
  <2> SUFFICES ASSUME NEW u \in Tasks
               PROVE  /\ u \in Messages => task'[u] = NoTask \/ task'[u].msg = u
                      /\ task'[u].step = "flood" =>
                            /\ NodeOf(u) \in Nodes /\ handled[NodeOf(u)][task'[u].msg] # 0
                            /\ \A v \in Tasks : task'[v].step = "flood" /\ task'[v].msg = task'[u].msg
                                                /\ NodeOf(v) = NodeOf(u) => v = u
                            /\ \A k \in ToSet(task'[u].to) :
                                  task'[u].msg \notin ToSet(inbox'[<<k, Peer(k, NodeOf(u))>>])
                      /\ task'[u].step # "flood" => task'[u].to = <<>>
    BY <1>9 DEF FloodsOnce, NodeOf
  <2>1. \A v \in Tasks : task'[v].step = task[v].step /\ task'[v].msg = task[v].msg
    BY <1>1, <1>11, <1>13
  <2>2. /\ u \in Messages => task[u] = NoTask \/ task[u].msg = u
        /\ task[u].step # "flood" => task[u].to = <<>>
    BY DEF OnceInv, FloodsOnce
  <2>3. u \in Messages => task'[u] = NoTask \/ task'[u].msg = u
    <3>1. task[t] # NoTask  BY <1>1, <1>4 DEF NoTask
    <3> QED  BY <3>1, <2>1, <2>2, <1>13
  <2>4. task'[u].step # "flood" => task'[u].to = <<>>
    BY <2>1, <2>2, <1>1, <1>13, <1>14
  <2>5. ASSUME task[u].step = "flood"
        PROVE  /\ NodeOf(u) \in Nodes /\ handled[NodeOf(u)][task[u].msg] # 0
               /\ \A v \in Tasks : task[v].step = "flood" /\ task[v].msg = task[u].msg
                                   /\ NodeOf(v) = NodeOf(u) => v = u
               /\ \A k \in ToSet(task'[u].to) :
                     task[u].msg \notin ToSet(inbox'[<<k, Peer(k, NodeOf(u))>>])
    <3>1. /\ NodeOf(u) \in Nodes /\ handled[NodeOf(u)][task[u].msg] # 0
          /\ \A v \in Tasks : task[v].step = "flood" /\ task[v].msg = task[u].msg
                              /\ NodeOf(v) = NodeOf(u) => v = u
          /\ \A k \in ToSet(task[u].to) :
                task[u].msg \notin ToSet(inbox[<<k, Peer(k, NodeOf(u))>>])
      BY <2>5 DEF OnceInv, FloodsOnce
    <3>2. ASSUME NEW k \in ToSet(task'[u].to)
          PROVE  task[u].msg \notin ToSet(inbox'[<<k, Peer(k, NodeOf(u))>>])
      <4>1. k \in ToSet(task[u].to) /\ (u = t => k # l)
        BY <3>2, <1>1, <1>6, <1>11, <1>13
      <4>2. <<k, NodeOf(u)>> \in Ends
        BY <4>1 DEF OnceInv, FloodInv, FrameInv, FloodsServed
      <4>3. PICK g \in Ends : g = <<k, Peer(k, NodeOf(u))>>
        BY <4>2, EndsOfLinks DEF Other
      <4>4. task[u].msg \notin ToSet(inbox[g])  BY <4>1, <4>3, <3>1
      <4>5. CASE g = f /\ task[u].msg = c.msg
        <5>1. k = l /\ Peer(k, NodeOf(u)) = Peer(l, n)  BY <4>3, <4>5, <1>8
        <5>2. NodeOf(u) = n  BY <5>1, <4>2, <1>7, EndsOfLinks DEF Peer
        <5>3. u = t  BY <5>2, <4>5, <2>5, <1>15
        <5> QED  BY <5>1, <5>3, <4>1
      <4>6. CASE g # f \/ task[u].msg # c.msg
        BY <4>3, <4>4, <4>6, <1>17
      <4> QED  BY <4>5, <4>6
    <3> QED  BY <3>1, <3>2
  <2> QED  BY <2>1, <2>3, <2>4, <2>5
<1> QED  BY <1>18, <1>19, <1>20 DEF OnceInv

LEMMA OnceInit == Init => OnceInv
<1> SUFFICES ASSUME Init PROVE OnceInv  OBVIOUS
<1>1. FloodInv  BY FloodInit
<1>2. ToSet(<<>>) = {} /\ Distinct(<<>>)  BY DEF ToSet, Distinct
<1>3. AnswersFirst  BY EndsOfLinks DEF Init, AnswersFirst
<1>4. FramesOnce  BY <1>2 DEF Init, FramesOnce
<1>5. FloodsOnce  BY DEF Init, FloodsOnce, NoTask
<1> QED  BY <1>1, <1>3, <1>4, <1>5 DEF OnceInv

LEMMA OnceStepKeeps ==
    ASSUME RemembersAll, OnceInv, [Next]_vars
    PROVE  OnceInv'
<1>1. FloodInv'  BY FloodStepKeeps DEF OnceInv
<1>2. ASSUME Winds PROVE OnceInv'  BY <1>1, <1>2, WindsKeeps
<1>3. CASE LinkStep
  <2>1. ASSUME NEW e \in Ends, HandshakeFails(e) PROVE OnceInv'
    <3>1. \A d \in Ends : stage'[d] = stage[d] \/ stage'[d] = "idle"
      BY <2>1 DEF HandshakeFails, OnceInv, FloodInv, FrameInv, LinkInv, LinkTypes
    <3> QED  BY <3>1, <2>1, <1>2, TrafficWinds DEF HandshakeFails
  <2> QED  BY <1>1, <1>2, <1>3, <2>1, DialOnce, AcceptOnce, HandshakeWinds, TearDownWinds
           DEF LinkStep
<1>4. CASE MessageStep
  BY <1>1, <1>2, <1>4, RelayOnce, ReceiveWinds, DeliverOnce, FloodWriteOnce, FloodDoneWinds
  DEF MessageStep
<1>5. CASE NodeStep
  <2>1. ASSUME NEW n \in Nodes, Stop(n) \/ Start(n) \/ Hang(n) \/ Resume(n) PROVE OnceInv'
    <3>1. UNCHANGED <<wire, stage>> /\ UNCHANGED traffic
      BY <2>1 DEF Stop, Start, Hang, Resume, links
    <3> QED  BY <3>1, <1>2, TrafficWinds
  <2>2. ASSUME NEW n \in Nodes, StopCloses(n) PROVE OnceInv'
    <3>1. \A d \in Ends : stage'[d] = stage[d] \/ stage'[d] = "idle"
      BY <2>2 DEF StopCloses
    <3>2. \A l \in Links : wire'[l] = "up" => wire[l] = "up"
      BY <2>2 DEF StopCloses
    <3> QED  BY <3>1, <3>2, <2>2, <1>2, TrafficWinds DEF StopCloses
  <2>3. ASSUME NEW n \in Nodes, Exit(n) \/ Crash(n) PROVE OnceInv'
    BY <2>3, <1>2, GoneWinds DEF Exit, Crash
  <2>4. ASSUME NEW l \in Links, Lose(l) PROVE OnceInv'
    BY <2>4, <1>2, LoseWinds
  <2> QED  BY <1>2, <1>5, <2>1, <2>2, <2>3, <2>4, TearDownWinds DEF NodeStep
<1>6. CASE UNCHANGED vars
  <2>1. UNCHANGED <<wire, stage>> /\ UNCHANGED traffic  BY <1>6 DEF vars, links
  <2> QED  BY <2>1, <1>2, TrafficWinds
<1> QED  BY <1>3, <1>4, <1>5, <1>6 DEF Next

\* A connection has room for every message there is and a PEER_HELLO.
HoldsAll == IsFiniteSet(Messages) /\ Cardinality(Messages) < Cap

\* A flood never waits in drain().
LEMMA RoomForFloods ==
    ASSUME HoldsAll, OnceInv, NEW t \in Tasks, task[t].to # <<>>, NEW l \in ToSet(task[t].to)
    PROVE  Room(l, Peer(l, NodeOf(t)))
<1>1. PICK m \in Messages : m = task[t].msg
  BY DEF OnceInv, FloodInv, FrameInv, FloodsServed
<1>2. <<l, NodeOf(t)>> \in Ends
  BY DEF OnceInv, FloodInv, FrameInv, FloodsServed
<1>3. PICK d \in Ends : d = <<l, Peer(l, NodeOf(t))>>  BY <1>2, EndsOfLinks DEF Other
<1>4. m \notin ToSet(inbox[d])  BY <1>1, <1>3 DEF OnceInv, FloodsOnce
<1>5. inbox[d] \in Seq(Frames) /\ Distinct(inbox[d])
  BY DEF OnceInv, FloodInv, FrameInv, TrafficTypes, FramesOnce
<1>6. PICK S : S = Frames \ {m}  OBVIOUS
<1>7. inbox[d] \in Seq(S)
  <2>1. DOMAIN inbox[d] = 1 .. Len(inbox[d]) /\ Len(inbox[d]) \in Nat
        /\ \A i \in 1 .. Len(inbox[d]) : inbox[d][i] \in Frames
    BY <1>5, LenProperties
  <2>2. \A i \in 1 .. Len(inbox[d]) : inbox[d][i] \in S  BY <2>1, <1>4, <1>6 DEF ToSet
  <2>3. inbox[d] \in [1 .. Len(inbox[d]) -> S]  BY <2>2, <1>5, LenProperties
  <2> QED  BY <2>1, <2>3, SeqDef
<1>8. IsFiniteSet(S) /\ Cardinality(S) = Cardinality(Messages)
  <2>1. IsFiniteSet(Messages) /\ Hello \notin Messages  BY MeshAssumption DEF HoldsAll
  <2>2. IsFiniteSet(Frames) /\ Cardinality(Frames) = Cardinality(Messages) + 1
    BY <2>1, FS_AddElement DEF Frames
  <2>3. IsFiniteSet(S) /\ Cardinality(S) = Cardinality(Frames) - 1
    BY <2>2, <1>6, FS_RemoveElement DEF Frames
  <2>4. Cardinality(Messages) \in Nat  BY <2>1, FS_CardinalityType
  <2> QED  BY <2>2, <2>3, <2>4
<1>9. Len(inbox[d]) <= Cardinality(Messages)  BY <1>5, <1>7, <1>8, DistinctFit
<1>10. Len(inbox[d]) \in Nat /\ Cardinality(Messages) \in Nat /\ Cap \in Nat
  BY <1>5, LenProperties, FS_CardinalityType, MeshAssumption DEF HoldsAll
<1>11. Len(inbox[d]) < Cap  BY <1>9, <1>10 DEF HoldsAll
<1> QED  BY <1>3, <1>11 DEF Room

\* What happens while no node stops, ends, returns or hangs, no link is lost and no
\* delivery raises.
Calm == LinkStep \/ MessageStep \/ UNCHANGED vars

\* An end in service whose other end is on a connection makes it live.
LEMMA LiveEnd ==
    ASSUME OnceInv, NEW e \in Ends, stage[e] = "serving", stage[Other(e)] # "idle",
           wire[e[1]] = "up"
    PROVE  Live(e[1])
<1>1. PICK l \in Links : l = e[1]  BY EndsOfLinks
<1>2. PICK g \in Ends, h \in Ends : g = <<l, l[1]>> /\ h = <<l, l[2]>>  BY EndsOfLinks
<1>3. (e = g /\ Other(e) = h) \/ (e = h /\ Other(e) = g)
  BY <1>1, <1>2, EndsOfLinks DEF Other, Peer
<1>4. stage[g] # "accepting"  BY <1>2 DEF OnceInv, AnswersFirst
<1>5. stage[h] = "accepting" => stage[g] # "serving"
  BY <1>2 DEF OnceInv, FloodInv, FrameInv, HelloComes
<1>6. stage[g] \in Stages /\ stage[h] \in Stages
  BY DEF OnceInv, FloodInv, FrameInv, LinkInv, LinkTypes
<1>7. stage[g] \in {"hello", "serving"} /\ stage[h] \in {"hello", "serving"}
  BY <1>3, <1>4, <1>5, <1>6 DEF Stages
<1> QED  BY <1>1, <1>2, <1>7 DEF Live

LEMMA EndsOfLive ==
    ASSUME NEW e \in Ends, Live(e[1])
    PROVE  /\ wire[e[1]] = "up" /\ stage[e] \in {"hello", "serving"}
           /\ stage[Other(e)] \in {"hello", "serving"}
<1>1. PICK l \in Links : l = e[1] /\ e = <<l, e[2]>> /\ (e[2] = l[1] \/ e[2] = l[2]) /\ l[1] # l[2]
  BY EndsOfLinks
<1>2. Other(e) = <<l, Peer(l, e[2])>> /\ Peer(l, e[2]) \in {l[1], l[2]}
  BY <1>1 DEF Other, Peer
<1> QED  BY <1>1, <1>2 DEF Live

\* A live link between nodes that are up does not end by itself.
LEMMA LiveNotEnded ==
    ASSUME HoldsAll, OnceInv, AllUp, NEW e \in Ends, TearDown(e) \/ HandshakeFails(e)
    PROVE  ~Live(e[1])
<1> SUFFICES ASSUME Live(e[1]) PROVE FALSE  OBVIOUS
<1>1. e[2] \in Nodes /\ e[1] \in Links /\ Other(e) \in Ends /\ Other(e)[2] = Peer(e[1], e[2])
      /\ Other(e)[1] = e[1] /\ Other(e)[2] \in Nodes
  BY EndsOfLinks
<1>2. proc[e[2]] = "up" /\ proc[Other(e)[2]] = "up"  BY <1>1 DEF AllUp
<1>3. /\ wire[e[1]] = "up" /\ stage[Other(e)] \in {"hello", "serving"}
  BY EndsOfLive
<1>4. ~HandshakeFails(e)  BY <1>1, <1>2, <1>3 DEF HandshakeFails
<1>5. ASSUME TearDown(e) PROVE FALSE
  <2>1. Broken(e) \/ Silent(e)  BY <1>2, <1>5 DEF TearDown
  <2>2. ~Broken(e)  BY <1>3 DEF Broken
  <2>3. Stuck(Other(e))  BY <2>1, <2>2, <1>2, <1>3 DEF Silent
  <2>4. PICK t \in Tasks : t = Other(e) /\ NodeOf(t) = t[2]
    BY <1>1, MeshAssumption DEF NodeOf, Tasks
  <2>5. PICK to \in Seq(Links) : to = task[t].to
    BY DEF OnceInv, FloodInv, FrameInv, TrafficTypes, Calls
  <2>6. to # <<>> /\ ~Room(to[1], Peer(to[1], t[2]))
    BY <2>3, <2>4, <2>5 DEF Stuck
  <2>7. to[1] \in ToSet(to)
    <3>1. 1 \in DOMAIN to  BY <2>6, LenProperties, EmptySeq
    <3> QED  BY <3>1 DEF ToSet
  <2>8. Room(to[1], Peer(to[1], t[2]))  BY <2>4, <2>5, <2>6, <2>7, RoomForFloods
  <2> QED  BY <2>6, <2>8
<1> QED  BY <1>4, <1>5

\* What is live stays live.
LEMMA LiveStays ==
    ASSUME HoldsAll, OnceInv, AllUp, Calm, NEW l \in Links, Live(l)
    PROVE  Live(l)'
<1>1. PICK g \in Ends, h \in Ends : g = <<l, l[1]>> /\ h = <<l, l[2]>> /\ g # h  BY EndsOfLinks
<1>2. /\ wire[l] = "up" /\ stage[g] \in {"hello", "serving"} /\ stage[h] \in {"hello", "serving"}
  BY <1>1 DEF Live
<1> SUFFICES wire'[l] = "up" /\ stage'[g] \in {"hello", "serving"} /\ stage'[h] \in {"hello", "serving"}
  BY <1>1 DEF Live
<1> USE DEF OnceInv, FloodInv, FrameInv, LinkInv, LinkTypes
<1>3. ASSUME NEW k \in Links, Dial(k)
      PROVE  wire'[l] = "up" /\ stage'[g] = stage[g] /\ stage'[h] = stage[h]
  <2>1. /\ stage[<<k, k[1]>>] = "idle" /\ wire' = [wire EXCEPT ![k] = "up"]
        /\ stage' = [stage EXCEPT ![<<k, k[1]>>] = "hello", ![<<k, k[2]>>] = "accepting"]
    BY <1>3 DEF Dial
  <2>2. k # l  BY <2>1, <1>1, <1>2
  <2> QED  BY <2>1, <2>2, <1>1, <1>2
<1>4. ASSUME NEW k \in Links, Accept(k)
      PROVE  /\ wire' = wire /\ stage'[g] \in {stage[g], "hello"}
             /\ stage'[h] \in {stage[h], "hello"}
  BY <1>4 DEF Accept
<1>5. ASSUME NEW e \in Ends, Handshake(e)
      PROVE  /\ wire' = wire /\ stage'[g] \in {stage[g], "serving"}
             /\ stage'[h] \in {stage[h], "serving"}
  BY <1>5 DEF Handshake
<1>6. ASSUME NEW e \in Ends, HandshakeFails(e) \/ TearDown(e)
      PROVE  wire'[l] = wire[l] /\ stage'[g] = stage[g] /\ stage'[h] = stage[h]
  <2>1. e[1] # l  BY <1>6, LiveNotEnded
  <2>2. e # g /\ e # h /\ e[1] \in Links  BY <2>1, <1>1, EndsOfLinks
  <2>3. stage' = [stage EXCEPT ![e] = "idle"] /\ (wire' = wire \/ wire' = [wire EXCEPT ![e[1]] = "cut"])
    BY <1>6 DEF HandshakeFails, TearDown, LinkEnds
  <2> QED  BY <2>1, <2>2, <2>3
<1>7. CASE LinkStep  BY <1>2, <1>3, <1>4, <1>5, <1>6, <1>7 DEF LinkStep
<1>8. CASE MessageStep
  BY <1>2, <1>8 DEF MessageStep, Relay, Receive, Deliver, FloodWrite, FloodDone, links
<1>9. CASE UNCHANGED vars  BY <1>2, <1>9 DEF vars, links
<1> QED  BY <1>7, <1>8, <1>9 DEF Calm

LEMMA TwoEnds ==
    ASSUME NEW l \in Links
    PROVE  \E g, h \in Ends : g = <<l, l[1]>> /\ h = <<l, l[2]>> /\ g # h
  BY EndsOfLinks

\* Links in good order stay so.
LEMMA SettledStays ==
    ASSUME HoldsAll, OnceInv, AllUp, Settled, Calm
    PROVE  Settled'
<1> USE DEF OnceInv, FloodInv, FrameInv, LinkInv, LinkTypes
<1>1. ASSUME NEW l \in Links, Sound(l) PROVE Sound(l)'
  <2>1. PICK g \in Ends, h \in Ends : g = <<l, l[1]>> /\ h = <<l, l[2]>> /\ g # h  BY TwoEnds
  <2>2. ASSUME NEW e \in Ends, e[1] = l PROVE (e = g /\ Other(e) = h) \/ (e = h /\ Other(e) = g)
    <3>1. /\ e = <<l, e[2]>> /\ (e[2] = l[1] \/ e[2] = l[2]) /\ l[1] # l[2]
          /\ Other(e) = <<l, Peer(l, e[2])>>
      BY <2>2, EndsOfLinks DEF Other
    <3>2. CASE e[2] = l[1]  BY <3>1, <3>2, <2>1 DEF Peer
    <3>3. CASE e[2] = l[2]  BY <3>1, <3>3, <2>1 DEF Peer
    <3> QED  BY <3>1, <3>2, <3>3
  <2>3. \/ stage[g] = "idle" /\ stage[h] = "idle"
        \/ stage[g] # "idle" /\ stage[h] # "idle" /\ wire[l] = "up"
    BY <1>1, <2>1 DEF Sound
  <2> SUFFICES \/ stage'[g] = "idle" /\ stage'[h] = "idle"
               \/ stage'[g] # "idle" /\ stage'[h] # "idle" /\ wire'[l] = "up"
    BY <2>1 DEF Sound
  <2>4. ASSUME NEW k \in Links, Dial(k)
        PROVE  \/ stage'[g] = stage[g] /\ stage'[h] = stage[h] /\ wire'[l] = wire[l]
               \/ stage'[g] # "idle" /\ stage'[h] # "idle" /\ wire'[l] = "up"
    <3>1. PICK d \in Ends, f \in Ends : d = <<k, k[1]>> /\ f = <<k, k[2]>> /\ d # f  BY TwoEnds
    <3>2. /\ wire' = [wire EXCEPT ![k] = "up"]
          /\ stage' = [stage EXCEPT ![d] = "hello", ![f] = "accepting"]
      BY <2>4, <3>1 DEF Dial
    <3>3. CASE k = l
      <4>1. d = g /\ f = h  BY <2>1, <3>1, <3>3
      <4> QED  BY <4>1, <2>1, <3>2, <3>3
    <3>4. CASE k # l
      <4>1. g # d /\ g # f /\ h # d /\ h # f  BY <2>1, <3>1, <3>4
      <4> QED  BY <4>1, <3>2, <3>4
    <3> QED  BY <3>3, <3>4
  <2>5. ASSUME NEW k \in Links, Accept(k)
        PROVE  /\ stage'[g] = "idle" <=> stage[g] = "idle"
               /\ stage'[h] = "idle" <=> stage[h] = "idle"
               /\ wire' = wire
    BY <2>5 DEF Accept
  <2>6. ASSUME NEW e \in Ends, Handshake(e)
        PROVE  /\ stage'[g] = "idle" <=> stage[g] = "idle"
               /\ stage'[h] = "idle" <=> stage[h] = "idle"
               /\ wire' = wire
    BY <2>6 DEF Handshake
  <2>7. ASSUME NEW e \in Ends, HandshakeFails(e) \/ TearDown(e)
        PROVE  stage'[g] = stage[g] /\ stage'[h] = stage[h] /\ wire'[l] = wire[l]
    <3>1. /\ e[2] \in Nodes /\ e[1] \in Links /\ Other(e) \in Ends /\ Other(e)[2] \in Nodes
          /\ Other(e)[2] = Peer(e[1], e[2])
      BY EndsOfLinks
    <3>2. proc[e[2]] = "up" /\ proc[Other(e)[2]] = "up"  BY <3>1 DEF AllUp
    <3>3. stage[e] \in {"hello", "serving"}  BY <2>7 DEF HandshakeFails, TearDown, LinkEnds
    <3>4. ASSUME e[1] = l PROVE FALSE
      <4>1. stage[Other(e)] # "idle" /\ wire[e[1]] = "up"  BY <3>3, <3>4, <2>2, <2>3
      <4>2. ~HandshakeFails(e)  BY <4>1, <3>1, <3>2 DEF HandshakeFails
      <4>3. stage[e] = "serving"  BY <4>2, <2>7 DEF TearDown, LinkEnds
      <4>4. Live(e[1])  BY <4>1, <4>3, LiveEnd
      <4> QED  BY <4>4, <2>7, LiveNotEnded
    <3>5. e # g /\ e # h  BY <3>4, <2>1
    <3>6. stage' = [stage EXCEPT ![e] = "idle"] /\ (wire' = wire \/ wire' = [wire EXCEPT ![e[1]] = "cut"])
      BY <2>7 DEF HandshakeFails, TearDown, LinkEnds
    <3> QED  BY <3>4, <3>5, <3>6
  <2>8. CASE LinkStep  BY <2>3, <2>4, <2>5, <2>6, <2>7, <2>8 DEF LinkStep
  <2>9. CASE MessageStep
    BY <2>3, <2>9 DEF MessageStep, Relay, Receive, Deliver, FloodWrite, FloodDone, links
  <2>10. CASE UNCHANGED vars  BY <2>3, <2>10 DEF vars, links
  <2> QED  BY <2>8, <2>9, <2>10 DEF Calm
<1> QED  BY <1>1 DEF Settled

\* A node that has a live link to another one registered keeps one: only a link of
\* the same pair takes its place, which is live too.
LEMMA FirmStays ==
    ASSUME HoldsAll, OnceInv, AllUp, Settled, Calm,
           NEW k \in Nodes, NEW j \in Nodes, Firm(k, j)
    PROVE  Firm(k, j)'
<1>1. PICK l \in Links : l = peers[k][j] /\ Live(l)
  BY DEF Firm, OnceInv, FloodInv, FrameInv, LinkInv, LinkTypes
<1>2. l # NoLink  BY MeshAssumption
<1>3. <<l, k>> \in Ends /\ Peer(l, k) = j /\ stage[<<l, k>>] = "serving"
  BY <1>1, <1>2 DEF OnceInv, FloodInv, FrameInv, LinkInv, RegisteredServes
<1>4. Live(l)'  BY <1>1, LiveStays
<1>5. ASSUME peers'[k][j] = l PROVE Firm(k, j)'  BY <1>2, <1>4, <1>5 DEF Firm
<1>6. ASSUME NEW e \in Ends, Handshake(e) PROVE Firm(k, j)'
  <2>1. /\ stage[e] = "hello" /\ stage' = [stage EXCEPT ![e] = "serving"] /\ wire' = wire
        /\ peers' = [peers EXCEPT ![e[2]][Peer(e[1], e[2])] = e[1]]
    BY <1>6 DEF Handshake
  <2>2. e # <<l, k>>  BY <2>1, <1>3
  <2>3. CASE e[2] = k /\ Peer(e[1], k) = j
    <3>1. {l[1], l[2]} = {k, j}
      <4>1. PICK d \in Ends : d = <<l, k>>  BY <1>3
      <4> QED  BY <4>1, <1>3, EndsOfLinks DEF Peer
    <3>2. e[1] \in Links /\ {e[1][1], e[1][2]} = {k, j} /\ e[1] # l
      BY <2>2, <2>3, EndsOfLinks DEF Peer
    <3>3. Sound(e[1])  BY <3>1, <3>2 DEF Settled
    <3>4. PICK x \in Links : x = e[1]  BY <3>2
    <3>5. PICK g \in Ends, h \in Ends : g = <<x, x[1]>> /\ h = <<x, x[2]>> /\ g # h  BY TwoEnds
    <3>6. /\ e = g \/ e = h
          /\ stage[g] # "idle" /\ stage[h] # "idle" /\ wire[x] = "up"
      <4>1. e = g \/ e = h  BY <3>4, <3>5, EndsOfLinks
      <4> QED  BY <4>1, <3>3, <3>4, <3>5, <2>1 DEF Sound
    <3>7. Live(x)'
      <4> USE DEF OnceInv, FloodInv, FrameInv, LinkInv, LinkTypes
      <4>1. stage[g] # "accepting"  BY <3>5 DEF AnswersFirst
      <4>2. stage[h] # "accepting"
        <5>1. stage[h] = "accepting" => e # h /\ inbox[g] = <<>>
          BY <3>5, <3>6, <2>1 DEF HelloComes
        <5>2. inbox[e] # <<>>  BY <1>6 DEF Handshake
        <5> QED  BY <5>1, <5>2, <3>6
      <4>3. stage[g] \in {"hello", "serving"} /\ stage[h] \in {"hello", "serving"}
        <5>1. stage[g] \in Stages /\ stage[h] \in Stages  OBVIOUS
        <5> QED  BY <5>1, <4>1, <4>2, <3>6 DEF Stages
      <4>4. stage'[g] \in {"hello", "serving"} /\ stage'[h] \in {"hello", "serving"}
        BY <4>3, <2>1
      <4> QED  BY <4>4, <3>5, <3>6, <2>1 DEF Live
    <3>8. peers'[k][j] = e[1] /\ e[1] # NoLink
      BY <2>1, <2>3, <3>2, MeshAssumption DEF OnceInv, FloodInv, FrameInv, LinkInv, LinkTypes
    <3> QED  BY <3>4, <3>7, <3>8 DEF Firm
  <2>4. CASE ~(e[2] = k /\ Peer(e[1], k) = j)
    BY <2>1, <2>4, <1>1, <1>5 DEF OnceInv, FloodInv, FrameInv, LinkInv, LinkTypes
  <2> QED  BY <2>3, <2>4
<1>7. ASSUME NEW e \in Ends, TearDown(e) PROVE Firm(k, j)'
  <2>1. e[1] # l  BY <1>1, <1>7, LiveNotEnded
  <2>2. peers' = Unregister(peers, e[1], e[2])  BY <1>7 DEF TearDown, LinkEnds
  <2> QED  BY <2>1, <2>2, <1>1, <1>5
           DEF Unregister, OnceInv, FloodInv, FrameInv, LinkInv, LinkTypes
<1>8. CASE LinkStep
  BY <1>1, <1>5, <1>6, <1>7, <1>8 DEF LinkStep, Dial, Accept, HandshakeFails
<1>9. CASE MessageStep
  BY <1>1, <1>5, <1>9 DEF MessageStep, Relay, Receive, Deliver, FloodWrite, FloodDone, links
<1>10. CASE UNCHANGED vars  BY <1>1, <1>5, <1>10 DEF vars, links
<1> QED  BY <1>8, <1>9, <1>10 DEF Calm

\* A cache with room for all keeps what it has, and takes up what is read.
LEMMA SeenStays ==
    ASSUME RemembersAll, OnceInv, Calm
    PROVE  /\ \A n \in Nodes : ToSet(seen[n]) \subseteq ToSet(seen'[n])
           /\ \A e \in Ends : Receive(e) => Head(inbox[e]) \in ToSet(seen'[e[2]])
           /\ \A n \in Nodes : \A x \in ToSet(seen'[n]) :
                 \/ x \in ToSet(seen[n])
                 \/ x \in Messages /\ Relay(n, x)
                 \/ \E e \in EndsOf(n) : Receive(e) /\ x = Head(inbox[e])
<1> USE DEF OnceInv, FloodInv, FrameInv, TrafficTypes
<1>1. ASSUME NEW n \in Nodes, NEW m \in Messages,
             seen' = [seen EXCEPT ![n] = Remembered(@, m, CacheSize)]
      PROVE  \A k \in Nodes : ToSet(seen'[k]) = IF k = n THEN ToSet(seen[k]) \cup {m}
                                                         ELSE ToSet(seen[k])
  <2>1. PICK r : r = Remembered(seen[n], m, CacheSize)  OBVIOUS
  <2>2. ToSet(r) = ToSet(seen[n]) \cup {m}  BY <2>1, RememberedAll DEF RemembersAll
  <2>3. seen' = [seen EXCEPT ![n] = r]  BY <1>1, <2>1
  <2> QED  BY <2>2, <2>3
<1>2. ASSUME NEW n \in Nodes, NEW m \in Messages, Relay(n, m)
      PROVE  \A k \in Nodes : ToSet(seen'[k]) = IF k = n THEN ToSet(seen[k]) \cup {m}
                                                         ELSE ToSet(seen[k])
  BY <1>1, <1>2 DEF Relay, RecordOrigin
<1>3. ASSUME NEW e \in Ends, Receive(e)
      PROVE  \A k \in Nodes : ToSet(seen'[k]) = IF k = e[2] THEN ToSet(seen[k]) \cup {Head(inbox[e])}
                                                            ELSE ToSet(seen[k])
  <2>1. PICK m \in Messages : m = Head(inbox[e])  BY <1>3, ReceiveFrames
  <2>2. PICK n \in Nodes : n = e[2]  BY EndsOfLinks
  <2>3. seen' = [seen EXCEPT ![n] = Remembered(@, m, CacheSize)]
    BY <1>3, <2>1, <2>2 DEF Receive
  <2> QED  BY <1>1, <2>1, <2>2, <2>3
<1>4. \A e \in Ends : e[2] \in Nodes /\ e \in EndsOf(e[2])  BY EndsOfLinks DEF EndsOf
<1>5. ASSUME NEW n \in Nodes, NEW m \in Messages, Relay(n, m)
      PROVE  /\ \A k \in Nodes : ToSet(seen[k]) \subseteq ToSet(seen'[k])
             /\ \A k \in Nodes : \A x \in ToSet(seen'[k]) : x \in ToSet(seen[k]) \/ (x = m /\ k = n)
  BY <1>2, <1>5
<1>6. ASSUME NEW e \in Ends, Receive(e)
      PROVE  /\ \A k \in Nodes : ToSet(seen[k]) \subseteq ToSet(seen'[k])
             /\ \A k \in Nodes : \A x \in ToSet(seen'[k]) :
                   x \in ToSet(seen[k]) \/ (x = Head(inbox[e]) /\ e \in EndsOf(k))
  BY <1>3, <1>4, <1>6
<1>7. \/ UNCHANGED seen
      \/ \E n \in Nodes, m \in Messages : Relay(n, m)
      \/ \E e \in Ends : Receive(e)
  BY DEF Calm, LinkStep, MessageStep, Dial, Accept, Handshake, HandshakeFails, TearDown, LinkEnds,
         Deliver, FloodWrite, FloodDone, vars, traffic
<1>8. \A n \in Nodes : ToSet(seen[n]) \subseteq ToSet(seen'[n])
  BY <1>5, <1>6, <1>7
<1>9. \A e \in Ends : Receive(e) => Head(inbox[e]) \in ToSet(seen'[e[2]])
  BY <1>3, <1>4
<1>10. ASSUME NEW n \in Nodes, NEW x \in ToSet(seen'[n])
       PROVE  \/ x \in ToSet(seen[n])
              \/ x \in Messages /\ Relay(n, x)
              \/ \E e \in EndsOf(n) : Receive(e) /\ x = Head(inbox[e])
  BY <1>5, <1>6, <1>7
<1> QED  BY <1>8, <1>9, <1>10

\* Nothing on a live connection is lost.
LEMMA FrameStays ==
    ASSUME RemembersAll, OnceInv, Calm, NEW d \in Ends, Live(d[1]),
           NEW m \in Messages \cap ToSet(inbox[d])
    PROVE  m \in ToSet(inbox'[d]) \/ m \in ToSet(seen'[d[2]])
<1> USE DEF OnceInv, FloodInv, FrameInv, TrafficTypes
<1>1. PICK s \in Seq(Frames) : s = inbox[d] /\ m \in ToSet(s)  OBVIOUS
<1>2. s # <<>>  BY <1>1 DEF ToSet
<1>3. ToSet(s) = {Head(s)} \cup ToSet(Tail(s))  BY <1>2, HeadAndTail
<1>4. stage[d] \in {"hello", "serving"} /\ stage[Other(d)] \in {"hello", "serving"}
  BY EndsOfLive
<1>5. \A x \in Frames : ToSet(Append(s, x)) = ToSet(s) \cup {x}  BY SetOfAppend
<1>6. CASE LinkStep
  <2>1. ASSUME NEW l \in Links, Dial(l) PROVE inbox'[d] = inbox[d]
    <3>1. /\ stage[<<l, l[1]>>] = "idle" /\ stage[<<l, l[2]>>] = "idle"
          /\ inbox' = [inbox EXCEPT ![<<l, l[1]>>] = <<>>, ![<<l, l[2]>>] = <<Hello>>]
      BY <2>1 DEF Dial
    <3>2. d # <<l, l[1]>> /\ d # <<l, l[2]>>  BY <3>1, <1>4
    <3> QED  BY <3>1, <3>2
  <2>2. ASSUME NEW l \in Links, Accept(l) PROVE m \in ToSet(inbox'[d])
    <3>1. inbox'[d] = inbox[d] \/ inbox'[d] = Append(s, Hello)
      BY <2>2, <1>1 DEF Accept
    <3>2. Hello \in Frames  BY DEF Frames
    <3> QED  BY <3>1, <3>2, <1>1, <1>5
  <2>3. ASSUME NEW e \in Ends, Handshake(e) PROVE m \in ToSet(inbox'[d])
    <3>1. Head(inbox[e]) = Hello /\ inbox' = [inbox EXCEPT ![e] = Tail(@)]
      BY <2>3 DEF Handshake
    <3>2. CASE e = d
      <4>1. inbox'[d] = Tail(s) /\ Head(s) = Hello  BY <3>1, <3>2, <1>1
      <4>2. m # Hello  BY MeshAssumption
      <4> QED  BY <4>1, <4>2, <1>1, <1>3
    <3>3. CASE e # d  BY <3>1, <3>3, <1>1
    <3> QED  BY <3>2, <3>3
  <2>4. ASSUME NEW e \in Ends, HandshakeFails(e) \/ TearDown(e) PROVE inbox' = inbox
    BY <2>4 DEF HandshakeFails, TearDown, LinkEnds, traffic
  <2> QED  BY <1>6, <1>1, <2>1, <2>2, <2>3, <2>4 DEF LinkStep
<1>7. CASE MessageStep
  <2>1. ASSUME NEW e \in Ends, Receive(e)
        PROVE  m \in ToSet(inbox'[d]) \/ m \in ToSet(seen'[d[2]])
    <3>1. inbox' = [inbox EXCEPT ![e] = Tail(@)]  BY <2>1 DEF Receive
    <3>2. CASE e = d
      <4>1. inbox'[d] = Tail(s)  BY <3>1, <3>2, <1>1
      <4>2. Head(s) \in ToSet(seen'[d[2]])  BY <2>1, <3>2, <1>1, SeenStays
      <4> QED  BY <4>1, <4>2, <1>1, <1>3
    <3>3. CASE e # d  BY <3>1, <3>3, <1>1
    <3> QED  BY <3>2, <3>3
  <2>2. ASSUME NEW t \in Tasks, FloodWrite(t) PROVE m \in ToSet(inbox'[d])
    <3>1. task[t].msg \in Frames
      BY <2>2 DEF FloodWrite, FloodsServed, Frames
    <3>2. PICK f : f = <<Head(task[t].to), Peer(Head(task[t].to), NodeOf(t))>>  OBVIOUS
    <3>3. inbox' = inbox \/ inbox' = [inbox EXCEPT ![f] = Append(@, task[t].msg)]
      BY <2>2, <3>2 DEF FloodWrite
    <3>4. inbox'[d] = s \/ inbox'[d] = Append(s, task[t].msg)
      BY <3>3, <1>1
    <3> QED  BY <3>1, <3>4, <1>1, <1>5
  <2>3. ASSUME NEW n \in Nodes, NEW x \in Messages, Relay(n, x) PROVE inbox' = inbox
    BY <2>3 DEF Relay
  <2>4. ASSUME NEW e \in Ends, Deliver(e) PROVE inbox' = inbox
    BY <2>4 DEF Deliver
  <2>5. ASSUME NEW t \in Tasks, FloodDone(t) PROVE inbox' = inbox
    BY <2>5 DEF FloodDone
  <2> QED  BY <1>7, <1>1, <2>1, <2>2, <2>3, <2>4, <2>5 DEF MessageStep
<1>8. CASE UNCHANGED vars  BY <1>1, <1>8 DEF vars, traffic
<1> QED  BY <1>6, <1>7, <1>8 DEF Calm

\* Nothing that a flood is to write to a live connection is left out.
LEMMA FloodStays ==
    ASSUME RemembersAll, HoldsAll, OnceInv, AllUp, Calm, NEW t \in Tasks,
           NEW m \in Messages, origin[m] # NoNode, OnLiveLinks(m), task[t].msg = m,
           NEW l \in ToSet(task[t].to), Live(l)
    PROVE  /\ NodeOf(t)' = NodeOf(t)
           /\ \/ task'[t].msg = m /\ l \in ToSet(task'[t].to)
              \/ m \in ToSet(inbox'[<<l, Peer(l, NodeOf(t))>>])
<1> USE DEF OnceInv, FloodInv, FrameInv, TrafficTypes
<1>1. PICK c \in Calls : c = task[t]  OBVIOUS
<1>2. c.to # <<>> /\ c.to \in Seq(Links) /\ Distinct(c.to) /\ l \in ToSet(c.to) /\ c.msg = m
  BY <1>1 DEF ToSet, Calls, FloodsServed
<1>3. c.step = "flood"  BY <1>1, <1>2 DEF FloodsOnce
<1>4. t \in Messages => t = m
  <2>1. task[t] # NoTask  BY <1>1, <1>3 DEF NoTask
  <2> QED  BY <2>1 DEF FloodsOnce
<1>5. t \in Ends => Live(t[1])  BY DEF OnLiveLinks
<1>6. PICK n : n = NodeOf(t)  OBVIOUS
<1>7. <<l, n>> \in Ends  BY <1>6 DEF FloodsServed
<1> DEFINE Written == m \in ToSet(inbox'[<<l, Peer(l, n)>>])
           Waits == task'[t].msg = m /\ l \in ToSet(task'[t].to)
<1>8. UNCHANGED task => Waits  BY <1>1, <1>2
<1>9. ASSUME NEW e \in Ends, TearDown(e) PROVE Waits
  <2>1. e[1] # l /\ t # e  BY <1>5, <1>9, LiveNotEnded
  <2>2. task' = [x \in Tasks |->
                     IF x = e THEN NoTask
                     ELSE IF NodeOf(x) = e[2] THEN [task[x] EXCEPT !.to = Without(@, e[1])]
                     ELSE task[x]]
    BY <1>9 DEF TearDown, LinkEnds
  <2>3. task'[t] = IF n = e[2] THEN [c EXCEPT !.to = Without(@, e[1])] ELSE c
    BY <2>1, <2>2, <1>1, <1>6
  <2>4. CASE n = e[2]
    <3>1. PICK w : w = Without(c.to, e[1])  OBVIOUS
    <3>2. l \in ToSet(w)  BY <3>1, <2>1, <1>2, SetOfWithout
    <3>3. task'[t] = [c EXCEPT !.to = w]  BY <2>3, <2>4, <3>1
    <3> QED  BY <3>2, <3>3, <1>2 DEF Calls
  <2>5. CASE n # e[2]  BY <2>3, <2>5, <1>2
  <2> QED  BY <2>4, <2>5
<1>10. ASSUME NEW k \in Nodes, NEW x \in Messages, Relay(k, x) PROVE Waits /\ NodeOf(t)' = NodeOf(t)
  <2>1. origin[x] = NoNode /\ origin' = [origin EXCEPT ![x] = k]  BY <1>10 DEF Relay
  <2>2. t # x  BY <2>1, <1>4
  <2>3. PICK r : task' = [task EXCEPT ![x] = r]  BY <1>10 DEF Relay
  <2>4. task'[t] = c  BY <2>2, <2>3, <1>1
  <2>5. NodeOf(t)' = NodeOf(t)  BY <2>1, <2>2 DEF NodeOf
  <2> QED  BY <2>4, <2>5, <1>2
<1>11. ASSUME NEW e \in Ends, Receive(e) \/ Deliver(e) PROVE Waits
  <2>1. task[e].step # "flood"
    <3>1. task[e] = NoTask \/ task[e].step = "deliver"  BY <1>11 DEF Receive, Deliver
    <3> QED  BY <3>1 DEF NoTask
  <2>2. t # e  BY <2>1, <1>1, <1>3
  <2>3. UNCHANGED task \/ \E r : task' = [task EXCEPT ![e] = r]
    BY <1>11 DEF Receive, Deliver
  <2>4. task'[t] = c  BY <2>2, <2>3, <1>1
  <2> QED  BY <2>4, <1>2
<1>12. ASSUME NEW u \in Tasks, FloodDone(u) PROVE Waits
  <2>1. task[u].to = <<>> /\ task' = [task EXCEPT ![u] = NoTask]  BY <1>12 DEF FloodDone
  <2>2. task'[t] = c  BY <2>1, <1>1, <1>2
  <2> QED  BY <2>2, <1>2
<1>13. ASSUME NEW u \in Tasks, FloodWrite(u) PROVE Waits \/ Written
  <2>1. /\ task' = [task EXCEPT ![u].to = Tail(@)]
        /\ inbox' = IF wire[Head(task[u].to)] = "up"
                    THEN [inbox EXCEPT ![<<Head(task[u].to), Peer(Head(task[u].to), NodeOf(u))>>]
                                                   = Append(@, task[u].msg)]
                    ELSE inbox
    BY <1>13 DEF FloodWrite
  <2>2. CASE u # t
    <3>1. task'[t] = c  BY <2>1, <2>2, <1>1
    <3> QED  BY <3>1, <1>2
  <2>3. CASE u = t /\ l # Head(c.to)
    <3>1. PICK d : d = [c EXCEPT !.to = Tail(@)]  OBVIOUS
    <3>2. d.to = Tail(c.to) /\ d.msg = m  BY <3>1, <1>2 DEF Calls
    <3>3. task'[t] = d  BY <2>1, <2>3, <3>1, <1>1
    <3>4. l \in ToSet(Tail(c.to))  BY <2>3, <1>2, HeadAndTail
    <3> QED  BY <3>2, <3>3, <3>4
  <2>4. CASE u = t /\ l = Head(c.to)
    <3>1. wire[l] = "up"  BY DEF Live
    <3>2. PICK f \in Ends : f = <<l, Peer(l, n)>>  BY <1>7, EndsOfLinks DEF Other
    <3>3. inbox' = [inbox EXCEPT ![f] = Append(@, m)]
      BY <2>1, <2>4, <3>1, <3>2, <1>1, <1>2, <1>6
    <3>4. PICK s \in Seq(Frames) : s = inbox[f]  OBVIOUS
    <3>5. inbox'[f] = Append(s, m)  BY <3>3, <3>4
    <3>6. m \in Frames  BY DEF Frames
    <3>7. ToSet(Append(s, m)) = ToSet(s) \cup {m}  BY <3>6, SetOfAppend
    <3> QED  BY <3>2, <3>5, <3>7
  <2> QED  BY <2>2, <2>3, <2>4
<1>14. (\A k \in Nodes, x \in Messages : ~Relay(k, x)) => NodeOf(t)' = NodeOf(t)
  BY DEF Calm, LinkStep, MessageStep, Dial, Accept, Handshake, HandshakeFails, TearDown, LinkEnds,
         Receive, Deliver, FloodWrite, FloodDone, vars, traffic, NodeOf
<1> HIDE DEF Waits, Written
<1>15. LinkStep => Waits
  BY <1>8, <1>9 DEF LinkStep, Dial, Accept, Handshake, HandshakeFails, traffic
<1>16. MessageStep => Waits \/ Written
  BY <1>10, <1>11, <1>12, <1>13 DEF MessageStep
<1>17. UNCHANGED vars => Waits  BY <1>8 DEF vars, traffic
<1>18. NodeOf(t)' = NodeOf(t)  BY <1>10, <1>14
<1>19. Waits \/ Written  BY <1>15, <1>16, <1>17 DEF Calm
<1> QED  BY <1>6, <1>18, <1>19 DEF Waits, Written

\* In a life a node handles a message once: it relays or delivers it.
LEMMA HandledStays ==
    ASSUME OnceInv, Calm, NEW n \in Nodes, NEW m \in Messages
    PROVE  /\ handled[n][m] = 1 => handled'[n][m] = 1
           /\ handled'[n][m] = 1 => \/ handled[n][m] = 1
                                    \/ Relay(n, m)
                                    \/ \E e \in EndsOf(n) : Deliver(e) /\ task[e].msg = m
<1> USE DEF OnceInv, FloodInv, FrameInv, TrafficTypes
<1>1. ASSUME NEW k \in Nodes, NEW x \in Messages, Relay(k, x)
      PROVE  \/ handled'[n][m] = handled[n][m]
             \/ k = n /\ x = m /\ handled[n][m] = 0
  <2>1. origin[x] = NoNode /\ handled' = [handled EXCEPT ![k][x] = @ + 1]
    BY <1>1 DEF Relay
  <2> QED  BY <2>1 DEF Unsent
<1>2. ASSUME NEW e \in Ends, Deliver(e)
      PROVE  \/ handled'[n][m] = handled[n][m]
             \/ e[2] = n /\ task[e].msg = m /\ handled[n][m] = 0
  <2>1. PICK x, k : x = task[e].msg /\ k = e[2]  OBVIOUS
  <2>2. task[e].step = "deliver" /\ handled' = [handled EXCEPT ![k][x] = @ + 1]
    BY <1>2, <2>1 DEF Deliver
  <2>3. handled[k][x] = 0  BY <2>1, <2>2 DEF Pending
  <2> QED  BY <2>1, <2>2, <2>3
<1>3. \/ UNCHANGED handled
      \/ \E k \in Nodes, x \in Messages : Relay(k, x)
      \/ \E e \in Ends : Deliver(e)
  BY DEF Calm, LinkStep, MessageStep, Dial, Accept, Handshake, HandshakeFails, TearDown, LinkEnds,
         Receive, FloodWrite, FloodDone, vars, traffic
<1>4. handled[n][m] = 1 => handled'[n][m] = 1
  <2>1. ASSUME handled[n][m] = 1 PROVE handled'[n][m] = handled[n][m]
    BY <2>1, <1>1, <1>2, <1>3
  <2> QED  BY <2>1
<1>5. \A e \in Ends : e[2] = n => e \in EndsOf(n)  BY DEF EndsOf
<1> QED  BY <1>1, <1>2, <1>3, <1>4, <1>5

LEMMA OriginStays ==
    ASSUME OnceInv, Calm, NEW m \in Messages, origin[m] # NoNode
    PROVE  origin'[m] = origin[m]
<1>1. \/ UNCHANGED origin
      \/ \E k \in Nodes, x \in Messages : Relay(k, x)
  BY DEF Calm, LinkStep, MessageStep, Dial, Accept, Handshake, HandshakeFails, TearDown, LinkEnds,
         Receive, Deliver, FloodWrite, FloodDone, vars, traffic
<1>2. ASSUME NEW k \in Nodes, NEW x \in Messages, Relay(k, x) PROVE origin'[m] = origin[m]
  BY <1>2 DEF Relay, OnceInv, FloodInv, FrameInv, TrafficTypes
<1> QED  BY <1>1, <1>2

\* What a node knows of a message that was relayed reaches those it sends to.
LEMMA CoverStays ==
    ASSUME RemembersAll, HoldsAll, OnceInv, AllUp, Calm,
           NEW m \in Messages, origin[m] # NoNode, OnLiveLinks(m),
           NEW k \in Nodes, NEW j \in Nodes, Covered(m, k, j)
    PROVE  Covered(m, k, j)'
<1>1. CASE m \in ToSet(seen[j])
  <2>1. m \in ToSet(seen'[j])  BY <1>1, SeenStays
  <2> QED  BY <2>1 DEF Covered
<1>2. ASSUME NEW l \in Links, <<l, k>> \in Ends, Peer(l, k) = j, Live(l),
             \/ m \in ToSet(inbox[<<l, j>>])
             \/ \E t \in Tasks : NodeOf(t) = k /\ task[t].msg = m /\ l \in ToSet(task[t].to)
      PROVE  Covered(m, k, j)'
  <2>1. Live(l)'  BY <1>2, LiveStays
  <2>2. PICK d \in Ends : d = <<l, j>>
    <3>1. PICK e \in Ends : e = <<l, k>>  BY <1>2
    <3>2. Other(e) = <<l, j>> /\ Other(e) \in Ends  BY <3>1, <1>2, EndsOfLinks DEF Other
    <3> QED  BY <3>2
  <2>3. ASSUME m \in ToSet(inbox[d]) PROVE Covered(m, k, j)'
    <3>1. m \in ToSet(inbox'[d]) \/ m \in ToSet(seen'[j])  BY <2>2, <2>3, <1>2, FrameStays
    <3> QED  BY <3>1, <2>1, <2>2, <1>2 DEF Covered
  <2>4. ASSUME NEW t \in Tasks, NodeOf(t) = k, task[t].msg = m, l \in ToSet(task[t].to)
        PROVE  Covered(m, k, j)'
    <3>1. /\ NodeOf(t)' = k
          /\ \/ task'[t].msg = m /\ l \in ToSet(task'[t].to)
             \/ m \in ToSet(inbox'[<<l, Peer(l, k)>>])
      BY <1>2, <2>4, FloodStays
    <3> QED  BY <3>1, <2>1, <1>2 DEF Covered
  <2> QED  BY <2>2, <2>3, <2>4, <1>2
<1> QED  BY <1>1, <1>2 DEF Covered

\* Who delivers a message sends it to all but the one it came from.
LEMMA DeliverCovers ==
    ASSUME HoldsAll, OnceInv, AllUp, Calm,
           NEW e \in Ends, Deliver(e), NEW m \in Messages, task[e].msg = m, OnLiveLinks(m),
           NEW j \in Nodes, Firm(e[2], j)
    PROVE  Covered(m, e[2], j)'
<1> USE DEF OnceInv, FloodInv, FrameInv
<1>1. PICK k \in Nodes, l \in Links : k = e[2] /\ l = peers[k][j] /\ Live(l)
  BY EndsOfLinks DEF Firm, LinkInv, LinkTypes
<1>2. NodeOf(e) = k /\ NodeOf(e)' = k /\ e \in Tasks
  BY <1>1, MeshAssumption DEF NodeOf, Tasks
<1>3. CASE j = Peer(e[1], k)
  <2>1. handled[j][m] = 1  BY <1>1, <1>3, EndsOfLinks DEF OnLiveLinks
  <2>2. m \in ToSet(seen[j])  BY <2>1 DEF HandledSeen
  <2>3. UNCHANGED seen  BY DEF Deliver
  <2> QED  BY <2>2, <2>3 DEF Covered
<1>4. CASE j # Peer(e[1], k)
  <2>1. PICK to \in Targets(k, Peer(e[1], k)) :
          task' = [task EXCEPT ![e] = [@ EXCEPT !.step = "flood", !.to = to]]
    BY <1>1 DEF Deliver, Onward
  <2>2. l # NoLink  BY MeshAssumption
  <2>3. l \in ToSet(to)  BY <2>2, <1>1, <1>4, TargetsServe
  <2>4. PICK c : c = [task[e] EXCEPT !.step = "flood", !.to = to]  OBVIOUS
  <2>5. task[e] \in Calls  BY <1>2 DEF TrafficTypes
  <2>6. c.to = to /\ c.msg = m  BY <2>4, <2>5 DEF Calls
  <2>7. task'[e] = c  BY <2>1, <2>4, <1>2 DEF TrafficTypes
  <2>8. <<l, k>> \in Ends /\ Peer(l, k) = j /\ Live(l)'
    BY <2>2, <1>1, LiveStays DEF LinkInv, RegisteredServes
  <2> QED  BY <2>3, <2>6, <2>7, <2>8, <1>1, <1>2 DEF Covered
<1> QED  BY <1>3, <1>4

\* A message is written by who has handled it, to links that are live.
LEMMA LiveLinksStay ==
    ASSUME RemembersAll, HoldsAll, OnceInv, AllUp, Calm,
           NEW m \in Messages, origin[m] # NoNode, OnLiveLinks(m)
    PROVE  OnLiveLinks(m)'
<1> USE DEF OnceInv, FloodInv, FrameInv, TrafficTypes
<1>1. \A e \in Ends : Other(e) \in Ends /\ Other(e)[2] \in Nodes /\ e[1] \in Links
  BY EndsOfLinks
<1>2. \A e \in Ends : /\ handled[Other(e)[2]][m] = 1 => handled'[Other(e)[2]][m] = 1
                      /\ Live(e[1]) => Live(e[1])'
  BY <1>1, HandledStays, LiveStays
<1>3. ASSUME NEW e \in Ends, m \in ToSet(inbox'[e])
      PROVE  \/ m \in ToSet(inbox[e]) /\ (stage[e] = "idle" => stage'[e] = "idle")
             \/ handled[Other(e)[2]][m] = 1 /\ (stage'[e] # "idle" => Live(e[1]))
  <2>1. PICK s \in Seq(Frames) : s = inbox[e]  OBVIOUS
  <2>2. m # Hello /\ m \in Frames  BY MeshAssumption DEF Frames
  <2>3. s # <<>> => ToSet(Tail(s)) \subseteq ToSet(s)  BY SetOfTail
  <2>4. ASSUME NEW l \in Links, Dial(l) PROVE inbox'[e] = s /\ stage'[e] = stage[e]
    <3>1. PICK g \in Ends, h \in Ends : g = <<l, l[1]>> /\ h = <<l, l[2]>> /\ g # h  BY TwoEnds
    <3>2. /\ inbox' = [inbox EXCEPT ![g] = <<>>, ![h] = <<Hello>>]
          /\ stage' = [stage EXCEPT ![g] = "hello", ![h] = "accepting"]
      BY <2>4, <3>1 DEF Dial
    <3>3. ToSet(inbox'[g]) = {} /\ ToSet(inbox'[h]) = {Hello}
      <4>1. ToSet(<<>>) = {} /\ ToSet(<<Hello>>) = {Hello}  BY DEF ToSet
      <4>2. inbox'[g] = <<>> /\ inbox'[h] = <<Hello>>  BY <3>1, <3>2
      <4> QED  BY <4>1, <4>2
    <3>4. e # g  BY <3>3, <1>3
    <3>5. e # h  BY <3>3, <2>2, <1>3
    <3> QED  BY <3>2, <3>4, <3>5, <2>1 DEF LinkInv, LinkTypes
  <2>5. ASSUME NEW l \in Links, Accept(l)
        PROVE  m \in ToSet(s) /\ (stage[e] = "idle" => stage'[e] = "idle")
    <3>1. inbox'[e] = s \/ inbox'[e] = Append(s, Hello)  BY <2>1, <2>5 DEF Accept
    <3>2. ToSet(Append(s, Hello)) = ToSet(s) \cup {Hello}
      <4>1. Hello \in Frames  BY DEF Frames
      <4> QED  BY <4>1, SetOfAppend
    <3>3. stage[e] = "idle" => stage'[e] = "idle"  BY <2>5 DEF Accept, LinkInv, LinkTypes
    <3> QED  BY <3>1, <3>2, <3>3, <2>2, <1>3
  <2>6. ASSUME NEW f \in Ends, Handshake(f)
        PROVE  m \in ToSet(s) /\ (stage[e] = "idle" => stage'[e] = "idle")
    <3>1. inbox'[e] = s \/ (s # <<>> /\ inbox'[e] = Tail(s))  BY <2>1, <2>6 DEF Handshake
    <3>2. stage[e] = "idle" => stage'[e] = "idle"  BY <2>6 DEF Handshake, LinkInv, LinkTypes
    <3> QED  BY <3>1, <3>2, <2>3, <1>3
  <2>7. ASSUME NEW f \in Ends, HandshakeFails(f) \/ TearDown(f)
        PROVE  inbox'[e] = s /\ (stage[e] = "idle" => stage'[e] = "idle")
    BY <2>1, <2>7 DEF HandshakeFails, TearDown, LinkEnds, LinkInv, LinkTypes, traffic
  <2>8. LinkStep => m \in ToSet(s) /\ (stage[e] = "idle" => stage'[e] = "idle")
    BY <2>4, <2>5, <2>6, <2>7, <1>3 DEF LinkStep
  <2>9. MessageStep => UNCHANGED stage
    BY DEF MessageStep, Relay, Receive, Deliver, FloodWrite, FloodDone, links
  <2>10. ASSUME NEW f \in Ends, Receive(f) PROVE m \in ToSet(s)
    <3>1. inbox'[e] = s \/ (s # <<>> /\ inbox'[e] = Tail(s))  BY <2>1, <2>10 DEF Receive
    <3> QED  BY <3>1, <2>3, <1>3
  <2>11. ASSUME NEW t \in Tasks, FloodWrite(t), m \notin ToSet(s)
         PROVE  handled[Other(e)[2]][m] = 1 /\ (stage[e] # "idle" => Live(e[1]))
    <3>1. PICK l, k : l = Head(task[t].to) /\ k = NodeOf(t)  OBVIOUS
    <3>2. task[t].to # <<>> /\ task[t].to \in Seq(Links) /\ task[t].msg \in Frames
      BY <2>11 DEF FloodWrite, FloodsServed, Frames, Calls
    <3>3. l \in ToSet(task[t].to)  BY <3>1, <3>2, SetOfTail
    <3>4. PICK f \in Ends : f = <<l, k>> /\ stage[f] = "serving"
      BY <3>1, <3>3 DEF FloodsServed
    <3>5. PICK g \in Ends : g = <<l, Peer(l, k)>> /\ Other(g) = f /\ Other(f) = g
      <4>1. Other(f) = <<l, Peer(l, k)>> /\ Other(f) \in Ends  BY <3>4, EndsOfLinks DEF Other
      <4>2. Other(Other(f)) = f  BY <4>1, <3>4, EndsOfLinks DEF Other, Peer
      <4> QED  BY <4>1, <4>2
    <3>6. inbox' = IF wire[l] = "up" THEN [inbox EXCEPT ![g] = Append(@, task[t].msg)] ELSE inbox
      BY <2>11, <3>1, <3>5 DEF FloodWrite
    <3>7. e = g /\ wire[l] = "up" /\ inbox'[e] = Append(s, task[t].msg)
      <4>1. inbox'[e] # s  BY <2>11, <1>3
      <4> QED  BY <4>1, <3>6, <2>1
    <3>8. ToSet(Append(s, task[t].msg)) = ToSet(s) \cup {task[t].msg}
      BY <3>2, SetOfAppend
    <3>9. m = task[t].msg  BY <3>7, <3>8, <2>11, <1>3
    <3>10. task[t].step = "flood"  BY <3>2 DEF FloodsOnce
    <3>11. k \in Nodes /\ handled[k][m] # 0  BY <3>1, <3>9, <3>10 DEF FloodsOnce
    <3>12. handled[k][m] = 1  BY <3>11 DEF HandledSeen
    <3>13. stage[g] # "idle" => Live(f[1])  BY <3>4, <3>5, <3>7, LiveEnd
    <3>14. Other(e)[2] = k /\ e[1] = f[1]  BY <3>4, <3>5, <3>7
    <3> QED  BY <3>7, <3>12, <3>13, <3>14
  <2>12. ASSUME \/ \E n \in Nodes, x \in Messages : Relay(n, x)
                \/ \E f \in Ends : Deliver(f) \/ \E t \in Tasks : FloodDone(t)
         PROVE  m \in ToSet(s)
    BY <2>1, <2>12, <1>3 DEF Relay, Deliver, FloodDone
  <2>13. MessageStep => \/ m \in ToSet(s) /\ (stage[e] = "idle" => stage'[e] = "idle")
                        \/ handled[Other(e)[2]][m] = 1 /\ (stage'[e] # "idle" => Live(e[1]))
    BY <2>9, <2>10, <2>11, <2>12 DEF MessageStep
  <2>14. UNCHANGED vars => m \in ToSet(s) /\ stage'[e] = stage[e]
    BY <2>1, <1>3 DEF vars, links, traffic
  <2> QED  BY <2>1, <2>8, <2>13, <2>14 DEF Calm
<1>4. ASSUME NEW e \in Ends, task'[e].msg = m
      PROVE  \/ task[e].msg = m
             \/ stage[e] # "idle" /\ m \in ToSet(inbox[e])
  <2>1. PICK c \in Calls : c = task[e] /\ e \in Tasks  BY DEF Tasks
  <2>2. NoTask.msg # m  BY MeshAssumption DEF NoTask
  <2>3. ASSUME NEW f \in Ends, TearDown(f) PROVE task[e].msg = m
    <3>1. \/ task'[e] = NoTask \/ task'[e] = [c EXCEPT !.to = Without(@, f[1])]
          \/ task'[e] = c
      BY <2>1, <2>3 DEF TearDown, LinkEnds
    <3> QED  BY <3>1, <2>1, <2>2, <1>4 DEF Calls
  <2>4. ASSUME NEW n \in Nodes, NEW x \in Messages, Relay(n, x) PROVE task[e].msg = m
    <3>1. e # x  BY MeshAssumption
    <3> QED  BY <3>1, <2>4, <1>4 DEF Relay
  <2>5. ASSUME NEW f \in Ends, Receive(f)
        PROVE  task[e].msg = m \/ (stage[e] # "idle" /\ m \in ToSet(inbox[e]))
    <3>1. PICK r : r = [msg |-> Head(inbox[f]), step |-> "deliver", to |-> <<>>]  OBVIOUS
    <3>2. /\ stage[f] = "serving" /\ inbox[f] # <<>>
          /\ UNCHANGED task \/ task' = [task EXCEPT ![f] = r]
      BY <2>5, <3>1 DEF Receive
    <3>3. r.msg = Head(inbox[f]) /\ Head(inbox[f]) \in ToSet(inbox[f])
      BY <3>1, <3>2, SetOfTail
    <3>4. CASE task'[e] = task[e]  BY <3>4, <1>4
    <3>5. CASE f = e /\ task'[e] = r  BY <3>2, <3>3, <3>5, <1>4
    <3> QED  BY <3>2, <3>4, <3>5, <2>1
  <2>6. ASSUME NEW f \in Ends, Deliver(f) PROVE task[e].msg = m
    <3>1. PICK to : task' = [task EXCEPT ![f] = [@ EXCEPT !.step = "flood", !.to = to]]
      BY <2>6 DEF Deliver
    <3>2. task'[e] = c \/ task'[e] = [c EXCEPT !.step = "flood", !.to = to]
      BY <3>1, <2>1
    <3> QED  BY <3>2, <2>1, <1>4 DEF Calls
  <2>7. ASSUME NEW t \in Tasks, FloodWrite(t) PROVE task[e].msg = m
    <3>1. task'[e] = c \/ task'[e] = [c EXCEPT !.to = Tail(@)]
      BY <2>7, <2>1 DEF FloodWrite
    <3> QED  BY <3>1, <2>1, <1>4 DEF Calls
  <2>8. ASSUME NEW t \in Tasks, FloodDone(t) PROVE task[e].msg = m
    <3>1. task'[e] = c \/ task'[e] = NoTask  BY <2>8, <2>1 DEF FloodDone
    <3> QED  BY <3>1, <2>1, <2>2, <1>4
  <2>9. UNCHANGED task => task[e].msg = m  BY <1>4
  <2>10. LinkStep => task[e].msg = m
    BY <2>3, <2>9 DEF LinkStep, Dial, Accept, Handshake, HandshakeFails, traffic
  <2>11. UNCHANGED vars => task[e].msg = m  BY <2>9 DEF vars, traffic
  <2>12. MessageStep => task[e].msg = m \/ (stage[e] # "idle" /\ m \in ToSet(inbox[e]))
    BY <2>4, <2>5, <2>6, <2>7, <2>8 DEF MessageStep
  <2> QED  BY <2>10, <2>11, <2>12 DEF Calm
<1>5. ASSUME NEW e \in Ends
      PROVE  /\ m \in ToSet(inbox'[e]) \/ task'[e].msg = m => handled'[Other(e)[2]][m] = 1
             /\ (stage'[e] # "idle" /\ m \in ToSet(inbox'[e])) \/ task'[e].msg = m => Live(e[1])'
  <2>1. /\ m \in ToSet(inbox[e]) \/ task[e].msg = m => handled[Other(e)[2]][m] = 1
        /\ (stage[e] # "idle" /\ m \in ToSet(inbox[e])) \/ task[e].msg = m => Live(e[1])
    BY DEF OnLiveLinks
  <2> QED  BY <2>1, <1>2, <1>3, <1>4
<1> QED  BY <1>5 DEF OnLiveLinks

\* A delivery is not cancelled.
LEMMA PendingStays ==
    ASSUME HoldsAll, OnceInv, AllUp, Calm, NEW m \in Messages, OnLiveLinks(m),
           NEW e \in Ends, task[e].msg = m, task[e].step = "deliver"
    PROVE  \/ task'[e].msg = m /\ task'[e].step = "deliver"
           \/ handled'[e[2]][m] = 1
<1> USE DEF OnceInv, FloodInv, FrameInv, TrafficTypes
<1> DEFINE Still == task'[e].msg = m /\ task'[e].step = "deliver"
<1>1. PICK c \in Calls : c = task[e] /\ e \in Tasks /\ c.msg = m /\ c.step = "deliver"
  BY DEF Tasks
<1>2. task'[e] = c => Still  BY <1>1
<1>3. c.to = <<>> /\ c # NoTask  BY <1>1 DEF FloodsOnce, NoTask
<1>4. Live(e[1])  BY DEF OnLiveLinks
<1>5. ASSUME NEW f \in Ends, TearDown(f) PROVE Still
  <2>1. f # e  BY <1>4, <1>5, LiveNotEnded
  <2>2. task'[e] = c \/ task'[e] = [c EXCEPT !.to = Without(@, f[1])]
    BY <2>1, <1>1, <1>5 DEF TearDown, LinkEnds
  <2> QED  BY <2>2, <1>1 DEF Calls
<1>6. ASSUME NEW n \in Nodes, NEW x \in Messages, Relay(n, x) PROVE task'[e] = c
  <2>1. e # x  BY MeshAssumption
  <2> QED  BY <2>1, <1>1, <1>6 DEF Relay
<1>7. ASSUME NEW f \in Ends, Receive(f) PROVE task'[e] = c
  <2>1. task[f] = NoTask /\ (UNCHANGED task \/ \E r : task' = [task EXCEPT ![f] = r])
    BY <1>7 DEF Receive
  <2> QED  BY <2>1, <1>1, <1>3
<1>8. ASSUME NEW f \in Ends, Deliver(f) PROVE task'[e] = c \/ handled'[e[2]][m] = 1
  <2>1. CASE f = e
    <3>1. PICK n \in Nodes : n = e[2]  BY EndsOfLinks
    <3>2. handled' = [handled EXCEPT ![n][m] = @ + 1]  BY <2>1, <3>1, <1>1, <1>8 DEF Deliver
    <3>3. handled[n][m] = 0  BY <3>1, <1>1 DEF Pending
    <3> QED  BY <3>1, <3>2, <3>3
  <2>2. CASE f # e  BY <2>2, <1>1, <1>8 DEF Deliver
  <2> QED  BY <2>1, <2>2
<1>9. ASSUME NEW t \in Tasks, FloodWrite(t) PROVE task'[e] = c
  <2>1. task[t].to # <<>> /\ task' = [task EXCEPT ![t].to = Tail(@)]
    BY <1>9 DEF FloodWrite
  <2> QED  BY <2>1, <1>1, <1>3
<1>10. ASSUME NEW t \in Tasks, FloodDone(t) PROVE task'[e] = c
  <2>1. task[t].step = "flood" /\ task' = [task EXCEPT ![t] = NoTask]
    BY <1>10 DEF FloodDone
  <2> QED  BY <2>1, <1>1
<1> HIDE DEF Still
<1>11. UNCHANGED task => Still  BY <1>1, <1>2
<1>12. LinkStep => Still
  BY <1>5, <1>11 DEF LinkStep, Dial, Accept, Handshake, HandshakeFails, traffic
<1>13. MessageStep => Still \/ handled'[e[2]][m] = 1
  BY <1>2, <1>6, <1>7, <1>8, <1>9, <1>10 DEF MessageStep
<1>14. UNCHANGED vars => Still  BY <1>11 DEF vars, traffic
<1> QED  BY <1>12, <1>13, <1>14 DEF Calm, Still

\* Who takes up a message will deliver it.
LEMMA SeenHandledStays ==
    ASSUME RemembersAll, HoldsAll, OnceInv, AllUp, Calm,
           NEW m \in Messages, origin[m] # NoNode, OnLiveLinks(m), SeenHandled(m)
    PROVE  SeenHandled(m)'
<1> SUFFICES ASSUME NEW n \in Nodes, m \in ToSet(seen'[n])
             PROVE  \/ handled'[n][m] = 1
                    \/ \E e \in EndsOf(n) : task'[e].msg = m /\ task'[e].step = "deliver"
  BY DEF SeenHandled
<1>1. CASE m \in ToSet(seen[n])
  <2>1. CASE handled[n][m] = 1  BY <2>1, HandledStays
  <2>2. ASSUME NEW e \in EndsOf(n), task[e].msg = m, task[e].step = "deliver"
        PROVE  handled'[n][m] = 1 \/ (task'[e].msg = m /\ task'[e].step = "deliver")
    <3>1. e \in Ends /\ e[2] = n  BY DEF EndsOf
    <3> QED  BY <3>1, <2>2, PendingStays
  <2> QED  BY <2>1, <2>2, <1>1 DEF SeenHandled
<1>2. ~Relay(n, m)  BY DEF Relay
<1>3. ASSUME NEW e \in EndsOf(n), Receive(e), m = Head(inbox[e]), m \notin ToSet(seen[n])
      PROVE  task'[e].msg = m /\ task'[e].step = "deliver"
  <2>1. e \in Ends /\ e[2] = n /\ e \in Tasks  BY DEF EndsOf, Tasks
  <2>2. PICK r : r = [msg |-> m, step |-> "deliver", to |-> <<>>]  OBVIOUS
  <2>3. r.msg = m /\ r.step = "deliver"  BY <2>2
  <2>4. task' = [task EXCEPT ![e] = r]  BY <2>1, <2>2, <1>3 DEF Receive, SeenBefore
  <2> QED  BY <2>1, <2>3, <2>4 DEF OnceInv, FloodInv, FrameInv, TrafficTypes
<1> QED  BY <1>1, <1>2, <1>3, SeenStays

\* The links by which all were in reach stay, and carry on what their node knows.
LEMMA SpreadsStays ==
    ASSUME RemembersAll, HoldsAll, OnceInv, AllUp, Settled, Calm,
           NEW m \in Messages, origin[m] # NoNode, OnLiveLinks(m), Spreads(m)
    PROVE  Spreads(m)'
<1>1. PICK R \in SUBSET (Nodes \X Nodes) :
        /\ Spans(R, origin[m])
        /\ \A p \in R : Firm(p[1], p[2]) /\ (handled[p[1]][m] = 1 => Covered(m, p[1], p[2]))
  BY DEF Spreads
<1>2. Spans(R, origin'[m])  BY <1>1, OriginStays
<1>3. ASSUME NEW k \in Nodes, NEW j \in Nodes, <<k, j>> \in R
      PROVE  Firm(k, j)' /\ (handled'[k][m] = 1 => Covered(m, k, j)')
  <2>1. Firm(k, j) /\ (handled[k][m] = 1 => Covered(m, k, j))  BY <1>1, <1>3
  <2>2. Firm(k, j)'  BY <2>1, FirmStays
  <2>3. ASSUME handled[k][m] = 1 PROVE Covered(m, k, j)'  BY <2>1, <2>3, CoverStays
  <2>4. ASSUME NEW e \in EndsOf(k), Deliver(e), task[e].msg = m PROVE Covered(m, k, j)'
    <3>1. e \in Ends /\ e[2] = k  BY DEF EndsOf
    <3> QED  BY <3>1, <2>1, <2>4, DeliverCovers
  <2>5. ~Relay(k, m)  BY DEF Relay
  <2> QED  BY <2>2, <2>3, <2>4, <2>5, HandledStays
<1>4. ASSUME NEW p \in R
      PROVE  Firm(p[1], p[2])' /\ (handled'[p[1]][m] = 1 => Covered(m, p[1], p[2])')
  <2>1. PICK k \in Nodes, j \in Nodes : p = <<k, j>> /\ p[1] = k /\ p[2] = j  OBVIOUS
  <2> QED  BY <2>1, <1>3
<1> QED  BY <1>2, <1>4 DEF Spreads

\* Who is reached sends over a live link.
LEMMA ReachedFirm ==
    ASSUME OnceInv, NEW k \in Nodes, NEW j \in Nodes, Reaches(k, j)
    PROVE  Firm(k, j)
<1> USE DEF OnceInv, FloodInv, FrameInv
<1>1. PICK l : l = peers[k][j]  OBVIOUS
<1>2. l # NoLink /\ wire[l] = "up" /\ stage[<<l, j>>] # "idle"  BY <1>1 DEF Reaches
<1>3. PICK e \in Ends : e = <<l, k>> /\ Peer(l, k) = j /\ stage[e] = "serving"
  BY <1>1, <1>2 DEF LinkInv, RegisteredServes
<1>4. e[1] = l /\ Other(e) = <<l, j>>  BY <1>3 DEF Other
<1>5. Live(l)  BY <1>2, <1>3, <1>4, LiveEnd
<1> QED  BY <1>1, <1>2, <1>5 DEF Firm

\* A message relayed with every node in reach is on its way over live links.
LEMMA WholeBegins ==
    ASSUME RemembersAll, OnceInv, NEW n \in Nodes, NEW m \in Messages, Relay(n, m), InReach(n)
    PROVE  /\ AllUp /\ (origin'[m] = n /\ handled'[n][m] = 1)
           /\ OnLiveLinks(m)' /\ SeenHandled(m)' /\ Spreads(m)'
<1> USE DEF OnceInv, FloodInv, FrameInv, TrafficTypes
<1>1. /\ proc[n] = "up" /\ origin[m] = NoNode /\ origin' = [origin EXCEPT ![m] = n]
      /\ handled' = [handled EXCEPT ![n][m] = @ + 1]
      /\ UNCHANGED <<proc, wire, stage, peers, inbox>>
  BY DEF Relay, links
<1>2. PICK to \in Targets(n, n) :
        task' = [task EXCEPT ![m] = [msg |-> m, step |-> "flood", to |-> to]]
  BY DEF Relay
<1>3. PICK c : c = [msg |-> m, step |-> "flood", to |-> to]  OBVIOUS
<1>4. c.to = to /\ c.msg = m  BY <1>3
<1>5. \A t \in Tasks : task'[t] = IF t = m THEN c ELSE task[t]  BY <1>2, <1>3
<1>6. /\ \A k \in Nodes : handled[k][m] = 0 /\ m \notin ToSet(seen[k])
      /\ \A e \in Ends : m \notin ToSet(inbox[e])
      /\ \A t \in Tasks : task[t].msg # m
  BY <1>1 DEF Unsent
<1>7. \A k \in Nodes : handled'[k][m] = IF k = n THEN 1 ELSE 0  BY <1>1, <1>6
<1>8. origin'[m] = n  BY <1>1
<1>9. AllUp
  <2> SUFFICES ASSUME NEW k \in Nodes, k # n PROVE proc[k] = "up"  BY <1>1 DEF AllUp
  <2>1. Reaches(n, k) \/ \E j \in Nodes : Reaches(n, j) /\ Reaches(j, k)  BY DEF InReach
  <2> QED  BY <2>1 DEF Reaches
<1>10. OnLiveLinks(m)'
  <2>1. \A e \in Ends : m \notin ToSet(inbox'[e]) /\ task'[e].msg # m
    <3>1. \A e \in Ends : e \in Tasks /\ e # m  BY MeshAssumption DEF Tasks
    <3> QED  BY <3>1, <1>1, <1>5, <1>6
  <2> QED  BY <2>1 DEF OnLiveLinks
<1>11. SeenHandled(m)'
  <2>1. \A k \in Nodes : m \in ToSet(seen'[k]) => k = n
    <3>1. PICK r : r = Remembered(seen[n], m, CacheSize)  OBVIOUS
    <3>2. seen' = [seen EXCEPT ![n] = r]  BY <3>1 DEF Relay, RecordOrigin
    <3> QED  BY <3>2, <1>6
  <2>2. \A k \in Nodes : m \in ToSet(seen'[k]) => handled'[k][m] = 1  BY <2>1, <1>7
  <2> QED  BY <2>2 DEF SeenHandled
<1>12. Spreads(m)'
  <2>1. PICK R \in SUBSET (Nodes \X Nodes) :
          R = {p \in Nodes \X Nodes : Reaches(p[1], p[2])}
    OBVIOUS
  <2>2. \A k \in Nodes, j \in Nodes : <<k, j>> \in R <=> Reaches(k, j)  BY <2>1
  <2>3. Spans(R, n)  BY <2>2 DEF Spans, InReach
  <2>4. ASSUME NEW k \in Nodes, NEW j \in Nodes, <<k, j>> \in R
        PROVE  Firm(k, j)' /\ (handled'[k][m] = 1 => Covered(m, k, j)')
    <3>1. Firm(k, j)  BY <2>2, <2>4, ReachedFirm
    <3>2. Firm(k, j)'  BY <3>1, <1>1 DEF Firm, Live
    <3>3. ASSUME handled'[k][m] = 1 PROVE Covered(m, k, j)'
      <4>1. k = n  BY <3>3, <1>7
      <4>2. PICK l \in Links : l = peers[n][j] /\ Live(l) /\ Live(l)'
        <5>1. PICK l \in Links : l = peers[n][j]  BY <3>1, <4>1 DEF Firm, LinkInv, LinkTypes
        <5>2. Live(l)  BY <3>1, <4>1, <5>1 DEF Firm
        <5>3. Live(l)'  BY <5>2, <1>1 DEF Live
        <5> QED  BY <5>1, <5>2, <5>3
      <4>3. l # NoLink  BY MeshAssumption
      <4>4. <<l, n>> \in Ends /\ Peer(l, n) = j  BY <4>2, <4>3 DEF LinkInv, RegisteredServes
      <4>5. j # n
        <5>1. PICK e \in Ends : e = <<l, n>>  BY <4>4
        <5> QED  BY <5>1, <4>4, EndsOfLinks
      <4>6. l \in ToSet(to)  BY <4>2, <4>3, <4>5, TargetsServe
      <4>7. m \in Tasks /\ NodeOf(m)' = n /\ task'[m] = c
        BY <1>5, <1>8 DEF Tasks, NodeOf
      <4> QED  BY <4>1, <4>2, <4>4, <4>6, <4>7, <1>4 DEF Covered
    <3> QED  BY <3>2, <3>3
  <2>5. ASSUME NEW p \in R
        PROVE  Firm(p[1], p[2])' /\ (handled'[p[1]][m] = 1 => Covered(m, p[1], p[2])')
    <3>1. PICK k \in Nodes, j \in Nodes : p = <<k, j>> /\ p[1] = k /\ p[2] = j  OBVIOUS
    <3> QED  BY <3>1, <2>4
  <2>6. Spans(R, origin'[m])  BY <2>3, <1>8
  <2> QED  BY <2>5, <2>6 DEF Spreads
<1> QED  BY <1>7, <1>8, <1>9, <1>10, <1>11, <1>12

LEMMA WholeInit == Init => WholeInv
  BY OnceInit DEF Init, WholeInv

LEMMA WholeStepKeeps ==
    ASSUME RemembersAll, HoldsAll, WholeInv, [Next]_vars
    PROVE  WholeInv'
<1>1. OnceInv /\ OnceInv'  BY OnceStepKeeps DEF WholeInv
<1>2. ASSUME whole' = {} PROVE WholeInv'  BY <1>1, <1>2 DEF WholeInv
<1>3. CASE Calm
  <2>1. UNCHANGED proc
    BY <1>3 DEF Calm, LinkStep, MessageStep, Dial, Accept, Handshake, HandshakeFails, TearDown, LinkEnds,
                Relay, Receive, Deliver, FloodWrite, FloodDone, vars
  <2>2. ASSUME NEW m \in whole
        PROVE  /\ AllUp /\ Settled /\ origin'[m] \in Nodes /\ handled'[origin'[m]][m] = 1
               /\ OnLiveLinks(m)' /\ SeenHandled(m)' /\ Spreads(m)'
    <3>1. /\ m \in Messages /\ AllUp /\ Settled /\ origin[m] \in Nodes /\ handled[origin[m]][m] = 1
          /\ OnLiveLinks(m) /\ SeenHandled(m) /\ Spreads(m)
      BY DEF WholeInv
    <3>2. origin[m] # NoNode  BY <3>1, MeshAssumption
    <3>3. origin'[m] = origin[m]  BY <1>1, <1>3, <3>1, <3>2, OriginStays
    <3>4. handled'[origin[m]][m] = 1  BY <1>1, <1>3, <3>1, HandledStays
    <3>5. OnLiveLinks(m)'  BY <1>1, <1>3, <3>1, <3>2, LiveLinksStay
    <3>6. SeenHandled(m)'  BY <1>1, <1>3, <3>1, <3>2, SeenHandledStays
    <3>7. Spreads(m)'  BY <1>1, <1>3, <3>1, <3>2, SpreadsStays
    <3> QED  BY <3>1, <3>3, <3>4, <3>5, <3>6, <3>7
  <2>3. ASSUME NEW n \in Nodes, NEW m \in Messages, Relay(n, m), InReach(n), Settled
        PROVE  /\ AllUp /\ Settled /\ origin'[m] \in Nodes /\ handled'[origin'[m]][m] = 1
               /\ OnLiveLinks(m)' /\ SeenHandled(m)' /\ Spreads(m)'
    BY <1>1, <2>3, WholeBegins
  <2>4. \A m \in whole' :
          \/ m \in whole
          \/ \E n \in Nodes : m \in Messages /\ Relay(n, m) /\ InReach(n) /\ Settled
    BY <1>3 DEF Calm, LinkStep, MessageStep, Dial, Accept, Handshake, HandshakeFails, TearDown, LinkEnds,
                Relay, Receive, Deliver, FloodWrite, FloodDone, vars
  <2>5. whole' \subseteq Messages  BY <2>4 DEF WholeInv
  <2>6. AllUp => AllUp'  BY <2>1 DEF AllUp
  <2>7. AllUp /\ Settled => Settled'  BY <1>1, <1>3, SettledStays
  <2>8. ASSUME NEW m \in whole'
        PROVE  /\ AllUp' /\ Settled' /\ origin'[m] \in Nodes /\ handled'[origin'[m]][m] = 1
               /\ OnLiveLinks(m)' /\ SeenHandled(m)' /\ Spreads(m)'
    BY <2>2, <2>3, <2>4, <2>6, <2>7
  <2> QED  BY <1>1, <2>5, <2>8 DEF WholeInv
<1>4. CASE NodeStep
  <2>1. ASSUME NEW n \in Nodes, Stop(n) \/ Crash(n) \/ Hang(n) PROVE whole' = {}
    BY <2>1 DEF Stop, Crash, Hang, Fault
  <2>2. ASSUME NEW n \in Nodes, StopCloses(n) \/ Exit(n) \/ Start(n) \/ Resume(n)
        PROVE  whole' = {}
    <3>1. whole' = whole /\ proc[n] # "up"  BY <2>2 DEF StopCloses, Exit, Start, Resume
    <3> QED  BY <3>1 DEF WholeInv, AllUp
  <2>3. ASSUME NEW l \in Links, Lose(l) PROVE whole' = {}  BY <2>3 DEF Lose, Fault
  <2>4. ASSUME NEW e \in Ends, DeliverFails(e) PROVE whole' = {}  BY <2>4 DEF DeliverFails, Fault
  <2> QED  BY <1>2, <1>4, <2>1, <2>2, <2>3, <2>4 DEF NodeStep
<1> QED  BY <1>3, <1>4 DEF Next, Calm

\* What a node has sent on, and no copy of which is under way, has arrived.
LEMMA CoverArrives ==
    ASSUME OnceInv, NEW m \in Messages, ~InFlight(m), SeenHandled(m),
           NEW k \in Nodes, NEW j \in Nodes, Covered(m, k, j)
    PROVE  handled[j][m] = 1
<1>1. \A e \in Ends : m \notin ToSet(inbox[e])  BY DEF InFlight
<1>2. \A t \in Tasks : task[t].msg # m  BY DEF InFlight
<1>3. ASSUME NEW l \in Links, <<l, k>> \in Ends, Peer(l, k) = j PROVE <<l, j>> \in Ends
  <2>1. PICK e \in Ends : e = <<l, k>>  BY <1>3
  <2>2. Other(e) = <<l, j>> /\ Other(e) \in Ends  BY <2>1, <1>3, EndsOfLinks DEF Other
  <2> QED  BY <2>2
<1>4. m \in ToSet(seen[j])  BY <1>1, <1>2, <1>3 DEF Covered
<1> QED  BY <1>2, <1>4 DEF SeenHandled, EndsOf, Tasks

\* From the origin it is at most two links to every node.
LEMMA WholeInvArrives == WholeInv => WholeArrives
<1> SUFFICES ASSUME WholeInv, NEW m \in whole, ~InFlight(m), NEW n \in Nodes
             PROVE  handled[n][m] = 1
  BY DEF WholeArrives
<1>1. /\ OnceInv /\ m \in Messages /\ origin[m] \in Nodes /\ handled[origin[m]][m] = 1
      /\ SeenHandled(m) /\ Spreads(m)
  BY DEF WholeInv
<1>2. PICK R \in SUBSET (Nodes \X Nodes) :
        /\ Spans(R, origin[m])
        /\ \A p \in R : Firm(p[1], p[2]) /\ (handled[p[1]][m] = 1 => Covered(m, p[1], p[2]))
  BY <1>1 DEF Spreads
<1>3. ASSUME NEW k \in Nodes, NEW j \in Nodes, <<k, j>> \in R, handled[k][m] = 1
      PROVE  handled[j][m] = 1
  <2>1. Firm(k, j) /\ Covered(m, k, j)  BY <1>2, <1>3
  <2> QED  BY <2>1, <1>1, <1>3, CoverArrives
<1>4. CASE n = origin[m]  BY <1>1, <1>4
<1>5. CASE n # origin[m]
  <2>1. \/ <<origin[m], n>> \in R
        \/ \E k \in Nodes : <<origin[m], k>> \in R /\ <<k, n>> \in R
    BY <1>2, <1>5 DEF Spans
  <2> QED  BY <2>1, <1>1, <1>3
<1> QED  BY <1>4, <1>5

\* A message relayed while every node is in reach, directly or across another one,
\* over links in good order, has been delivered everywhere once no copy of it is
\* under way and no fault came in between (a client's socket that fails a write of
\* the local delivery is one): whatever links are dialed, answered or
\* replaced by a second one meanwhile, and whatever else is flooded.  Caches and
\* connections have room for every message there is.
THEOREM WholeFloodsArrive ==
    ASSUME RemembersAll, HoldsAll
    PROVE  Spec => []WholeArrives
<1>1. Init => WholeInv  BY WholeInit
<1>2. WholeInv /\ [Next]_vars => WholeInv'  BY WholeStepKeeps
<1>3. WholeInv => WholeArrives  BY WholeInvArrives
<1> QED  BY <1>1, <1>2, <1>3, PTL DEF Spec
=============================================================================
