--------------------------- MODULE BalancerProofs ---------------------------
(***************************************************************************)
(* The load balancer, for any number of nodes, registrations, clients,     *)
(* sessions and events.  The invariants build on each other: the pool, the *)
(* leases of the registrations, the types of the connections, the relays   *)
(* that are to be cut, the client table, and the sticky sessions.          *)
(***************************************************************************)
EXTENDS Balancer, TLAPS

Backends == [addr : Addrs \cup {NoAddr}, healthy : BOOLEAN, dynamic : BOOLEAN,
             manual : BOOLEAN, epoch : Nat]

\* The pool holds objects that were made, each for an address of its own.
PoolInv == obj \in [Objs -> Backends] /\ pool \subseteq Objs /\ OneBackendPerAddress

\* The constructor makes different objects for different addresses.
LEMMA StaticBackends ==
    /\ StaticObjs \in [Objs -> Backends] /\ Range(StaticObj) \subseteq Objs
    /\ \A o, p \in Range(StaticObj) : StaticObjs[o].addr = StaticObjs[p].addr => o = p
<1>1. StaticObj \in Injection(Static, Objs)
  BY ObjectsAssumption DEF StaticObj
<1>2. StaticObj \in [Static -> Objs]
  BY <1>1 DEF Injection
<1>3. \A o \in Range(StaticObj) : \E a \in Static : StaticObj[a] = o
  BY <1>2 DEF Range
<1> DEFINE address(o) == CHOOSE a \in Static : StaticObj[a] = o
<1>4. \A o \in Range(StaticObj) : address(o) \in Static /\ StaticObj[address(o)] = o
  BY <1>3
<1>5. Range(StaticObj) \subseteq Objs
  BY <1>2 DEF Range
<1>6. \A o \in Objs : StaticObjs[o] = IF o \in Range(StaticObj) THEN Fresh(address(o), FALSE) ELSE Unused
  BY DEF StaticObjs
<1>7. \A a \in Addrs : Fresh(a, FALSE) \in Backends /\ Fresh(a, FALSE).addr = a
  BY DEF Fresh, Backends
<1>8. Unused \in Backends
  BY DEF Unused, Backends
<1> HIDE DEF address
<1>9. \A o \in Range(StaticObj) : StaticObjs[o].addr = address(o)
  BY <1>4, <1>5, <1>6, <1>7, BalancerAssumption
<1>10. \A o \in Objs : StaticObjs[o] \in Backends
  BY <1>4, <1>6, <1>7, <1>8, BalancerAssumption
<1>11. StaticObjs \in [Objs -> Backends]
  BY <1>10 DEF StaticObjs
<1> QED  BY <1>4, <1>5, <1>9, <1>11

\* What makes no backend and changes no address keeps the invariant.
LEMMA AddressesKept ==
    ASSUME PoolInv, obj' \in [Objs -> Backends], pool' \subseteq pool,
           \A o \in Objs : obj'[o].addr = obj[o].addr
    PROVE  PoolInv'
  BY DEF PoolInv, OneBackendPerAddress, Addr

LEMMA HealthKeepsAddress ==
    ASSUME PoolInv, NEW o, NEW ok \in BOOLEAN, obj' = [obj EXCEPT ![o].healthy = ok]
    PROVE  obj' \in [Objs -> Backends] /\ \A p \in Objs : obj'[p].addr = obj[p].addr
  BY DEF PoolInv, Backends

LEMMA ManualKeepsAddress ==
    ASSUME PoolInv, NEW o, NEW down \in BOOLEAN, obj' = [obj EXCEPT ![o].manual = down]
    PROVE  obj' \in [Objs -> Backends] /\ \A p \in Objs : obj'[p].addr = obj[p].addr
  BY DEF PoolInv, Backends

LEMMA RenewedIsThatBackend ==
    ASSUME NEW b \in Backends, NEW e \in Nat
    PROVE  Renewed(b, e) \in Backends /\ Renewed(b, e).addr = b.addr
  BY DEF Renewed, Backends

\* A registration makes a backend only for an address that has none.
LEMMA AnnounceKeeps ==
    ASSUME PoolInv, NEW r \in Regs, NEW a \in Addrs, Announce(r, a)
    PROVE  PoolInv'
<1>1. ASSUME NEW o \in Known(a), pool' = pool,
             obj' = [obj EXCEPT ![o] = Renewed(obj[o], obj[o].epoch + 1)]
      PROVE  PoolInv'
  <2>1. o \in Objs /\ obj[o] \in Backends
    BY DEF Known, PoolInv
  <2>2. obj[o].epoch + 1 \in Nat
    BY <2>1 DEF Backends
  <2>3. /\ Renewed(obj[o], obj[o].epoch + 1) \in Backends
        /\ Renewed(obj[o], obj[o].epoch + 1).addr = obj[o].addr
    BY <2>1, <2>2, RenewedIsThatBackend
  <2>4. obj' \in [Objs -> Backends] /\ \A p \in Objs : obj'[p].addr = obj[p].addr
    BY <1>1, <2>1, <2>3 DEF PoolInv
  <2> QED  BY <1>1, <2>4, AddressesKept
<1>2. ASSUME Known(a) = {}, NEW o \in Free, obj' = [obj EXCEPT ![o] = Fresh(a, TRUE)],
             pool' = pool \cup {o}
      PROVE  PoolInv'
  <2>1. o \in Objs /\ o \notin pool
    BY DEF Free
  <2>2. Fresh(a, TRUE) \in Backends /\ Fresh(a, TRUE).addr = a
    BY DEF Fresh, Backends
  <2>3. obj' \in [Objs -> Backends] /\ obj'[o].addr = a
    BY <1>2, <2>1, <2>2 DEF PoolInv
  <2>4. \A p \in pool : obj'[p] = obj[p] /\ obj[p].addr # a
    BY <1>2, <2>1 DEF PoolInv, Known, Addr
  <2> QED  BY <1>2, <2>1, <2>3, <2>4 DEF PoolInv, OneBackendPerAddress, Addr
<1>3. CASE Known(a) = {} /\ Free # {}
  BY <1>1, <1>2, <1>3 DEF Announce
<1>4. CASE ~(Known(a) = {} /\ Free # {})
  BY <1>1, <1>4 DEF Announce
<1> QED  BY <1>3, <1>4

\* The others take backends out, change their health or touch neither.
LEMMA StepKeeps == PoolInv /\ [Next]_vars => PoolInv'
<1> SUFFICES ASSUME PoolInv, [Next]_vars  PROVE PoolInv'  OBVIOUS
<1>1. ASSUME UNCHANGED obj, pool' \subseteq pool  PROVE PoolInv'
  BY <1>1, AddressesKept DEF PoolInv
<1>2. ASSUME NEW o, NEW ok \in BOOLEAN, obj' = [obj EXCEPT ![o].healthy = ok], UNCHANGED pool
      PROVE  PoolInv'
  BY <1>2, HealthKeepsAddress, AddressesKept
<1>3. ASSUME NEW o, NEW down \in BOOLEAN, obj' = [obj EXCEPT ![o].manual = down], UNCHANGED pool
      PROVE  PoolInv'
  BY <1>3, ManualKeepsAddress, AddressesKept
<1>4. ASSUME NEW a \in Addrs,
             NodeStarts(a) \/ NodeDies(a) \/ RegistrationBreaks(a) \/ Spawn(a) \/ SpawnerRemove(a)
      PROVE  PoolInv'
  BY <1>1, <1>4 DEF NodeStarts, NodeDies, RegistrationBreaks, Spawn, SpawnerRemove,
     RemoveBackend, poolVars
<1>5. ASSUME NEW r \in Regs, Status(r) \/ Deregister(r)  PROVE PoolInv'
  BY <1>1, <1>2, <1>5 DEF Status, Deregister
<1>6. ASSUME NEW w \in sweeps, SweepStarts(w) \/ SweepDeletes(w)  PROVE PoolInv'
  BY <1>1, <1>6 DEF SweepStarts, SweepDeletes, poolVars
<1>7. ASSUME NEW o \in Objs, ProbeStarts(o) \/ ProbeEnds(o) \/ SetDown(o) \/ SetUp(o) \/ CancelRelays(o)
      PROVE  PoolInv'
  BY <1>1, <1>2, <1>3, <1>7 DEF ProbeStarts, ProbeEnds, SetDown, SetUp, CancelRelays, poolVars
<1>8. ASSUME ClearClients  PROVE PoolInv'
  BY <1>1, <1>8 DEF ClearClients, poolVars
<1>9. ASSUME Restart  PROVE PoolInv'
  BY <1>9, StaticBackends DEF Restart, PoolInv, OneBackendPerAddress, Addr
<1>10. ASSUME NEW k \in Clients, NEW s \in Sessions \cup {NoSession}, Arrive(k, s)  PROVE PoolInv'
  BY <1>1, <1>10 DEF Arrive, poolVars
<1>11. ASSUME NEW k \in Clients, \/ PickAnswered(k) \/ AfterError(k) \/ Ack(k)
                                 \/ SetSticky(k) \/ RelayEnds(k) \/ Close(k)
       PROVE  PoolInv'
  BY <1>1, <1>11 DEF PickAnswered, AfterError, Ack, SetSticky, RelayEnds, Close, poolVars
<1>12. ASSUME NEW k \in Clients, Open(k)  PROVE PoolInv'
  BY <1>1, <1>2, <1>12 DEF Open
<1>13. ASSUME UNCHANGED vars  PROVE PoolInv'
  BY <1>1, <1>13 DEF vars, poolVars
<1> QED  BY AnnounceKeeps, <1>4, <1>5, <1>6, <1>7, <1>8, <1>9, <1>10, <1>11, <1>12, <1>13 DEF Next

LEMMA InitPool == Init => PoolInv
  BY StaticBackends DEF Init, PoolInv, OneBackendPerAddress, Addr

\* There is never more than one backend for an address (_register_dynamic_backend
\* and _deregister_dynamic_backend), however registrations, probes, removals and
\* restarts of the balancer follow each other.
THEOREM AddressesAreUnique == Spec => []OneBackendPerAddress
<1>1. PoolInv => OneBackendPerAddress
  BY DEF PoolInv
<1> QED  BY <1>1, InitPool, StepKeeps, PTL DEF Spec

(***************************************************************************)
(* The registrations.                                                      *)
(***************************************************************************)
Leases == [open : BOOLEAN, obj : Objs \cup {NoObj}, epoch : Nat]

\* An epoch of a backend is the lease of one connection.  The lease that holds is
\* on an object of the pool, and an open registration holds the lease of its
\* node's backend.
LeasesDistinct ==
    /\ \A r \in Regs : reg[r].open => reg[r].obj \in Objs /\ reg[r].epoch <= obj[reg[r].obj].epoch
    /\ \A r, q \in Regs : reg[r].open /\ reg[q].open /\ reg[r].obj = reg[q].obj
          /\ reg[r].epoch = reg[q].epoch => r = q

HeldInPool ==
    \A r \in Regs : reg[r].open /\ LeaseHolds(r) /\ Addr(reg[r].obj) \notin removed
        => reg[r].obj \in pool

NodesHold ==
    \A a \in Addrs : nodeReg[a] # NoReg =>
        /\ reg[nodeReg[a]].open /\ LeaseHolds(nodeReg[a])
        /\ Addr(reg[nodeReg[a]].obj) = a

LeaseInv ==
    /\ PoolInv
    /\ reg \in [Regs -> Leases] /\ nodeReg \in [Addrs -> Regs \cup {NoReg}]
    /\ LeasesDistinct /\ HeldInPool /\ NodesHold

\* Health and manual control are no part of a lease.
LEMMA LeasesSame ==
    ASSUME LeaseInv, PoolInv', UNCHANGED <<reg, pool, removed>>,
           \A o \in Objs : obj'[o].addr = obj[o].addr /\ obj'[o].epoch = obj[o].epoch,
           nodeReg' \in [Addrs -> Regs \cup {NoReg}],
           \A a \in Addrs : nodeReg'[a] \in {nodeReg[a], NoReg}
    PROVE  LeaseInv'
<1>1. LeasesDistinct'
  BY DEF LeaseInv, LeasesDistinct
<1>2. HeldInPool'
  BY DEF LeaseInv, LeasesDistinct, HeldInPool, LeaseHolds, Addr
<1>3. NodesHold'
  BY DEF LeaseInv, LeasesDistinct, NodesHold, LeaseHolds, Addr
<1> QED  BY <1>1, <1>2, <1>3 DEF LeaseInv

LEMMA AnnounceLeases ==
    ASSUME LeaseInv, PoolInv', NEW r \in Regs, NEW a \in Addrs, Announce(r, a)
    PROVE  LeaseInv'
<1>1. PICK o \in Objs, e \in Nat \ {0} :
          /\ reg' = [reg EXCEPT ![r] = [open |-> TRUE, obj |-> o, epoch |-> e]]
          /\ obj'[o].addr = a /\ obj'[o].epoch = e
          /\ \A p \in Objs : p # o => obj'[p] = obj[p]
          /\ pool' = pool \cup {o}
          /\ \/ o \in pool /\ obj[o].addr = a /\ e = obj[o].epoch + 1 /\ obj[o].epoch \in Nat
             \/ \A q \in Regs : reg[q].obj # o
  <2>1. CASE Known(a) # {}
    <3>1. PICK o \in Known(a) :
            /\ obj' = [obj EXCEPT ![o] = Renewed(obj[o], obj[o].epoch + 1)]
            /\ reg' = [reg EXCEPT ![r] = [open |-> TRUE, obj |-> o, epoch |-> obj[o].epoch + 1]]
            /\ pool' = pool
      BY <2>1 DEF Announce
    <3>2. o \in pool /\ o \in Objs /\ obj[o] \in Backends /\ obj[o].addr = a
      BY DEF Known, LeaseInv, PoolInv, Addr
    <3>3. obj[o].epoch \in Nat /\ obj[o].epoch + 1 \in Nat \ {0}
      BY <3>2 DEF Backends
    <3>4. Renewed(obj[o], obj[o].epoch + 1).addr = a
          /\ Renewed(obj[o], obj[o].epoch + 1).epoch = obj[o].epoch + 1
      BY <3>2 DEF Renewed, Backends
    <3>5. /\ obj'[o].addr = a /\ obj'[o].epoch = obj[o].epoch + 1 /\ pool' = pool \cup {o}
          /\ \A p \in Objs : p # o => obj'[p] = obj[p]
      BY <3>1, <3>2, <3>4 DEF LeaseInv, PoolInv
    <3> QED  BY <3>1, <3>2, <3>3, <3>5
  <2>2. CASE Known(a) = {}
    <3>1. PICK o \in Free : /\ obj' = [obj EXCEPT ![o] = Fresh(a, TRUE)] /\ pool' = pool \cup {o}
                            /\ reg' = [reg EXCEPT ![r] = [open |-> TRUE, obj |-> o, epoch |-> 1]]
      BY <2>2 DEF Announce
    <3>2. o \in Objs /\ \A q \in Regs : reg[q].obj # o
      BY DEF Free
    <3>3. Fresh(a, TRUE).addr = a /\ Fresh(a, TRUE).epoch = 1
      BY DEF Fresh
    <3>4. obj'[o].addr = a /\ obj'[o].epoch = 1 /\ \A p \in Objs : p # o => obj'[p] = obj[p]
      BY <3>1, <3>2, <3>3 DEF LeaseInv, PoolInv
    <3>5. 1 \in Nat \ {0}
      OBVIOUS
    <3> QED  BY <3>1, <3>2, <3>4, <3>5
  <2> QED  BY <2>1, <2>2
<1>2. ~reg[r].open /\ nodeReg[a] = NoReg /\ nodeReg' = [nodeReg EXCEPT ![a] = r] /\ removed' = removed
  BY DEF Announce, bounds
<1>3. reg' \in [Regs -> Leases] /\ nodeReg' \in [Addrs -> Regs \cup {NoReg}]
  BY <1>1, <1>2 DEF LeaseInv, Leases
<1>4. /\ reg'[r].open /\ reg'[r].obj = o /\ reg'[r].epoch = e
      /\ \A q \in Regs : q # r => reg'[q] = reg[q]
  BY <1>1 DEF LeaseInv
\* Leases that others have on this backend are older.
<1>5. \A q \in Regs : reg[q].open /\ reg[q].obj = o => reg[q].epoch < e
  BY <1>1 DEF LeaseInv, LeasesDistinct, Leases
<1>6. \A q \in Regs : reg[q].epoch \in Nat
  BY DEF LeaseInv, Leases
<1>7. LeasesDistinct'
  <2>1. \A q \in Regs : reg'[q].open => reg'[q].obj \in Objs /\ reg'[q].epoch <= obj'[reg'[q].obj].epoch
    BY <1>1, <1>4, <1>5, <1>6 DEF LeaseInv, LeasesDistinct
  <2>2. \A p, q \in Regs : reg'[p].open /\ reg'[q].open /\ reg'[p].obj = reg'[q].obj
          /\ reg'[p].epoch = reg'[q].epoch => p = q
    BY <1>4, <1>5, <1>6 DEF LeaseInv, LeasesDistinct
  <2> QED  BY <2>1, <2>2 DEF LeasesDistinct
<1>8. HeldInPool'
  BY <1>1, <1>2, <1>4, <1>5, <1>6 DEF LeaseInv, LeasesDistinct, HeldInPool, LeaseHolds, Addr
<1>9. NodesHold'
  <2>1. ASSUME NEW b \in Addrs, b # a, nodeReg[b] # NoReg
        PROVE  /\ reg'[nodeReg[b]].open /\ obj'[reg'[nodeReg[b]].obj].addr = b
               /\ reg'[nodeReg[b]].epoch = obj'[reg'[nodeReg[b]].obj].epoch
    <3>1. nodeReg[b] \in Regs /\ nodeReg[b] # r
      BY <1>2, <2>1 DEF LeaseInv, NodesHold
    <3>2. reg[nodeReg[b]].obj \in Objs /\ reg[nodeReg[b]].obj # o
      BY <1>1, <2>1, <3>1 DEF LeaseInv, LeasesDistinct, NodesHold, Addr
    <3> QED  BY <1>1, <1>4, <2>1, <3>1, <3>2 DEF LeaseInv, NodesHold, LeaseHolds, Addr
  <2>2. nodeReg'[a] = r /\ \A b \in Addrs \ {a} : nodeReg'[b] = nodeReg[b]
    BY <1>2 DEF LeaseInv
  <2>3. /\ reg'[r].open /\ obj'[reg'[r].obj].addr = a
        /\ reg'[r].epoch = obj'[reg'[r].obj].epoch
    BY <1>1, <1>4
  <2> QED  BY <2>1, <2>2, <2>3 DEF NodesHold, LeaseHolds, Addr
<1> QED  BY <1>3, <1>7, <1>8, <1>9 DEF LeaseInv

LEMMA DeregisterLeases ==
    ASSUME LeaseInv, PoolInv', NEW r \in Regs, Deregister(r)
    PROVE  LeaseInv'
<1>1. /\ reg[r].open /\ \A a \in Addrs : nodeReg[a] # r
      /\ reg' = [reg EXCEPT ![r] = NoLease] /\ UNCHANGED <<nodeReg, obj, removed>>
  BY DEF Deregister, nodeVars, bounds
<1>2. NoLease \in Leases /\ ~NoLease.open
  BY DEF NoLease, Leases
<1>3. reg' \in [Regs -> Leases] /\ ~reg'[r].open /\ \A q \in Regs : q # r => reg'[q] = reg[q]
  BY <1>1, <1>2 DEF LeaseInv
<1>4. LeasesDistinct'
  BY <1>1, <1>3 DEF LeaseInv, LeasesDistinct
<1>5. HeldInPool'
  <2>1. CASE ~LeaseHolds(r)
    <3>1. pool' = pool
      BY <2>1 DEF Deregister
    <3> QED  BY <1>1, <1>3, <3>1 DEF LeaseInv, HeldInPool, LeaseHolds, Addr
  <2>2. CASE LeaseHolds(r)
    <3>1. \/ pool' = pool
          \/ \E p \in pool : obj[p] = obj[reg[r].obj] /\ pool' = pool \ {p}
      BY <2>2 DEF Deregister
    <3>2. ASSUME NEW p \in pool, obj[p] = obj[reg[r].obj], Addr(p) \notin removed
          PROVE  p = reg[r].obj
      BY <1>1, <2>2, <3>2 DEF LeaseInv, HeldInPool, PoolInv, OneBackendPerAddress, Addr
    <3>3. ASSUME NEW q \in Regs, q # r, reg[q].open, LeaseHolds(q), Addr(reg[q].obj) \notin removed
          PROVE  reg[q].obj \in pool'
      <4>1. reg[q].obj \in pool
        BY <3>3 DEF LeaseInv, HeldInPool
      <4>2. reg[q].obj # reg[r].obj
        BY <1>1, <2>2, <3>3 DEF LeaseInv, LeasesDistinct, LeaseHolds
      <4> QED  BY <3>1, <3>2, <3>3, <4>1, <4>2
    <3> QED  BY <1>1, <1>3, <3>3 DEF HeldInPool, LeaseHolds, Addr
  <2> QED  BY <2>1, <2>2
<1>6. NodesHold'
  BY <1>1, <1>3 DEF LeaseInv, NodesHold, LeaseHolds, Addr
<1> QED  BY <1>1, <1>3, <1>4, <1>5, <1>6 DEF LeaseInv

LEMMA RestartLeases ==
    ASSUME LeaseInv, PoolInv', Restart
    PROVE  LeaseInv'
<1>1. /\ reg' = [r \in Regs |-> NoLease] /\ nodeReg' = [a \in Addrs |-> NoReg]
      /\ NoLease \in Leases /\ ~NoLease.open
  BY DEF Restart, NoLease, Leases
<1> QED  BY <1>1 DEF LeaseInv, LeasesDistinct, HeldInPool, NodesHold

LEMMA SpawnerLeases ==
    ASSUME LeaseInv, PoolInv', NEW a \in Addrs, SpawnerRemove(a)
    PROVE  LeaseInv'
<1>1. /\ UNCHANGED <<reg, nodeReg, obj>> /\ removed' = removed \cup {a}
      /\ pool' = {o \in pool : Addr(o) # a}
  BY DEF SpawnerRemove, RemoveBackend
<1> QED  BY <1>1 DEF LeaseInv, LeasesDistinct, HeldInPool, NodesHold, LeaseHolds, Addr

LEMMA NextLeases == LeaseInv /\ [Next]_vars => LeaseInv'
<1> SUFFICES ASSUME LeaseInv, [Next]_vars  PROVE LeaseInv'  OBVIOUS
<1>0. PoolInv' /\ obj \in [Objs -> Backends] /\ nodeReg \in [Addrs -> Regs \cup {NoReg}]
  BY StepKeeps DEF LeaseInv, PoolInv
<1>1. ASSUME UNCHANGED <<reg, pool, removed, nodeReg>>,
             \/ UNCHANGED obj
             \/ \E o, v : obj' = [obj EXCEPT ![o].healthy = v] \/ obj' = [obj EXCEPT ![o].manual = v]
      PROVE  LeaseInv'
  <2>1. \A o \in Objs : obj'[o].addr = obj[o].addr /\ obj'[o].epoch = obj[o].epoch
    BY <1>0, <1>1 DEF Backends
  <2> QED  BY <1>0, <1>1, <2>1, LeasesSame
<1>2. ASSUME NEW a \in Addrs, NodeStarts(a) \/ NodeDies(a) \/ RegistrationBreaks(a) \/ Spawn(a)
      PROVE  LeaseInv'
  <2>1. nodeReg' = nodeReg \/ nodeReg' = [nodeReg EXCEPT ![a] = NoReg]
    BY <1>2 DEF NodeStarts, NodeDies, RegistrationBreaks, Spawn
  <2>2. UNCHANGED <<reg, pool, obj, removed>>
    BY <1>2 DEF NodeStarts, NodeDies, RegistrationBreaks, Spawn, poolVars, bounds
  <2> QED  BY <1>0, <2>1, <2>2, LeasesSame
<1>3. ASSUME NEW r \in Regs, Status(r)  PROVE LeaseInv'
  BY <1>1, <1>3 DEF Status, nodeVars, bounds
<1>4. ASSUME NEW w \in sweeps, SweepStarts(w) \/ SweepDeletes(w)  PROVE LeaseInv'
  BY <1>1, <1>4 DEF SweepStarts, SweepDeletes, nodeVars, poolVars, bounds
<1>5. ASSUME NEW o \in Objs, ProbeStarts(o) \/ ProbeEnds(o) \/ SetDown(o) \/ SetUp(o) \/ CancelRelays(o)
      PROVE  LeaseInv'
  BY <1>1, <1>5 DEF ProbeStarts, ProbeEnds, SetDown, SetUp, CancelRelays, nodeVars, poolVars, bounds
<1>6. CASE ClearClients \/ UNCHANGED vars
  BY <1>1, <1>6 DEF ClearClients, vars, nodeVars, poolVars, bounds
<1>7. ASSUME NEW k \in Clients, \/ \E s \in Sessions \cup {NoSession} : Arrive(k, s)
                                \/ PickAnswered(k) \/ Open(k) \/ AfterError(k)
                                \/ Ack(k) \/ SetSticky(k) \/ RelayEnds(k) \/ Close(k)
      PROVE  LeaseInv'
  BY <1>1, <1>7 DEF Arrive, PickAnswered, Open, AfterError, Ack, SetSticky, RelayEnds, Close,
     nodeVars, poolVars, bounds
<1> QED
  BY <1>0, <1>2, <1>3, <1>4, <1>5, <1>6, <1>7, AnnounceLeases, DeregisterLeases, RestartLeases,
     SpawnerLeases DEF Next

LEMMA InitLeases == Init => LeaseInv
<1> SUFFICES ASSUME Init  PROVE LeaseInv  OBVIOUS
<1>1. /\ reg = [r \in Regs |-> NoLease] /\ nodeReg = [a \in Addrs |-> NoReg]
      /\ NoLease \in Leases /\ ~NoLease.open
  BY DEF Init, NoLease, Leases
<1> QED  BY <1>1, InitPool DEF LeaseInv, LeasesDistinct, HeldInPool, NodesHold

\* A node whose registration is open at both ends is in the pool, unless an admin
\* has removed its address: neither the late end of an older connection nor an
\* equal backend takes it out (_deregister_dynamic_backend).
THEOREM FreshRegistrationsStay == Spec => []FreshRegistrationStays
<1>1. LeaseInv => FreshRegistrationStays
  BY DEF LeaseInv, HeldInPool, NodesHold, FreshRegistrationStays
<1> QED  BY <1>1, InitLeases, NextLeases, PTL DEF Spec

(***************************************************************************)
(* The client connections: types, and what a choice of a backend does.     *)
(***************************************************************************)
Stages == {"new", "redis", "open", "told", "ack", "set", "relay", "closing", "done"}

Conns == [stage : Stages, sid : Sessions \cup {NoSession},
          key : Sessions \cup Clients \cup {NoSession}, obj : Objs \cup {NoObj},
          tried : SUBSET Objs, val : Addrs \cup {NoAddr}, want : Addrs \cup {NoAddr}]

Entries == [conn : Clients, active : BOOLEAN]

Sweeps == [obj : Objs, step : {"start", "delete"}, keys : SUBSET Sessions, cut : BOOLEAN]

\* What a connection has got by the stage it is in.
Served(c) ==
    /\ c.stage \in {"open", "ack", "set", "relay"} => c.obj # NoObj
    /\ c.stage \in {"redis", "set"} => c.sid # NoSession
    /\ c.stage \notin {"new", "done"} => c.key # NoSession
    /\ c.stage \in {"new", "done"} => c = [NoConn EXCEPT !.stage = c.stage]

\* What is remembered about sessions and queued for cancellation has its type.
StickyTypes ==
    /\ cache \in [Sessions -> Objs \cup {NoObj}]
    /\ redis \in [Sessions -> Addrs \cup {NoAddr}]
    /\ home \in [Sessions -> Addrs \cup {NoAddr}]
    /\ sweeps \subseteq Sweeps /\ cancels \subseteq Objs

ClientTypes ==
    /\ StickyTypes
    /\ client \in [Clients -> Conns]
    /\ relays \in [Objs -> SUBSET Clients]
    /\ table \in [Sessions \cup Clients -> Entries \cup {NoEntry}]

ClientInv == PoolInv /\ ClientTypes /\ \A k \in Clients : Served(client[k])

\* Connection k is c with a backend, with the news that there is none, or while
\* Redis is asked.
Chosen(k, c, d) ==
    /\ d \in Conns /\ client' = [client EXCEPT ![k] = d]
    /\ d.sid = c.sid /\ d.key = c.key /\ d.tried = c.tried /\ d.want = c.want
    /\ \/ /\ d.stage = "open" /\ d.obj \in Objs
          /\ table' = IF c.tried = {} THEN Remember(table, c.key, k) ELSE table
       \/ d.stage = "told" /\ table' = table
       \/ d.stage = "redis" /\ d.sid # NoSession /\ d.val = redis[d.sid] /\ table' = table

LEMMA ChooseShape ==
    ASSUME NEW k \in Clients, NEW c \in Conns, NEW o \in Objs, Choose(k, c, o)
    PROVE  \E d : Chosen(k, c, d) /\ d.stage = "open" /\ d.obj = o
<1> DEFINE d == [c EXCEPT !.stage = "open", !.obj = o, !.val = NoAddr]
<1>1. /\ d \in Conns /\ d.stage = "open" /\ d.obj = o
      /\ d.sid = c.sid /\ d.key = c.key /\ d.tried = c.tried /\ d.want = c.want
  BY DEF Conns, Stages
<1>2. /\ client' = [client EXCEPT ![k] = d]
      /\ table' = IF c.tried = {} THEN Remember(table, c.key, k) ELSE table
  BY DEF Choose
<1> HIDE DEF d
<1> QED  BY <1>1, <1>2 DEF Chosen

LEMMA RoundRobinShape ==
    ASSUME ClientInv, NEW k \in Clients, NEW c \in Conns, NEW b, RoundRobin(k, c, b)
    PROVE  \E d : Chosen(k, c, d) /\ d.stage \in {"open", "told"}
<1> DEFINE d == [c EXCEPT !.stage = "told", !.obj = NoObj]
           able == {o \in pool : b[o].healthy /\ ~b[o].manual /\ ~IsIn(o, c.tried)}
<1>1. /\ d \in Conns /\ d.stage = "told"
      /\ d.sid = c.sid /\ d.key = c.key /\ d.tried = c.tried /\ d.want = c.want
  BY DEF Conns, Stages
<1>2. CASE able # {}
  <2>1. PICK o \in able : Choose(k, c, o)
    BY <1>2 DEF RoundRobin
  <2>2. o \in Objs
    BY DEF ClientInv, PoolInv
  <2> QED  BY <2>1, <2>2, ChooseShape
<1>3. CASE able = {}
  <2>1. client' = [client EXCEPT ![k] = d] /\ table' = table
    BY <1>3 DEF RoundRobin
  <2> HIDE DEF d
  <2> QED  BY <1>1, <2>1 DEF Chosen
<1> QED  BY <1>2, <1>3

LEMMA PickShape ==
    ASSUME ClientInv, NEW k \in Clients, NEW c \in Conns, NEW b, Pick(k, c, b)
    PROVE  \E d : Chosen(k, c, d)
<1> DEFINE o == IF c.sid = NoSession THEN NoObj ELSE cache[c.sid]
           d == [c EXCEPT !.stage = "redis", !.val = redis[c.sid]]
<1>1. CASE RoundRobin(k, c, b)
  BY <1>1, RoundRobinShape
<1>2. CASE o # NoObj /\ Choose(k, c, o)
  <2>1. o \in Objs
    BY <1>2 DEF ClientInv, ClientTypes, StickyTypes, Conns
  <2> QED  BY <1>2, <2>1, ChooseShape
<1>3. CASE c.sid # NoSession /\ client' = [client EXCEPT ![k] = d] /\ table' = table
  <2>1. redis[c.sid] \in Addrs \cup {NoAddr}
    BY <1>3 DEF ClientInv, ClientTypes, StickyTypes, Conns
  <2>2. /\ d \in Conns /\ d.stage = "redis" /\ d.val = redis[c.sid]
        /\ d.sid = c.sid /\ d.key = c.key /\ d.tried = c.tried /\ d.want = c.want
    BY <2>1 DEF Conns, Stages
  <2>3. d.sid # NoSession /\ d.val = redis[d.sid]
    BY <1>3, <2>2
  <2> HIDE DEF d
  <2> QED  BY <1>3, <2>2, <2>3 DEF Chosen
<1> QED  BY <1>1, <1>2, <1>3 DEF Pick

\* The values a connection gets from the steps below.
LEMMA StageUpdate ==
    ASSUME NEW c \in Conns, NEW st \in Stages, NEW d, d = [c EXCEPT !.stage = st]
    PROVE  /\ d \in Conns /\ d.stage = st /\ d.obj = c.obj /\ d.key = c.key
           /\ d.sid = c.sid /\ d.tried = c.tried /\ d.want = c.want
  BY DEF Conns

LEMMA AckUpdate ==
    ASSUME NEW c \in Conns, NEW d, d = [c EXCEPT !.stage = "ack", !.tried = {}]
    PROVE  /\ d \in Conns /\ d.stage = "ack" /\ d.obj = c.obj /\ d.key = c.key /\ d.sid = c.sid
  BY DEF Conns, Stages

LEMMA AnonymousUpdate ==
    ASSUME NEW c \in Conns, NEW d,
           d = [c EXCEPT !.tried = {}, !.sid = NoSession, !.want = NoAddr]
    PROVE  d \in Conns /\ d.key = c.key /\ d.tried = {} /\ d.want = NoAddr
  BY DEF Conns

LEMMA NoConnType == NoConn \in Conns /\ NoConn.stage = "new" /\ NoConn.key = NoSession
                    /\ NoConn.tried = {} /\ NoConn.want = NoAddr
<1>1. {} \in SUBSET Objs
  OBVIOUS
<1> QED  BY <1>1 DEF NoConn, Conns, Stages

WithSession(c, s) == [c EXCEPT !.stage = "set", !.key = s, !.sid = s]
WithFailed(c, o)  == [c EXCEPT !.tried = @ \cup {o}, !.want = NoAddr]
Arrived(s, key, a) == [NoConn EXCEPT !.sid = s, !.key = key, !.want = a]

LEMMA SessionUpdate ==
    ASSUME NEW c \in Conns, NEW s \in Sessions
    PROVE  LET d == WithSession(c, s) IN
           d \in Conns /\ d.stage = "set" /\ d.obj = c.obj /\ d.key = s /\ d.sid = s
  BY DEF Conns, Stages, WithSession

LEMMA TriedUpdate ==
    ASSUME NEW c \in Conns, NEW o \in Objs
    PROVE  LET d == WithFailed(c, o) IN
           /\ d \in Conns /\ d.key = c.key /\ d.sid = c.sid
           /\ d.tried = c.tried \cup {o} /\ d.want = NoAddr
<1>1. c.tried \cup {o} \in SUBSET Objs /\ NoAddr \in Addrs \cup {NoAddr}
  BY DEF Conns
<1>2. WithFailed(c, o) = [c EXCEPT !.tried = c.tried \cup {o}, !.want = NoAddr]
  BY DEF WithFailed
<1> QED  BY <1>1, <1>2 DEF Conns

LEMMA ArrivalUpdate ==
    ASSUME NEW s \in Sessions \cup {NoSession}, NEW key \in Sessions \cup Clients,
           NEW a \in Addrs \cup {NoAddr}
    PROVE  /\ Arrived(s, key, a) \in Conns /\ Arrived(s, key, a).sid = s
           /\ Arrived(s, key, a).key = key /\ Arrived(s, key, a).want = a
           /\ Arrived(s, key, a).tried = {}
  BY NoConnType DEF Conns, Arrived

LEMMA GoneShape ==
    ASSUME NEW k \in Clients
    PROVE  /\ Gone(k) \in Conns /\ Served(Gone(k)) /\ Gone(k).stage \in {"new", "done"}
           /\ client[k].stage # "new" => Gone(k).stage = "done"
<1>1. PICK st \in {"new", "done"} : /\ Gone(k) = [NoConn EXCEPT !.stage = st]
                                    /\ client[k].stage # "new" => st = "done"
  BY DEF Gone
<1>2. st \in Stages
  BY DEF Stages
<1>3. Gone(k) \in Conns /\ Gone(k).stage = st
  BY <1>1, <1>2, NoConnType, StageUpdate
<1> QED  BY <1>1, <1>3 DEF Served

\* The client table and the addresses of backends keep their types.
LEMMA TableTypes ==
    ASSUME ClientInv, NEW t \in [Sessions \cup Clients -> Entries \cup {NoEntry}],
           NEW k \in Clients, NEW key \in Sessions \cup Clients
    PROVE  /\ Remember(t, key, k) \in [Sessions \cup Clients -> Entries \cup {NoEntry}]
           /\ Drop(t, key, k) \in [Sessions \cup Clients -> Entries \cup {NoEntry}]
           /\ \A s \in Sessions : Migrate(t, key, s) \in [Sessions \cup Clients -> Entries \cup {NoEntry}]
<1>1. Entry(k, TRUE) \in Entries
  BY DEF Entry, Entries
<1>2. t[key] # NoEntry => [t[key] EXCEPT !.active = FALSE] \in Entries
  BY DEF Entries
<1>3. Drop(t, key, k) \in {t, [t EXCEPT ![key] = [t[key] EXCEPT !.active = FALSE]]}
      /\ (Drop(t, key, k) # t => t[key] # NoEntry)
  BY DEF Drop
<1>4. \A s \in Sessions : Migrate(t, key, s) \in [Sessions \cup Clients -> Entries \cup {NoEntry}]
  BY DEF Migrate
<1> QED  BY <1>1, <1>2, <1>3, <1>4 DEF Remember

LEMMA ChosenTypes ==
    ASSUME ClientInv, NEW k \in Clients, NEW c \in Conns, c.key # NoSession, NEW d, Chosen(k, c, d)
    PROVE  /\ client' \in [Clients -> Conns]
           /\ \A j \in Clients : Served(client'[j])
           /\ table' \in [Sessions \cup Clients -> Entries \cup {NoEntry}]
<1>1. client \in [Clients -> Conns] /\ \A j \in Clients : Served(client[j])
  BY DEF ClientInv, ClientTypes, StickyTypes
<1>2. /\ d \in Conns /\ client' = [client EXCEPT ![k] = d] /\ d.stage \in {"open", "told", "redis"}
      /\ d.key # NoSession
      /\ d.stage = "open" => d.obj # NoObj
      /\ d.stage = "redis" => d.sid # NoSession
  BY BalancerAssumption DEF Chosen
<1>3. Served(d)
  BY <1>2 DEF Served
<1>4. table' \in {table, Remember(table, c.key, k)} /\ c.key \in Sessions \cup Clients
  BY DEF Chosen, Conns
<1>5. client' \in [Clients -> Conns] /\ \A j \in Clients : Served(client'[j])
  BY <1>1, <1>2, <1>3
<1>6. table' \in [Sessions \cup Clients -> Entries \cup {NoEntry}]
  <2>1. table \in [Sessions \cup Clients -> Entries \cup {NoEntry}]
    BY DEF ClientInv, ClientTypes, StickyTypes
  <2> QED  BY <1>4, <2>1, TableTypes
<1> QED  BY <1>5, <1>6

\* Where _active_relays keeps the relays of a backend.
LEMMA KeyType ==
    ASSUME NEW o \in Objs
    PROVE  KeyOf(o) \in Objs /\ (relays[o] # {} => KeyOf(o) = o)
<1>1. Keys(o) \subseteq Objs /\ (relays[o] # {} => Keys(o) = {o})
  BY DEF Keys
<1> QED  BY <1>1 DEF KeyOf

LEMMA UnstickType ==
    ASSUME ClientInv, NEW addrs, Unstick(addrs)
    PROVE  home' \in [Sessions -> Addrs \cup {NoAddr}]
  BY DEF Unstick, ClientInv, ClientTypes, StickyTypes

LEMMA ForgetType ==
    ASSUME ClientInv, NEW o, Forget(o)
    PROVE  cache' \in [Sessions -> Objs \cup {NoObj}]
  BY DEF Forget, ClientInv, ClientTypes, StickyTypes

LEMMA SweepType ==
    ASSUME NEW o \in Objs, NEW cut \in BOOLEAN
    PROVE  Sweep(o, cut) \in Sweeps
  BY DEF Sweep, Sweeps

\* The steps of nodes, registrations, probes and admins leave the connections
\* alone, but for CancelRelays and Restart.
PoolStep ==
    \/ \E a \in Addrs : \/ NodeStarts(a) \/ NodeDies(a) \/ RegistrationBreaks(a)
                        \/ Spawn(a) \/ SpawnerRemove(a) \/ \E r \in Regs : Announce(r, a)
    \/ \E r \in Regs : Status(r) \/ Deregister(r)
    \/ \E w \in sweeps : SweepStarts(w) \/ SweepDeletes(w)
    \/ \E o \in Objs : ProbeStarts(o) \/ ProbeEnds(o) \/ SetDown(o) \/ SetUp(o)
    \/ UNCHANGED vars

LEMMA PoolStepTypes ==
    ASSUME LeaseInv, ClientInv, PoolStep
    PROVE  StickyTypes' /\ UNCHANGED <<client, relays, table>>
<1> /\ StickyTypes /\ PoolInv
  BY DEF ClientInv, ClientTypes, StickyTypes
<1>1. ASSUME NEW a \in Addrs, \/ NodeStarts(a) \/ NodeDies(a) \/ RegistrationBreaks(a) \/ Spawn(a)
                              \/ \E r \in Regs : Announce(r, a)
      PROVE  StickyTypes' /\ UNCHANGED <<client, relays, table>>
  BY <1>1 DEF NodeStarts, NodeDies, RegistrationBreaks, Spawn, Announce, stickyVars, clientVars,
     StickyTypes
<1>2. ASSUME NEW a \in Addrs, SpawnerRemove(a)
      PROVE  StickyTypes' /\ UNCHANGED <<client, relays, table>>
  <2>1. cache' \in [Sessions -> Objs \cup {NoObj}]
    BY <1>2 DEF SpawnerRemove, RemoveBackend, StickyTypes
  <2> QED  BY <1>2, <2>1, UnstickType DEF SpawnerRemove, clientVars, StickyTypes
<1>3. ASSUME NEW r \in Regs, Status(r) \/ Deregister(r)
      PROVE  StickyTypes' /\ UNCHANGED <<client, relays, table>>
  <2>1. CASE Deregister(r)
    <3>1. reg[r].obj \in Objs
      BY <2>1 DEF Deregister, LeaseInv, LeasesDistinct
    <3> QED  BY <2>1, <3>1, UnstickType, ForgetType, SweepType DEF Deregister, StickyTypes
  <2> QED  BY <1>3, <2>1 DEF Status, stickyVars, clientVars, StickyTypes
<1>4. ASSUME NEW w \in sweeps, SweepStarts(w) \/ SweepDeletes(w)
      PROVE  StickyTypes' /\ UNCHANGED <<client, relays, table>>
  <2>1. w \in Sweeps
    BY DEF StickyTypes
  <2>2. CASE SweepStarts(w)
    <3>1. [w EXCEPT !.step = "delete", !.keys = {s \in Sessions : redis[s] = Addr(w.obj)}] \in Sweeps
      BY <2>1 DEF Sweeps
    <3>2. cache' \in [Sessions -> Objs \cup {NoObj}]
      BY <2>2, ForgetType DEF SweepStarts, StickyTypes
    <3> QED  BY <2>2, <3>1, <3>2 DEF SweepStarts, StickyTypes, clientVars
  <2>3. CASE SweepDeletes(w)
    <3>1. redis' \in [Sessions -> Addrs \cup {NoAddr}]
      BY <2>3 DEF SweepDeletes, StickyTypes
    <3>2. cancels' \subseteq Objs
      BY <2>1, <2>3 DEF SweepDeletes, StickyTypes, Sweeps
    <3> QED  BY <2>3, <3>1, <3>2 DEF SweepDeletes, StickyTypes
  <2> QED  BY <1>4, <2>2, <2>3
<1>5. ASSUME NEW o \in Objs, ProbeStarts(o) \/ SetUp(o)
      PROVE  StickyTypes' /\ UNCHANGED <<client, relays, table>>
  BY <1>5 DEF ProbeStarts, SetUp, stickyVars, clientVars, StickyTypes
<1>6. ASSUME NEW o \in Objs, ProbeEnds(o)
      PROVE  StickyTypes' /\ UNCHANGED <<client, relays, table>>
  <2>1. home' \in [Sessions -> Addrs \cup {NoAddr}] /\ cancels' \subseteq Objs
    BY <1>6, UnstickType DEF ProbeEnds, CutIfItWasUp, StickyTypes
  <2> QED  BY <1>6, <2>1 DEF ProbeEnds, StickyTypes
<1>7. ASSUME NEW o \in Objs, SetDown(o)
      PROVE  StickyTypes' /\ UNCHANGED <<client, relays, table>>
  <2>1. cache' \in [Sessions -> Objs \cup {NoObj}] /\ home' \in [Sessions -> Addrs \cup {NoAddr}]
    BY <1>7, UnstickType, ForgetType DEF SetDown
  <2>2. cancels' \subseteq Objs /\ sweeps' \subseteq Sweeps
    BY <1>7, SweepType DEF SetDown, CutOnDown, StickyTypes
  <2> QED  BY <1>7, <2>1, <2>2 DEF SetDown, StickyTypes
<1>8. CASE UNCHANGED vars
  BY <1>8 DEF vars, stickyVars, clientVars, StickyTypes
<1> QED  BY <1>1, <1>2, <1>3, <1>4, <1>5, <1>6, <1>7, <1>8 DEF PoolStep

LEMMA PoolStepClients ==
    ASSUME LeaseInv, ClientInv, PoolInv', PoolStep
    PROVE  ClientInv'
  BY PoolStepTypes DEF ClientInv, ClientTypes, StickyTypes

\* One connection changes, to a value that is served.
LEMMA OneConn ==
    ASSUME ClientInv, NEW k \in Clients, NEW d \in Conns, Served(d), client' = [client EXCEPT ![k] = d]
    PROVE  client' \in [Clients -> Conns] /\ \A j \in Clients : Served(client'[j])
  BY DEF ClientInv, ClientTypes, StickyTypes

LEMMA ArriveTypes ==
    ASSUME ClientInv, NEW k \in Clients, NEW s \in Sessions \cup {NoSession}, Arrive(k, s)
    PROVE  /\ client[k].stage = "new"
           /\ \E c, d : /\ c \in Conns /\ c.key \in Sessions \cup Clients /\ c.key # NoSession
                        /\ c.tried = {} /\ c.sid = s /\ Chosen(k, c, d) /\ Pick(k, c, obj)
                        /\ c.want = IF s = NoSession THEN NoAddr ELSE home[s]
<1>1. /\ (IF s = NoSession THEN k ELSE s) \in Sessions \cup Clients
      /\ (IF s = NoSession THEN NoAddr ELSE home[s]) \in Addrs \cup {NoAddr}
  BY DEF ClientInv, ClientTypes, StickyTypes
<1>2. PICK key \in Sessions \cup Clients, want \in Addrs \cup {NoAddr} :
          /\ key = IF s = NoSession THEN k ELSE s
          /\ want = IF s = NoSession THEN NoAddr ELSE home[s]
  BY <1>1
<1>3. PICK c : c = Arrived(s, key, want)
  OBVIOUS
<1>4. client[k].stage = "new" /\ Pick(k, c, obj)
  BY <1>2, <1>3 DEF Arrive, Arrived
<1>5. c \in Conns /\ c.key = key /\ c.tried = {} /\ c.sid = s /\ c.want = want
  <2>1. /\ Arrived(s, key, want) \in Conns /\ Arrived(s, key, want).key = key
        /\ Arrived(s, key, want).tried = {} /\ Arrived(s, key, want).sid = s
        /\ Arrived(s, key, want).want = want
    BY ArrivalUpdate
  <2> QED  BY <1>3, <2>1
<1>6. \E d : Chosen(k, c, d)
  BY <1>4, <1>5, PickShape
<1>7. key # NoSession
  BY BalancerAssumption
<1> QED  BY <1>2, <1>4, <1>5, <1>6, <1>7

\* The steps of a connection that does not choose a backend.
Moves(k, d) == d \in Conns /\ Served(d) /\ client' = [client EXCEPT ![k] = d]

LEMMA OpenTypes ==
    ASSUME ClientInv, NEW k \in Clients, Open(k)
    PROVE  /\ client[k].stage = "open" /\ client[k].obj \in Objs
           /\ \/ \E d : /\ Moves(k, d) /\ d.stage = "ack" /\ d.key = client[k].key
                        /\ UNCHANGED <<obj, cancels, home, table, doomed>>
              \/ /\ \E c, d : /\ c \in Conns /\ c.key = client[k].key /\ c.tried # {}
                              /\ c.want = NoAddr /\ Chosen(k, c, d)
                 /\ obj' = [obj EXCEPT ![client[k].obj].healthy = FALSE]
                 /\ cancels' = cancels \cup {client[k].obj} /\ Unstick({Addr(client[k].obj)})
                 /\ doomed' = doomed \cup RelaysOn(client[k].obj)
<1>1. client[k] \in Conns /\ client[k].stage = "open" /\ Served(client[k])
  BY DEF Open, ClientInv, ClientTypes, StickyTypes
<1>2. client[k].obj \in Objs /\ client[k].key # NoSession
  BY <1>1 DEF Served, Conns
<1>3. CASE Addr(client[k].obj) \in alive
  <2>1. PICK d : d = [client[k] EXCEPT !.stage = "ack", !.tried = {}]
    OBVIOUS
  <2>2. /\ d \in Conns /\ d.stage = "ack" /\ d.obj = client[k].obj /\ d.key = client[k].key
    BY <1>1, <2>1, AckUpdate
  <2>3. Served(d)
    BY <1>2, <2>2, BalancerAssumption DEF Served
  <2>4. client' = [client EXCEPT ![k] = d] /\ UNCHANGED <<obj, cancels, home, table, doomed>>
    BY <1>3, <2>1 DEF Open
  <2> QED  BY <1>1, <1>2, <2>2, <2>3, <2>4 DEF Moves
<1>4. CASE Addr(client[k].obj) \notin alive
  <2>1. PICK b \in Conns, o \in Objs : b = client[k] /\ o = client[k].obj
    BY <1>1, <1>2
  <2>2. PICK c : c = WithFailed(b, o)
    OBVIOUS
  <2>3. c \in Conns /\ c.key = b.key /\ c.tried = b.tried \cup {o} /\ c.want = NoAddr
    BY <2>2, TriedUpdate
  <2>4. c \in Conns /\ c.key = client[k].key /\ c.tried # {} /\ c.want = NoAddr
    BY <2>1, <2>3
  <2>5. /\ obj' = [obj EXCEPT ![client[k].obj].healthy = FALSE]
        /\ cancels' = cancels \cup {client[k].obj} /\ Unstick({Addr(client[k].obj)})
        /\ doomed' = doomed \cup RelaysOn(client[k].obj)
        /\ Pick(k, c, obj')
    BY <1>4, <2>1, <2>2 DEF Open, WithFailed
  <2>6. \E d : Chosen(k, c, d)
    BY <2>4, <2>5, PickShape
  <2> QED  BY <1>1, <1>2, <2>4, <2>5, <2>6
<1> QED  BY <1>3, <1>4

LEMMA AfterErrorTypes ==
    ASSUME ClientInv, NEW k \in Clients, AfterError(k)
    PROVE  /\ client[k].stage = "told"
           /\ \/ \E d : Moves(k, d) /\ d.stage = "closing" /\ d.key = client[k].key /\ UNCHANGED table
              \/ \E c, d : /\ c \in Conns /\ c.key = client[k].key /\ c.tried = {}
                           /\ c.want = NoAddr /\ Chosen(k, c, d)
<1>1. client[k] \in Conns /\ client[k].stage = "told" /\ client[k].key # NoSession
  BY DEF AfterError, ClientInv, ClientTypes, StickyTypes, Served
<1>2. CASE client' = [client EXCEPT ![k].stage = "closing"] /\ UNCHANGED table
  <2>1. PICK d : d = [client[k] EXCEPT !.stage = "closing"]
    OBVIOUS
  <2>2. d \in Conns /\ d.stage = "closing" /\ d.key = client[k].key
    BY <1>1, <2>1, StageUpdate DEF Stages
  <2>3. client' = [client EXCEPT ![k] = d]
    BY <1>2, <2>1
  <2>4. Served(d)
    BY <1>1, <2>2 DEF Served
  <2> QED  BY <1>1, <1>2, <2>2, <2>3, <2>4 DEF Moves
<1>3. CASE Pick(k, [client[k] EXCEPT !.tried = {}, !.sid = NoSession, !.want = NoAddr], obj)
  <2>1. PICK c : c = [client[k] EXCEPT !.tried = {}, !.sid = NoSession, !.want = NoAddr]
    OBVIOUS
  <2>2. c \in Conns /\ c.key = client[k].key /\ c.tried = {} /\ c.want = NoAddr
    BY <1>1, <2>1, AnonymousUpdate
  <2>3. \E d : Chosen(k, c, d)
    BY <1>3, <2>1, <2>2, PickShape
  <2> QED  BY <1>1, <2>2, <2>3
<1> QED  BY <1>1, <1>2, <1>3 DEF AfterError

LEMMA StageMoves ==
    ASSUME ClientInv, NEW k \in Clients, NEW st \in {"relay", "closing"},
           client[k].stage \in {"ack", "set", "relay"}, client' = [client EXCEPT ![k].stage = st]
    PROVE  \E d : /\ Moves(k, d) /\ d.stage = st /\ d.key = client[k].key /\ d.obj = client[k].obj
                  /\ d.want = client[k].want
<1>1. client[k] \in Conns /\ client[k].key # NoSession /\ client[k].obj # NoObj /\ st \in Stages
  BY DEF ClientInv, ClientTypes, StickyTypes, Served, Stages
<1>2. PICK d : d = [client[k] EXCEPT !.stage = st]
  OBVIOUS
<1>3. /\ d \in Conns /\ d.stage = st /\ d.key = client[k].key /\ d.obj = client[k].obj
      /\ d.want = client[k].want
  BY <1>1, <1>2, StageUpdate
<1>4. Served(d) /\ client' = [client EXCEPT ![k] = d]
  BY <1>1, <1>2, <1>3 DEF Served
<1> QED  BY <1>3, <1>4 DEF Moves

\* A relay is entered under the key of its backend.
LEMMA StartRelayTypes ==
    ASSUME ClientInv, NEW k \in Clients, client[k].stage \in {"ack", "set"}, StartRelay(k)
    PROVE  /\ client[k].obj \in Objs /\ relays' \in [Objs -> SUBSET Clients]
           /\ \E d : Moves(k, d) /\ d.stage = "relay" /\ d.key = client[k].key /\ d.obj = client[k].obj
           /\ \A o \in Objs : relays'[o] \in {relays[o], relays[o] \cup {k}}
<1>1. client[k].obj \in Objs
  BY DEF ClientInv, ClientTypes, StickyTypes, Served, Conns
<1>2. KeyOf(client[k].obj) \in Objs
  BY <1>1, KeyType
<1>3. relays' = [relays EXCEPT ![KeyOf(client[k].obj)] = @ \cup {k}]
      /\ client' = [client EXCEPT ![k].stage = "relay"]
  BY DEF StartRelay
<1>4. /\ relays' \in [Objs -> SUBSET Clients]
      /\ \A o \in Objs : relays'[o] \in {relays[o], relays[o] \cup {k}}
  BY <1>2, <1>3 DEF ClientInv, ClientTypes, StickyTypes
<1> QED  BY <1>1, <1>3, <1>4, StageMoves

LEMMA AckTypes ==
    ASSUME ClientInv, NEW k \in Clients, Ack(k)
    PROVE  /\ client[k].stage = "ack" /\ client[k].obj \in Objs /\ client[k].key \in Sessions \cup Clients
           /\ \/ \E s \in Sessions : \E d :
                    /\ Moves(k, d) /\ d.stage = "set" /\ d.key = s /\ UNCHANGED relays
                    /\ cache' = [cache EXCEPT ![s] = client[k].obj]
                    /\ home' = IF home[s] = Addr(client[k].obj) THEN home
                                                                ELSE [home EXCEPT ![s] = NoAddr]
                    /\ table' = Remember(IF client[k].key = s THEN table
                                         ELSE Migrate(table, client[k].key, s), s, k)
              \/ StartRelay(k) /\ UNCHANGED <<cache, home, table>>
              \/ /\ \E d : Moves(k, d) /\ d.stage = "closing" /\ d.key = client[k].key
                 /\ UNCHANGED <<cache, home, table, relays>>
<1>1. /\ client[k] \in Conns /\ client[k].stage = "ack" /\ client[k].obj \in Objs
      /\ client[k].key \in Sessions \cup Clients
  BY DEF Ack, ClientInv, ClientTypes, StickyTypes, Served, Conns
<1>2. ASSUME NEW s \in Sessions,
             client' = [client EXCEPT ![k] = [@ EXCEPT !.stage = "set", !.key = s, !.sid = s]]
      PROVE  \E d : Moves(k, d) /\ d.stage = "set" /\ d.key = s
  <2>1. PICK b \in Conns : b = client[k]
    BY <1>1
  <2>2. PICK d : d = WithSession(b, s)
    OBVIOUS
  <2>3. d \in Conns /\ d.stage = "set" /\ d.obj = client[k].obj /\ d.key = s /\ d.sid = s
    BY <2>1, <2>2, SessionUpdate
  <2>4. Served(d) /\ client' = [client EXCEPT ![k] = d]
    BY <1>1, <1>2, <2>1, <2>2, <2>3, BalancerAssumption DEF Served, WithSession
  <2> QED  BY <2>3, <2>4 DEF Moves
<1>3. CASE client' = [client EXCEPT ![k].stage = "closing"] /\ UNCHANGED <<cache, home, table, relays>>
  BY <1>1, <1>3, StageMoves
<1> QED  BY <1>1, <1>2, <1>3 DEF Ack

LEMMA PickAnsweredTypes ==
    ASSUME ClientInv, NEW k \in Clients, PickAnswered(k)
    PROVE  /\ client[k].stage = "redis" /\ client[k] \in Conns /\ client[k].sid \in Sessions
           /\ client[k].key \in Sessions \cup Clients /\ client[k].key # NoSession
           /\ \/ \E o \in pool : \E d :
                    /\ Addr(o) = client[k].val /\ Routable(o) /\ Chosen(k, client[k], d)
                    /\ d.stage \in {"open", "told"}
                    /\ ~IsIn(o, client[k].tried) => d.stage = "open" /\ d.obj = o
                    /\ cache' = [cache EXCEPT ![client[k].sid] = o]
                    /\ home' = IF home[client[k].sid] = Addr(o) THEN home
                                                 ELSE [home EXCEPT ![client[k].sid] = NoAddr]
              \/ /\ {o \in pool : Addr(o) = client[k].val /\ Routable(o)} = {}
                 /\ \E d : Chosen(k, client[k], d) /\ d.stage \in {"open", "told"}
                 /\ UNCHANGED <<cache, home>>
<1>1. /\ client[k].stage = "redis" /\ client[k] \in Conns /\ client[k].sid \in Sessions
      /\ client[k].key \in Sessions \cup Clients /\ client[k].key # NoSession
  BY DEF PickAnswered, ClientInv, ClientTypes, StickyTypes, Served, Conns
<1>2. PICK c \in Conns : c = client[k]
  BY <1>1
<1>3. CASE \E o \in pool :
             /\ Addr(o) = c.val /\ Routable(o) /\ cache' = [cache EXCEPT ![c.sid] = o]
             /\ home' = IF home[c.sid] = Addr(o) THEN home ELSE [home EXCEPT ![c.sid] = NoAddr]
             /\ IF IsIn(o, c.tried) THEN RoundRobin(k, c, obj) ELSE Choose(k, c, o)
  <2>1. PICK o \in pool :
             /\ Addr(o) = c.val /\ Routable(o) /\ cache' = [cache EXCEPT ![c.sid] = o]
             /\ home' = IF home[c.sid] = Addr(o) THEN home ELSE [home EXCEPT ![c.sid] = NoAddr]
             /\ IF IsIn(o, c.tried) THEN RoundRobin(k, c, obj) ELSE Choose(k, c, o)
    BY <1>3
  <2>2. o \in Objs
    BY DEF ClientInv, PoolInv
  <2>3. \E d : /\ Chosen(k, c, d) /\ d.stage \in {"open", "told"}
               /\ ~IsIn(o, c.tried) => d.stage = "open" /\ d.obj = o
    <3>1. CASE IsIn(o, c.tried)
      BY <2>1, <3>1, RoundRobinShape
    <3>2. CASE ~IsIn(o, c.tried)
      BY <2>1, <2>2, <3>2, ChooseShape
    <3> QED  BY <3>1, <3>2
  <2> QED  BY <1>1, <1>2, <2>1, <2>3
<1>4. CASE /\ {o \in pool : Addr(o) = c.val /\ Routable(o)} = {}
           /\ RoundRobin(k, c, obj) /\ UNCHANGED <<cache, home>>
  <2>1. \E d : Chosen(k, c, d) /\ d.stage \in {"open", "told"}
    BY <1>4, RoundRobinShape
  <2> QED  BY <1>1, <1>2, <1>4, <2>1
<1> QED  BY <1>2, <1>3, <1>4 DEF PickAnswered

LEMMA MovesTypes ==
    ASSUME ClientInv, NEW k \in Clients, NEW d, Moves(k, d)
    PROVE  client' \in [Clients -> Conns] /\ \A j \in Clients : Served(client'[j])
  BY OneConn DEF Moves


LEMMA ArriveClients ==
    ASSUME ClientInv, PoolInv', NEW k \in Clients, NEW s \in Sessions \cup {NoSession}, Arrive(k, s)
    PROVE  ClientInv'
<1>1. /\ client' \in [Clients -> Conns]
      /\ \A j \in Clients : Served(client'[j])
      /\ table' \in [Sessions \cup Clients -> Entries \cup {NoEntry}]
  BY ArriveTypes, ChosenTypes
<1> QED  BY <1>1 DEF Arrive, ClientInv, ClientTypes, StickyTypes, stickyVars

LEMMA PickAnsweredClients ==
    ASSUME ClientInv, PoolInv', NEW k \in Clients, PickAnswered(k)
    PROVE  ClientInv'
<1>1. client[k] \in Conns /\ client[k].key # NoSession /\ client[k].sid \in Sessions
  BY PickAnsweredTypes
<1>2. PICK c \in Conns : c = client[k]
  BY <1>1
<1>3. \E d : Chosen(k, c, d)
  BY <1>2, PickAnsweredTypes
<1>4. /\ client' \in [Clients -> Conns]
      /\ \A j \in Clients : Served(client'[j])
      /\ table' \in [Sessions \cup Clients -> Entries \cup {NoEntry}]
  BY <1>1, <1>2, <1>3, ChosenTypes
<1>5. cache' \in [Sessions -> Objs \cup {NoObj}] /\ home' \in [Sessions -> Addrs \cup {NoAddr}]
  BY <1>1, PickAnsweredTypes DEF ClientInv, ClientTypes, StickyTypes, PoolInv
<1> QED  BY <1>4, <1>5 DEF PickAnswered, ClientInv, ClientTypes, StickyTypes

LEMMA OpenClients ==
    ASSUME ClientInv, PoolInv', NEW k \in Clients, Open(k)
    PROVE  ClientInv'
<1>1. client[k] \in Conns /\ client[k].key # NoSession /\ client[k].obj \in Objs
  BY OpenTypes DEF ClientInv, ClientTypes, StickyTypes, Served
<1>2. /\ client' \in [Clients -> Conns]
      /\ \A j \in Clients : Served(client'[j])
      /\ table' \in [Sessions \cup Clients -> Entries \cup {NoEntry}]
      /\ home' \in [Sessions -> Addrs \cup {NoAddr}] /\ cancels' \subseteq Objs
  <2>1. CASE \E d : Moves(k, d) /\ UNCHANGED <<cancels, home, table>>
    BY <2>1, MovesTypes DEF ClientInv, ClientTypes, StickyTypes
  <2>2. CASE /\ \E c, d : c \in Conns /\ c.key = client[k].key /\ Chosen(k, c, d)
             /\ cancels' = cancels \cup {client[k].obj} /\ Unstick({Addr(client[k].obj)})
    <3>1. PICK c, d : c \in Conns /\ c.key # NoSession /\ Chosen(k, c, d)
      BY <1>1, <2>2
    <3>2. /\ client' \in [Clients -> Conns]
          /\ \A j \in Clients : Served(client'[j])
          /\ table' \in [Sessions \cup Clients -> Entries \cup {NoEntry}]
      BY <3>1, ChosenTypes
    <3> QED  BY <1>1, <2>2, <3>2, UnstickType DEF ClientInv, ClientTypes, StickyTypes
  <2> QED  BY <2>1, <2>2, OpenTypes
<1> QED  BY <1>2 DEF Open, ClientInv, ClientTypes, StickyTypes

LEMMA AfterErrorClients ==
    ASSUME ClientInv, PoolInv', NEW k \in Clients, AfterError(k)
    PROVE  ClientInv'
<1>1. client[k] \in Conns /\ client[k].key # NoSession
  BY AfterErrorTypes DEF ClientInv, ClientTypes, StickyTypes, Served
<1>2. /\ client' \in [Clients -> Conns]
      /\ \A j \in Clients : Served(client'[j])
      /\ table' \in [Sessions \cup Clients -> Entries \cup {NoEntry}]
  <2>1. CASE \E d : Moves(k, d) /\ UNCHANGED table
    BY <2>1, MovesTypes DEF ClientInv, ClientTypes, StickyTypes
  <2>2. CASE \E c, d : c \in Conns /\ c.key = client[k].key /\ Chosen(k, c, d)
    <3>1. PICK c, d : c \in Conns /\ c.key # NoSession /\ Chosen(k, c, d)
      BY <1>1, <2>2
    <3> QED  BY <3>1, ChosenTypes
  <2> QED  BY <2>1, <2>2, AfterErrorTypes
<1> QED  BY <1>2 DEF AfterError, ClientInv, ClientTypes, StickyTypes, stickyVars

LEMMA AckClients ==
    ASSUME ClientInv, PoolInv', NEW k \in Clients, Ack(k)
    PROVE  ClientInv'
<1>1. client[k].stage = "ack" /\ client[k].obj \in Objs /\ client[k].key \in Sessions \cup Clients
  BY AckTypes
<1>2. /\ client' \in [Clients -> Conns]
      /\ \A j \in Clients : Served(client'[j])
      /\ table' \in [Sessions \cup Clients -> Entries \cup {NoEntry}]
      /\ home' \in [Sessions -> Addrs \cup {NoAddr}]
      /\ cache' \in [Sessions -> Objs \cup {NoObj}]
      /\ relays' \in [Objs -> SUBSET Clients]
  <2>1. ASSUME NEW s \in Sessions, NEW d, Moves(k, d), UNCHANGED relays,
               cache' = [cache EXCEPT ![s] = client[k].obj],
               home' = IF home[s] = Addr(client[k].obj) THEN home ELSE [home EXCEPT ![s] = NoAddr],
               table' = Remember(IF client[k].key = s THEN table
                                 ELSE Migrate(table, client[k].key, s), s, k)
        PROVE  <1>2
    <3>1. client' \in [Clients -> Conns] /\ \A j \in Clients : Served(client'[j])
      BY <2>1, MovesTypes
    <3>2. table' \in [Sessions \cup Clients -> Entries \cup {NoEntry}]
      <4>1. table \in [Sessions \cup Clients -> Entries \cup {NoEntry}]
        BY DEF ClientInv, ClientTypes, StickyTypes
      <4>2. PICK key \in Sessions \cup Clients : key = client[k].key
        BY <1>1
      <4>3. PICK t \in [Sessions \cup Clients -> Entries \cup {NoEntry}] :
                t = IF client[k].key = s THEN table ELSE Migrate(table, client[k].key, s)
        BY <4>1, <4>2, TableTypes
      <4> QED  BY <2>1, <4>3, TableTypes
    <3> QED  BY <1>1, <2>1, <3>1, <3>2 DEF ClientInv, ClientTypes, StickyTypes
  <2>2. CASE StartRelay(k) /\ UNCHANGED <<cache, home, table>>
    <3>1. /\ relays' \in [Objs -> SUBSET Clients]
          /\ client' \in [Clients -> Conns] /\ \A j \in Clients : Served(client'[j])
      BY <1>1, <2>2, StartRelayTypes, MovesTypes
    <3> QED  BY <2>2, <3>1 DEF ClientInv, ClientTypes, StickyTypes
  <2>3. CASE (\E d : Moves(k, d)) /\ UNCHANGED <<cache, home, table, relays>>
    BY <2>3, MovesTypes DEF ClientInv, ClientTypes, StickyTypes
  <2> QED  BY <2>1, <2>2, <2>3, AckTypes
<1> QED  BY <1>2 DEF Ack, ClientInv, ClientTypes, StickyTypes

LEMMA SetStickyClients ==
    ASSUME ClientInv, PoolInv', NEW k \in Clients, SetSticky(k)
    PROVE  ClientInv'
<1>1. client[k].stage = "set" /\ client[k].obj \in Objs /\ client[k].sid \in Sessions
  BY DEF SetSticky, ClientInv, ClientTypes, StickyTypes, Served, Conns
<1>2. /\ relays' \in [Objs -> SUBSET Clients]
      /\ client' \in [Clients -> Conns] /\ \A j \in Clients : Served(client'[j])
  BY <1>1, StartRelayTypes, MovesTypes DEF SetSticky
<1>3. Addr(client[k].obj) \in Addrs \cup {NoAddr}
  BY <1>1 DEF ClientInv, PoolInv, Backends, Addr
<1>4. redis' \in [Sessions -> Addrs \cup {NoAddr}] /\ home' \in [Sessions -> Addrs \cup {NoAddr}]
  BY <1>3 DEF SetSticky, Stored, ClientInv, ClientTypes, StickyTypes
<1> QED  BY <1>2, <1>4 DEF SetSticky, ClientInv, ClientTypes, StickyTypes

LEMMA RelayEndsClients ==
    ASSUME ClientInv, PoolInv', NEW k \in Clients, RelayEnds(k)
    PROVE  ClientInv'
<1>1. client' \in [Clients -> Conns] /\ \A j \in Clients : Served(client'[j])
  BY StageMoves, MovesTypes DEF RelayEnds
<1> QED  BY <1>1 DEF RelayEnds, ClientInv, ClientTypes, StickyTypes, stickyVars

\* CancelRelays ends relays and nothing else.
LEMMA CancelShape ==
    ASSUME ClientInv, NEW o \in Objs, CancelRelays(o)
    PROVE  /\ KeyOf(o) \in Objs /\ relays' = [relays EXCEPT ![KeyOf(o)] = {}]
           /\ client' \in [Clients -> Conns]
           /\ \A j \in Clients :
                /\ Served(client'[j]) /\ client'[j].key = client[j].key /\ client'[j].obj = client[j].obj
                /\ client'[j].want = client[j].want /\ client'[j].tried = client[j].tried
                /\ \/ client'[j] = client[j] /\ ~(j \in relays[KeyOf(o)] /\ client[j].stage = "relay")
                   \/ client[j].stage = "relay" /\ client'[j].stage = "closing"
<1>1. KeyOf(o) \in Objs
  BY KeyType
<1>2. client \in [Clients -> Conns] /\ \A j \in Clients : Served(client[j])
  BY DEF ClientInv, ClientTypes, StickyTypes
<1>3. ASSUME NEW j \in Clients
      PROVE  /\ client'[j] \in Conns
             /\ Served(client'[j]) /\ client'[j].key = client[j].key /\ client'[j].obj = client[j].obj
             /\ client'[j].want = client[j].want /\ client'[j].tried = client[j].tried
             /\ \/ client'[j] = client[j] /\ ~(j \in relays[KeyOf(o)] /\ client[j].stage = "relay")
                \/ client[j].stage = "relay" /\ client'[j].stage = "closing"
  <2>1. CASE j \in relays[KeyOf(o)] /\ client[j].stage = "relay"
    <3>1. PICK d : d = [client[j] EXCEPT !.stage = "closing"]
      OBVIOUS
    <3>2. client'[j] = d
      BY <2>1, <3>1 DEF CancelRelays
    <3>3. /\ d \in Conns /\ d.stage = "closing" /\ d.key = client[j].key /\ d.obj = client[j].obj
          /\ d.want = client[j].want /\ d.tried = client[j].tried /\ d.sid = client[j].sid
      <4>1. client[j] \in Conns /\ "closing" \in Stages
        BY <1>2 DEF Stages
      <4> QED  BY <3>1, <4>1, StageUpdate
    <3>4. client[j].key # NoSession
      BY <1>2, <2>1 DEF Served
    <3>5. Served(d)
      BY <3>3, <3>4 DEF Served
    <3> QED  BY <2>1, <3>2, <3>3, <3>5
  <2>2. CASE ~(j \in relays[KeyOf(o)] /\ client[j].stage = "relay")
    <3>1. client'[j] = client[j]
      BY <2>2 DEF CancelRelays
    <3> QED  BY <1>2, <2>2, <3>1
  <2> QED  BY <2>1, <2>2
<1>4. client' \in [Clients -> Conns]
  BY <1>3 DEF CancelRelays
<1> QED  BY <1>1, <1>3, <1>4 DEF CancelRelays

LEMMA CancelClients ==
    ASSUME ClientInv, PoolInv', NEW o \in Objs, CancelRelays(o)
    PROVE  ClientInv'
<1>1. client' \in [Clients -> Conns] /\ (\A j \in Clients : Served(client'[j]))
      /\ relays' \in [Objs -> SUBSET Clients]
  BY CancelShape DEF ClientInv, ClientTypes, StickyTypes
<1> QED  BY <1>1 DEF CancelRelays, ClientInv, ClientTypes, StickyTypes, stickyVars

LEMMA CloseClients ==
    ASSUME ClientInv, PoolInv', NEW k \in Clients, Close(k)
    PROVE  ClientInv'
<1>1. client' \in [Clients -> Conns] /\ \A j \in Clients : Served(client'[j])
  <2>1. PICK d : d = Gone(k)
    OBVIOUS
  <2>2. d \in Conns /\ Served(d) /\ client' = [client EXCEPT ![k] = d]
    BY <2>1, GoneShape DEF Close
  <2> QED  BY <2>2, OneConn
<1>2. relays' \in [Objs -> SUBSET Clients]
  <2>1. client[k].obj = NoObj \/ client[k].obj \in Objs
    BY DEF ClientInv, ClientTypes, StickyTypes, Conns
  <2>2. relays \in [Objs -> SUBSET Clients]
    BY DEF ClientInv, ClientTypes, StickyTypes
  <2>3. CASE client[k].obj # NoObj
    <3>1. KeyOf(client[k].obj) \in Objs
      BY <2>1, <2>3, KeyType
    <3> QED  BY <2>2, <2>3, <3>1 DEF Close
  <2> QED  BY <2>2, <2>3 DEF Close
<1>3. table' \in [Sessions \cup Clients -> Entries \cup {NoEntry}]
  <2>1. PICK key \in Sessions \cup Clients : key = client[k].key
    BY DEF Close, ClientInv, ClientTypes, StickyTypes, Served, Conns
  <2>2. table \in [Sessions \cup Clients -> Entries \cup {NoEntry}]
    BY DEF ClientInv, ClientTypes, StickyTypes
  <2> QED  BY <2>1, <2>2, TableTypes DEF Close
<1> QED  BY <1>1, <1>2, <1>3 DEF Close, ClientInv, ClientTypes, StickyTypes, stickyVars

LEMMA RestartClients ==
    ASSUME ClientInv, PoolInv', Restart
    PROVE  ClientInv'
<1>1. client' \in [Clients -> Conns] /\ \A j \in Clients : Served(client'[j])
  <2>1. \A j \in Clients : Gone(j) \in Conns /\ Served(Gone(j))
    BY GoneShape
  <2>2. client' = [j \in Clients |-> Gone(j)]
    BY DEF Restart
  <2> QED  BY <2>1, <2>2
<1>2. /\ cache' \in [Sessions -> Objs \cup {NoObj}] /\ redis' \in [Sessions -> Addrs \cup {NoAddr}]
      /\ home' \in [Sessions -> Addrs \cup {NoAddr}] /\ sweeps' \subseteq Sweeps /\ cancels' \subseteq Objs
      /\ relays' \in [Objs -> SUBSET Clients]
      /\ table' \in [Sessions \cup Clients -> Entries \cup {NoEntry}]
  BY DEF Restart, ClientInv, ClientTypes, StickyTypes
<1> QED  BY <1>1, <1>2 DEF ClientInv, ClientTypes, StickyTypes

LEMMA InitClients == Init => ClientInv
<1> SUFFICES ASSUME Init PROVE ClientInv
  OBVIOUS
<1>1. PoolInv
  BY InitPool
<1>2. client \in [Clients -> Conns] /\ \A k \in Clients : Served(client[k])
  <2>1. PICK c : c = NoConn
    OBVIOUS
  <2>2. c \in Conns /\ Served(c)
    BY <2>1, NoConnType, BalancerAssumption DEF Served, NoConn
  <2> QED  BY <2>1, <2>2 DEF Init
<1> QED  BY <1>1, <1>2 DEF Init, ClientInv, ClientTypes, StickyTypes

LEMMA NextClients ==
    ASSUME LeaseInv, ClientInv, PoolInv', [Next]_vars
    PROVE  ClientInv'
<1>1. CASE PoolStep
  BY <1>1, PoolStepClients
<1>2. CASE ClearClients
  BY <1>2 DEF ClearClients, ClientInv, ClientTypes, StickyTypes, stickyVars
<1> QED  BY <1>1, <1>2, ArriveClients, PickAnsweredClients, OpenClients, AfterErrorClients, AckClients,
     SetStickyClients, RelayEndsClients, CancelClients, CloseClients, RestartClients DEF Next, PoolStep

(***************************************************************************)
(* The relays that are to be cut.                                          *)
(***************************************************************************)
\* The backends whose relays are to be cancelled, now or when its keys are deleted.
Cutting == {o \in Objs : o \in cancels \/ \E w \in sweeps : w.cut /\ w.obj = o}

DoomedInv ==
    /\ doomed \subseteq Clients
    /\ \A k \in doomed :
        /\ client[k].stage \in {"relay", "closing"}
        /\ client[k].stage = "relay" /\ k \in relays[client[k].obj] => client[k].obj \in Cutting

ProbeInv == probe \in [Objs -> {"none", "healthy", "unhealthy"}]

\* A backend that is down, or was when the probe under way began: who relays on it
\* has been doomed by what took it down, unless the relay began after that.
WaningIn(b, q, o) == ~b[o].healthy \/ q[o] = "unhealthy"
Waning(o) == WaningIn(obj, probe, o)
LateInv ==
    /\ ProbeInv
    /\ \A k \in Clients \ late : client[k].stage = "relay" /\ Waning(client[k].obj) => k \in doomed

\* Only the connections of K begin to relay or stop.
LEMMA LateKept ==
    ASSUME ClientInv, LateInv, ProbeInv', NEW K,
           \A j \in Clients \ K : client'[j] = client[j] \/ client'[j].stage # "relay",
           \A j \in K \cap Clients : client'[j].stage = "relay" => j \in late' \/ ~WaningIn(obj', probe', client'[j].obj),
           late \ K \subseteq late', doomed \ K \subseteq doomed',
           \A o \in Objs : Waning(o)' => Waning(o) \/ RelaysOn(o) \ late \subseteq doomed'
    PROVE  LateInv'
<1>1. ASSUME NEW k \in Clients, k \notin late', k \notin K, client'[k].stage = "relay",
             WaningIn(obj', probe', client'[k].obj)
      PROVE  k \in doomed'
  <2>1. client'[k] = client[k] /\ k \notin late
    BY <1>1
  <2>2. PICK o \in Objs : o = client[k].obj
    BY <1>1, <2>1 DEF ClientInv, ClientTypes, StickyTypes, Served, Conns
  <2>3. WaningIn(obj', probe', o)
    BY <1>1, <2>1, <2>2
  <2>4. CASE Waning(o)
    BY <1>1, <2>1, <2>2, <2>4 DEF LateInv
  <2>5. CASE RelaysOn(o) \ late \subseteq doomed'
    BY <1>1, <2>1, <2>2, <2>5 DEF RelaysOn
  <2> QED  BY <2>3, <2>4, <2>5 DEF Waning, WaningIn
<1> QED  BY <1>1 DEF LateInv, Waning, WaningIn

\* What takes a backend down dooms its relays; nothing else makes one wane.
LEMMA PoolStepLate ==
    ASSUME LeaseInv, ClientInv, LateInv, PoolStep
    PROVE  LateInv'
<1>1. UNCHANGED <<client, relays>>
  BY PoolStepTypes
<1> DEFINE Wanes == \A o \in Objs : Waning(o)' => Waning(o) \/ RelaysOn(o) \ late \subseteq doomed'
           Kept == ProbeInv' /\ late' = late /\ doomed \subseteq doomed' /\ Wanes
<1> /\ ProbeInv /\ obj \in [Objs -> Backends]
  BY DEF LateInv, ClientInv, PoolInv
<1>2. ASSUME NEW a \in Addrs, \/ NodeStarts(a) \/ NodeDies(a) \/ RegistrationBreaks(a) \/ Spawn(a)
                              \/ SpawnerRemove(a)
      PROVE  Kept
  BY <1>2 DEF NodeStarts, NodeDies, RegistrationBreaks, Spawn, SpawnerRemove, poolVars, clientVars,
     ProbeInv, Waning, WaningIn
<1>3. ASSUME NEW a \in Addrs, NEW r \in Regs, Announce(r, a)
      PROVE  Kept
  <2>1. probe' = probe /\ UNCHANGED clientVars
    BY <1>3 DEF Announce
  <2>2. \A o \in Objs : obj'[o] = obj[o] \/ obj'[o].healthy
    <3>1. ASSUME NEW o \in Known(a), NEW e, obj' = [obj EXCEPT ![o] = Renewed(obj[o], e)]
          PROVE  <2>2
      BY <3>1 DEF Renewed, Backends
    <3>2. ASSUME NEW o, obj' = [obj EXCEPT ![o] = Fresh(a, TRUE)]
          PROVE  <2>2
      BY <3>2 DEF Fresh, Backends
    <3> QED  BY <1>3, <3>1, <3>2 DEF Announce
  <2> QED  BY <2>1, <2>2 DEF clientVars, ProbeInv, Waning, WaningIn
<1>4. ASSUME NEW r \in Regs, Status(r) \/ Deregister(r)
      PROVE  Kept
  BY <1>4 DEF Status, Deregister, stickyVars, clientVars, ProbeInv, Waning, WaningIn, Backends
<1>5. ASSUME NEW w \in sweeps, SweepStarts(w) \/ SweepDeletes(w)
      PROVE  Kept
  BY <1>5 DEF SweepStarts, SweepDeletes, poolVars, clientVars, ProbeInv, Waning, WaningIn
<1>6. ASSUME NEW o \in Objs, ProbeStarts(o) \/ SetDown(o) \/ SetUp(o)
      PROVE  Kept
  <2>1. CASE ProbeStarts(o)
    <3>1. /\ UNCHANGED <<obj, doomed, late>>
          /\ probe' = [probe EXCEPT ![o] = IF obj[o].healthy THEN "healthy" ELSE "unhealthy"]
      BY <2>1 DEF ProbeStarts, clientVars
    <3> QED  BY <3>1 DEF ProbeInv, Waning, WaningIn
  <2>2. CASE SetDown(o) \/ SetUp(o)
    <3>1. UNCHANGED <<probe, late>> /\ doomed \subseteq doomed'
      BY <2>2 DEF SetDown, SetUp, clientVars
    <3>2. \E m \in BOOLEAN : obj' = [obj EXCEPT ![o].manual = m]
      BY <2>2 DEF SetDown, SetUp
    <3>3. \A p \in Objs : obj'[p].healthy = obj[p].healthy
      BY <3>2 DEF Backends
    <3> QED  BY <3>1, <3>3 DEF ProbeInv, Waning, WaningIn
  <2> QED  BY <1>6, <2>1, <2>2
<1>7. ASSUME NEW o \in Objs, ProbeEnds(o)
      PROVE  Kept
  BY <1>7 DEF ProbeEnds, ProbeInv, Waning, WaningIn, Backends
<1>8. ASSUME UNCHANGED vars
      PROVE  Kept
  <2>1. UNCHANGED <<obj, probe, doomed, late>>
    BY <1>8 DEF vars, poolVars, clientVars
  <2> QED  BY <2>1 DEF ProbeInv, Waning, WaningIn
<1> HIDE DEF Kept
<1>9. Kept
  BY <1>2, <1>3, <1>4, <1>5, <1>6, <1>7, <1>8 DEF PoolStep
<1>10. PICK K : K = {}
  OBVIOUS
<1>11. /\ \A j \in Clients \ K : client'[j] = client[j] \/ client'[j].stage # "relay"
       /\ \A j \in K \cap Clients :
            client'[j].stage = "relay" => j \in late' \/ ~WaningIn(obj', probe', client'[j].obj)
  BY <1>1, <1>10
<1>12. ProbeInv' /\ late \ K \subseteq late' /\ doomed \ K \subseteq doomed' /\ Wanes
  BY <1>9, <1>10 DEF Kept
<1> QED  BY <1>11, <1>12, LateKept

\* Only the connections of K change, only backend o loses its relays.
LEMMA DoomedKept ==
    ASSUME ClientInv, DoomedInv, NEW K,
           \A j \in Clients \ K : client'[j] = client[j],
           \A j \in K \cap doomed' : j \in Clients /\ client'[j].stage = "closing",
           \A o \in Objs : relays'[o] \ K \subseteq relays[o],
           Cutting \subseteq Cutting',
           \/ doomed' \subseteq doomed
           \/ \E o \in Objs : doomed' \subseteq doomed \cup RelaysOn(o) /\ o \in Cutting'
    PROVE  DoomedInv'
<1>1. doomed' \subseteq Clients
  BY DEF DoomedInv, RelaysOn
<1>2. ASSUME NEW k \in doomed', k \notin K
      PROVE  /\ client'[k].stage \in {"relay", "closing"}
             /\ client'[k].stage = "relay" /\ k \in relays'[client'[k].obj] => client'[k].obj \in Cutting'
  <2>1. PICK c : c = client[k] /\ c = client'[k]
    BY <1>1, <1>2
  <2>2. c.stage \in {"relay", "closing"} /\ (c.stage = "relay" => c.obj \in Objs)
    BY <1>1, <1>2, <2>1 DEF ClientInv, ClientTypes, StickyTypes, Served, Conns, DoomedInv, RelaysOn
  <2>3. ASSUME c.stage = "relay", k \in relays'[c.obj]
        PROVE  c.obj \in Cutting'
    <3>1. PICK o \in Objs : o = c.obj
      BY <2>2, <2>3
    <3>2. k \in relays[o]
      BY <1>2, <2>3, <3>1
    <3>3. o \in Cutting \/ o \in Cutting'
      BY <1>2, <2>1, <2>3, <3>1, <3>2 DEF DoomedInv, RelaysOn
    <3>4. o \in Cutting'
      BY <3>3
    <3> QED  BY <3>1, <3>4 DEF Cutting
  <2> QED  BY <2>1, <2>2, <2>3 DEF Cutting
<1> QED  BY <1>1, <1>2 DEF DoomedInv

LEMMA PoolStepDoomed ==
    ASSUME LeaseInv, ClientInv, DoomedInv, LateInv, PoolStep
    PROVE  DoomedInv'
<1>1. UNCHANGED <<client, relays>>
  BY PoolStepTypes
<1>2. Cutting \subseteq Cutting'
  <2>1. ASSUME NEW w \in sweeps, SweepStarts(w)
        PROVE  <1>2
    <3>1. PICK v : v = [w EXCEPT !.step = "delete", !.keys = {s \in Sessions : redis[s] = Addr(w.obj)}]
      OBVIOUS
    <3>2. v.cut = w.cut /\ v.obj = w.obj
      BY <3>1 DEF ClientInv, ClientTypes, StickyTypes, Sweeps
    <3>3. sweeps' = (sweeps \ {w}) \cup {v} /\ cancels' = cancels
      BY <2>1, <3>1 DEF SweepStarts, clientVars
    <3> QED  BY <3>2, <3>3 DEF Cutting
  <2>2. ASSUME NEW w \in sweeps, SweepDeletes(w)
        PROVE  <1>2
    BY <2>2 DEF SweepDeletes, Cutting
  <2>3. ASSUME sweeps \subseteq sweeps', cancels \subseteq cancels'
        PROVE  <1>2
    BY <2>3 DEF Cutting
  <2>4. ASSUME NEW a \in Addrs, \/ NodeStarts(a) \/ NodeDies(a) \/ RegistrationBreaks(a) \/ Spawn(a)
                                \/ SpawnerRemove(a) \/ \E r \in Regs : Announce(r, a)
        PROVE  <1>2
    BY <2>3, <2>4 DEF NodeStarts, NodeDies, RegistrationBreaks, Spawn, SpawnerRemove, Announce,
       stickyVars, clientVars
  <2>5. ASSUME NEW r \in Regs, Status(r) \/ Deregister(r)
        PROVE  <1>2
    BY <2>3, <2>5 DEF Status, Deregister, stickyVars, clientVars
  <2>6. ASSUME NEW o \in Objs, ProbeStarts(o) \/ ProbeEnds(o) \/ SetDown(o) \/ SetUp(o)
        PROVE  <1>2
    BY <2>3, <2>6 DEF ProbeStarts, ProbeEnds, SetDown, SetUp, CutIfItWasUp, CutOnDown,
       stickyVars, clientVars
  <2>7. CASE UNCHANGED vars
    BY <2>3, <2>7 DEF vars, stickyVars, clientVars
  <2> QED  BY <2>1, <2>2, <2>4, <2>5, <2>6, <2>7 DEF PoolStep
<1>3. \/ doomed' \subseteq doomed
      \/ \E o \in Objs : doomed' \subseteq doomed \cup RelaysOn(o) /\ o \in Cutting'
  <2>1. ASSUME NEW a \in Addrs, \/ NodeStarts(a) \/ NodeDies(a) \/ RegistrationBreaks(a) \/ Spawn(a)
                                \/ SpawnerRemove(a) \/ \E r \in Regs : Announce(r, a)
        PROVE  doomed' \subseteq doomed
    BY <2>1 DEF NodeStarts, NodeDies, RegistrationBreaks, Spawn, SpawnerRemove, Announce, clientVars
  <2>2. ASSUME NEW r \in Regs, Status(r) \/ Deregister(r)
        PROVE  <1>3
    <3>1. CASE Deregister(r) /\ LeaseHolds(r)
      <4>1. PICK o \in Objs : o = reg[r].obj
        BY <3>1 DEF Deregister, LeaseInv, LeasesDistinct
      <4>2. sweeps' = sweeps \cup {Sweep(o, TRUE)} /\ doomed' = doomed \cup RelaysOn(o)
        BY <3>1, <4>1 DEF Deregister
      <4>3. Sweep(o, TRUE).cut /\ Sweep(o, TRUE).obj = o
        BY DEF Sweep
      <4> QED  BY <4>2, <4>3 DEF Cutting
    <3>2. CASE Status(r) \/ ~LeaseHolds(r)
      BY <2>2, <3>2 DEF Status, Deregister, clientVars
    <3> QED  BY <2>2, <3>1, <3>2
  <2>3. ASSUME NEW w \in sweeps, SweepStarts(w) \/ SweepDeletes(w)
        PROVE  doomed' \subseteq doomed
    BY <2>3 DEF SweepStarts, SweepDeletes, clientVars
  <2>4. ASSUME NEW o \in Objs, ProbeStarts(o) \/ SetUp(o)
        PROVE  doomed' \subseteq doomed
    BY <2>4 DEF ProbeStarts, SetUp, clientVars
  <2>5. ASSUME NEW o \in Objs, ProbeEnds(o) \/ SetDown(o)
        PROVE  <1>3
    <3>1. CASE ProbeEnds(o) /\ probe[o] = "healthy"
      BY <3>1 DEF ProbeEnds, CutIfItWasUp, Cutting
    <3>2. CASE ProbeEnds(o) /\ probe[o] # "healthy"
      <4>1. probe[o] = "unhealthy"
        BY <3>2 DEF ProbeEnds, LateInv, ProbeInv
      <4>2. RelaysOn(o) \ late \subseteq doomed
        BY <4>1 DEF LateInv, Waning, WaningIn, RelaysOn
      <4> QED  BY <3>2, <4>2 DEF ProbeEnds
    <3>3. CASE SetDown(o)
      BY <3>3 DEF SetDown, CutOnDown, Cutting
    <3> QED  BY <2>5, <3>1, <3>2, <3>3
  <2>6. CASE UNCHANGED vars
    BY <2>6 DEF vars, clientVars
  <2> QED  BY <2>1, <2>2, <2>3, <2>4, <2>5, <2>6 DEF PoolStep
<1>4. \A j \in Clients \ {} : client'[j] = client[j]
  BY <1>1
<1>5. \A j \in {} \cap doomed' : j \in Clients /\ client'[j].stage = "closing"
  OBVIOUS
<1>6. \A o \in Objs : relays'[o] \ {} \subseteq relays[o]
  BY <1>1
<1> QED  BY <1>2, <1>3, <1>4, <1>5, <1>6, DoomedKept

LEMMA CancelDoomed ==
    ASSUME ClientInv, DoomedInv, NEW o \in Objs, CancelRelays(o)
    PROVE  DoomedInv'
<1>1. /\ KeyOf(o) \in Objs /\ relays' = [relays EXCEPT ![KeyOf(o)] = {}]
      /\ \A j \in Clients :
                /\ client'[j].obj = client[j].obj
                /\ \/ client'[j] = client[j] /\ ~(j \in relays[KeyOf(o)] /\ client[j].stage = "relay")
                   \/ client[j].stage = "relay" /\ client'[j].stage = "closing"
  BY CancelShape
<1>2. cancels' = cancels \ {o} /\ UNCHANGED <<sweeps, doomed>>
  BY DEF CancelRelays, stickyVars
<1>3. ASSUME NEW k \in doomed'
      PROVE  /\ client'[k].stage \in {"relay", "closing"}
             /\ client'[k].stage = "relay" /\ k \in relays'[client'[k].obj] => client'[k].obj \in Cutting'
  <2>1. k \in doomed /\ k \in Clients /\ client[k].stage \in {"relay", "closing"}
    BY <1>2 DEF DoomedInv
  <2>2. ASSUME client'[k].stage = "relay", k \in relays'[client'[k].obj]
        PROVE  client'[k].obj \in Cutting'
    <3>1. client'[k] = client[k] /\ ~(k \in relays[KeyOf(o)])
      BY <1>1, <2>1, <2>2
    <3>2. PICK p \in Objs : p = client[k].obj
      BY <2>1, <2>2, <3>1 DEF ClientInv, ClientTypes, StickyTypes, Served, Conns
    <3>3. k \in relays[p]
      BY <1>1, <2>2, <3>1, <3>2 DEF ClientInv, ClientTypes, StickyTypes
    <3>4. p # o
      BY <3>1, <3>3, KeyType
    <3>5. p \in Cutting
      BY <2>1, <2>2, <3>1, <3>2, <3>3 DEF DoomedInv
    <3>6. p \in Cutting'
      BY <1>2, <3>4, <3>5 DEF Cutting
    <3> QED  BY <3>1, <3>2, <3>6 DEF Cutting
  <2> QED  BY <1>1, <2>1, <2>2
<1>4. doomed' \subseteq Clients
  BY <1>2 DEF DoomedInv
<1> QED  BY <1>3, <1>4 DEF DoomedInv

\* The steps of one connection.
ClientStep(k) ==
    \/ \E s \in Sessions \cup {NoSession} : Arrive(k, s)
    \/ PickAnswered(k) \/ Open(k) \/ AfterError(k) \/ Ack(k) \/ SetSticky(k) \/ RelayEnds(k) \/ Close(k)

\* What they do to the connection's entry in client, and to all others: nothing.
LEMMA OnlyThisOne ==
    ASSUME ClientInv, NEW k \in Clients, ClientStep(k)
    PROVE  /\ \E d \in Conns : client' = [client EXCEPT ![k] = d]
           /\ \A j \in Clients \ {k} : client'[j] = client[j]
<1>1. \E d \in Conns : client' = [client EXCEPT ![k] = d]
  <2>1. ASSUME NEW s \in Sessions \cup {NoSession}, Arrive(k, s)  PROVE <1>1
    BY <2>1, ArriveTypes DEF Chosen
  <2>2. CASE PickAnswered(k)
    BY <2>2, PickAnsweredTypes DEF Chosen
  <2>3. CASE Open(k)
    BY <2>3, OpenTypes DEF Chosen, Moves
  <2>4. CASE AfterError(k)
    BY <2>4, AfterErrorTypes DEF Chosen, Moves
  <2>5. CASE Ack(k)
    BY <2>5, AckTypes, StartRelayTypes DEF Moves
  <2>6. CASE SetSticky(k)
    BY <2>6, StartRelayTypes DEF Moves, SetSticky
  <2>7. CASE RelayEnds(k)
    BY <2>7, StageMoves DEF Moves, RelayEnds
  <2>8. CASE Close(k)
    <3>1. PICK d : d = Gone(k)
      OBVIOUS
    <3> QED  BY <2>8, <3>1, GoneShape DEF Close
  <2> QED  BY <2>1, <2>2, <2>3, <2>4, <2>5, <2>6, <2>7, <2>8 DEF ClientStep
<1> QED  BY <1>1 DEF ClientInv, ClientTypes, StickyTypes

LEMMA ClientStepDoomed ==
    ASSUME ClientInv, DoomedInv, NEW k \in Clients, ClientStep(k)
    PROVE  DoomedInv'
<1>1. \A j \in Clients \ {k} : client'[j] = client[j]
  BY OnlyThisOne
<1>2. \A o \in Objs : relays'[o] \ {k} \subseteq relays[o]
  <2>1. CASE UNCHANGED relays
    BY <2>1
  <2>2. CASE StartRelay(k) /\ client[k].stage \in {"ack", "set"}
    BY <2>2, StartRelayTypes
  <2>3. CASE Close(k)
    BY <2>3 DEF Close, ClientInv, ClientTypes, StickyTypes
  <2> QED  BY <2>1, <2>2, <2>3 DEF ClientStep, Arrive, PickAnswered, Open, AfterError, Ack, SetSticky,
           RelayEnds
<1>3. sweeps' = sweeps /\ cancels \subseteq cancels'
  BY DEF ClientStep, Arrive, PickAnswered, Open, AfterError, Ack, SetSticky, RelayEnds, Close, stickyVars
<1>4. Cutting \subseteq Cutting'
  BY <1>3 DEF Cutting
<1>5. /\ \/ doomed' \subseteq doomed
         \/ \E o \in Objs : doomed' \subseteq doomed \cup RelaysOn(o) /\ o \in Cutting'
      /\ k \in doomed' => client'[k].stage = "closing"
  <2>1. CASE client[k].stage \notin {"relay", "closing"} /\ doomed' = doomed
    BY <2>1 DEF DoomedInv
  <2>2. CASE Open(k) /\ doomed' # doomed
    <3>1. client[k].stage = "open" /\ client[k].obj \in Objs
      BY <2>2, OpenTypes
    <3>2. client[k].obj \in cancels' /\ doomed' = doomed \cup RelaysOn(client[k].obj)
      BY <2>2 DEF Open
    <3> QED  BY <3>1, <3>2 DEF Cutting, DoomedInv, RelaysOn
  <2>3. CASE RelayEnds(k)
    BY <2>3 DEF RelayEnds, ClientInv, ClientTypes, StickyTypes
  <2>4. CASE Close(k)
    BY <2>4 DEF Close
  <2> QED  BY <2>1, <2>2, <2>3, <2>4 DEF ClientStep, Arrive, PickAnswered, Open, AfterError, Ack, SetSticky
<1>6. PICK K : K = {k}
  OBVIOUS
<1>7. \/ doomed' \subseteq doomed
      \/ \E o \in Objs : doomed' \subseteq doomed \cup RelaysOn(o) /\ o \in Cutting'
  BY <1>5
<1>8. /\ \A j \in Clients \ K : client'[j] = client[j]
      /\ \A j \in K \cap doomed' : j \in Clients /\ client'[j].stage = "closing"
      /\ \A o \in Objs : relays'[o] \ K \subseteq relays[o]
  BY <1>1, <1>2, <1>5, <1>6
<1> QED  BY <1>4, <1>7, <1>8, DoomedKept

\* A connection that begins to relay on a backend that wanes is late.
LEMMA ClientStepLate ==
    ASSUME ClientInv, LateInv, NEW k \in Clients, ClientStep(k)
    PROVE  LateInv'
<1>1. \A j \in Clients \ {k} : client'[j] = client[j]
  BY OnlyThisOne
<1>2. probe' = probe /\ late \ {k} \subseteq late' /\ doomed \ {k} \subseteq doomed'
  BY DEF ClientStep, Arrive, PickAnswered, Open, AfterError, Ack, SetSticky, RelayEnds, Close, poolVars,
     StartRelay
<1>3. \A o \in Objs : Waning(o)' => Waning(o) \/ RelaysOn(o) \ late \subseteq doomed'
  <2>1. CASE UNCHANGED obj
    BY <1>2, <2>1 DEF Waning, WaningIn
  <2>2. CASE Open(k)
    <3>1. PICK p : p = client[k].obj
      OBVIOUS
    <3>2. CASE obj' = [obj EXCEPT ![p].healthy = FALSE] /\ doomed' = doomed \cup RelaysOn(p)
      BY <1>2, <3>2 DEF Waning, WaningIn, ClientInv, PoolInv
    <3> QED  BY <2>1, <2>2, <3>1, <3>2 DEF Open
  <2> QED  BY <2>1, <2>2 DEF ClientStep, Arrive, PickAnswered, AfterError, Ack, SetSticky, RelayEnds,
           Close, poolVars
<1>4. client'[k].stage = "relay" => k \in late' \/ ~WaningIn(obj', probe', client'[k].obj)
  <2>1. CASE StartRelay(k) /\ UNCHANGED <<obj, probe>> /\ client[k].stage \in {"ack", "set"}
    <3>1. client'[k].obj = client[k].obj
      BY <2>1, StartRelayTypes DEF Moves, ClientInv, ClientTypes
    <3> QED  BY <2>1, <3>1 DEF StartRelay, WaningIn
  <2>2. ASSUME client'[k].stage = "relay"
        PROVE  StartRelay(k) /\ UNCHANGED <<obj, probe>> /\ client[k].stage \in {"ack", "set"}
    <3> client \in [Clients -> Conns]
      BY DEF ClientInv, ClientTypes
    <3>1. ASSUME NEW c, NEW d, Chosen(k, c, d)
          PROVE  FALSE
      BY <2>2, <3>1 DEF Chosen
    <3>2. ASSUME NEW d, Moves(k, d), d.stage # "relay"
          PROVE  FALSE
      BY <2>2, <3>2 DEF Moves
    <3>3. ASSUME NEW s \in Sessions \cup {NoSession}
          PROVE  ~Arrive(k, s)
      BY <3>1, ArriveTypes
    <3>4. ~PickAnswered(k)
      BY <3>1, PickAnsweredTypes
    <3>5. ~Open(k)
      BY <3>1, <3>2, OpenTypes
    <3>6. ~AfterError(k)
      BY <3>1, <3>2, AfterErrorTypes
    <3>7. ~RelayEnds(k)
      BY <2>2 DEF RelayEnds, Conns
    <3>8. ~Close(k)
      BY <2>2 DEF Close, Gone, NoConn
    <3>9. CASE Ack(k)
      BY <3>2, <3>9, AckTypes DEF Ack, poolVars
    <3>10. CASE SetSticky(k)
      BY <3>10 DEF SetSticky, poolVars
    <3> QED  BY <3>3, <3>4, <3>5, <3>6, <3>7, <3>8, <3>9, <3>10 DEF ClientStep
  <2> QED  BY <2>1, <2>2
<1>5. PICK K : K = {k}
  OBVIOUS
<1>6. ProbeInv'
  BY <1>2 DEF LateInv, ProbeInv
<1>7. /\ \A j \in Clients \ K : client'[j] = client[j] \/ client'[j].stage # "relay"
      /\ \A j \in K \cap Clients :
            client'[j].stage = "relay" => j \in late' \/ ~WaningIn(obj', probe', client'[j].obj)
  BY <1>1, <1>4, <1>5
<1>8. late \ K \subseteq late' /\ doomed \ K \subseteq doomed'
  BY <1>2, <1>5
<1> QED  BY <1>3, <1>6, <1>7, <1>8, LateKept

LEMMA NextLate ==
    ASSUME LeaseInv, ClientInv, LateInv, [Next]_vars
    PROVE  LateInv'
<1>1. CASE PoolStep
  BY <1>1, PoolStepLate
<1>2. CASE ClearClients
  BY <1>2 DEF ClearClients, LateInv, ProbeInv, Waning, WaningIn, poolVars
<1>3. CASE Restart
  BY <1>3 DEF Restart, LateInv, ProbeInv, Gone, NoConn
<1>4. ASSUME NEW o \in Objs, CancelRelays(o)
      PROVE  LateInv'
  BY <1>4, CancelShape DEF CancelRelays, LateInv, ProbeInv, Waning, WaningIn, poolVars
<1> QED  BY <1>1, <1>2, <1>3, <1>4, ClientStepLate DEF Next, PoolStep, ClientStep

LEMMA NextDoomed ==
    ASSUME LeaseInv, ClientInv, DoomedInv, LateInv, [Next]_vars
    PROVE  DoomedInv'
<1>1. CASE PoolStep
  BY <1>1, PoolStepDoomed
<1>2. CASE ClearClients
  BY <1>2 DEF ClearClients, DoomedInv, Cutting, stickyVars
<1>3. CASE Restart
  BY <1>3 DEF Restart, DoomedInv
<1> QED  BY <1>1, <1>2, <1>3, CancelDoomed, ClientStepDoomed DEF Next, PoolStep, ClientStep

LEMMA DoomedCut == ClientInv /\ DoomedInv => DoomedIsCut
<1> SUFFICES ASSUME ClientInv, DoomedInv, NEW k \in doomed,
                    client[k].stage = "relay", k \in relays[client[k].obj]
             PROVE  Cut(k)
  BY DEF DoomedIsCut
<1>1. client[k].obj \in Objs
  BY DEF ClientInv, ClientTypes, StickyTypes, Served, Conns, DoomedInv
<1>2. KeyOf(client[k].obj) = client[k].obj
  BY <1>1, KeyType
<1>3. client[k].obj \in Cutting
  BY DEF DoomedInv
<1> QED  BY <1>2, <1>3 DEF Cutting, Cut

\* A relay on a backend that fails a probe or a dial, loses its registration or is
\* taken down by an admin is about to be cancelled (_cancel_relay_tasks and its
\* callers), whatever else happens meanwhile.  That was_healthy is read when a probe
\* begins costs no relay the cut which began before the failure or after the backend
\* had come back for good: the others, of late, stay (lb.py:485, against 492-494).
THEOREM DoomedRelaysAreCut == Spec => []DoomedIsCut
<1>1. Init => LeaseInv /\ ClientInv /\ DoomedInv /\ LateInv
  BY InitClients, InitLeases DEF Init, DoomedInv, LateInv, ProbeInv, NoConn
<1>2. LeaseInv /\ ClientInv /\ DoomedInv /\ LateInv /\ [Next]_vars
      => (LeaseInv /\ ClientInv /\ DoomedInv /\ LateInv)'
  BY NextLeases, NextClients, NextDoomed, NextLate DEF LeaseInv
<1>3. ClientInv /\ DoomedInv => DoomedIsCut
  BY DoomedCut
<1> QED  BY <1>1, <1>2, <1>3, PTL DEF Spec

(***************************************************************************)
(* The client table.                                                       *)
(***************************************************************************)
\* An entry is active just as long as its connection goes by that key.
EntryRight(e, key, c) == c.stage # "new" /\ (e.active <=> c.key = key)

TableInv == \A key \in Sessions \cup Clients :
    table[key] # NoEntry => EntryRight(table[key], key, client[table[key].conn])

LEMMA EntryShape ==
    ASSUME NEW k \in Clients
    PROVE  Entry(k, TRUE) # NoEntry /\ Entry(k, TRUE).conn = k /\ Entry(k, TRUE).active
<1>1. Entry(k, TRUE) \in [conn : Clients, active : BOOLEAN]
  BY DEF Entry
<1> QED  BY <1>1, BalancerAssumption DEF Entry

\* Connection k becomes d: what the table says at key is gone, is as before and
\* concerns another connection or a key k did not go by and does not go by now,
\* is k's new entry, or k's entry made inactive.
EntryMoves(k, d, key) ==
    \/ table'[key] = NoEntry
    \/ table'[key] = table[key] /\ (table[key] # NoEntry /\ table[key].conn = k
                                    => (client[k].key = key <=> d.key = key))
    \/ table'[key] = Entry(k, TRUE) /\ d.key = key
    \/ /\ table'[key] # NoEntry /\ table'[key].conn = k
       /\ ~table'[key].active /\ d.key # key

LEMMA EntriesKept ==
    ASSUME ClientInv, TableInv, NEW k \in Clients, NEW d \in Conns, d.stage # "new",
           client' = [client EXCEPT ![k] = d],
           \A key \in Sessions \cup Clients : EntryMoves(k, d, key)
    PROVE  TableInv'
<1>1. ASSUME NEW key \in Sessions \cup Clients, table'[key] # NoEntry
      PROVE  EntryRight(table'[key], key, client'[table'[key].conn])
  <2>1. client'[k] = d /\ \A j \in Clients : j # k => client'[j] = client[j]
    BY DEF ClientInv, ClientTypes, StickyTypes
  <2>2. CASE table'[key] = table[key] /\ (table[key].conn = k => (client[k].key = key <=> d.key = key))
    <3>1. EntryRight(table[key], key, client[table[key].conn]) /\ table[key].conn \in Clients
      BY <1>1, <2>2 DEF TableInv, ClientInv, ClientTypes, StickyTypes, Entries
    <3>2. CASE table[key].conn = k
      <4>1. EntryRight(table[key], key, client[k])
        BY <3>1, <3>2
      <4>2. EntryRight(table[key], key, d)
        BY <2>2, <3>2, <4>1 DEF EntryRight
      <4> QED  BY <2>1, <2>2, <3>2, <4>2
    <3>3. CASE table[key].conn # k
      BY <2>1, <2>2, <3>1, <3>3
    <3> QED  BY <3>2, <3>3
  <2>3. CASE table'[key] = Entry(k, TRUE) /\ d.key = key
    <3>1. EntryRight(Entry(k, TRUE), key, d) /\ Entry(k, TRUE).conn = k
      BY <2>3, EntryShape DEF EntryRight
    <3> QED  BY <2>1, <2>3, <3>1
  <2>4. CASE table'[key].conn = k /\ ~table'[key].active /\ d.key # key
    BY <2>1, <2>4 DEF EntryRight
  <2> QED  BY <1>1, <2>2, <2>3, <2>4 DEF EntryMoves
<1> QED  BY <1>1 DEF TableInv, EntryRight

LEMMA ChosenTable ==
    ASSUME ClientInv, TableInv, NEW k \in Clients, NEW c \in Conns, NEW d, Chosen(k, c, d),
           client[k].stage = "new" \/ c.key = client[k].key, c.key \in Sessions \cup Clients
    PROVE  TableInv'
<1>1. /\ d \in Conns /\ client' = [client EXCEPT ![k] = d] /\ d.stage # "new" /\ d.key = c.key
      /\ table' \in {table, Remember(table, c.key, k)}
  BY DEF Chosen
<1>2. \A key \in Sessions \cup Clients :
          table'[key] = table[key] \/ (table'[key] = Entry(k, TRUE) /\ key = c.key)
  BY <1>1 DEF Remember, ClientInv, ClientTypes, StickyTypes
<1>3. ASSUME NEW key \in Sessions \cup Clients, table[key] # NoEntry, table[key].conn = k
      PROVE  client[k].key = key <=> d.key = key
  BY <1>1, <1>3 DEF TableInv, EntryRight
<1>4. \A key \in Sessions \cup Clients : EntryMoves(k, d, key)
  BY <1>1, <1>2, <1>3 DEF EntryMoves
<1> QED  BY <1>1, <1>4, EntriesKept

LEMMA MovesTable ==
    ASSUME ClientInv, TableInv, NEW k \in Clients, NEW d, Moves(k, d), d.stage # "new",
           d.key = client[k].key, UNCHANGED table
    PROVE  TableInv'
<1>1. d \in Conns /\ client' = [client EXCEPT ![k] = d]
  BY DEF Moves
<1>2. \A key \in Sessions \cup Clients : EntryMoves(k, d, key)
  BY DEF EntryMoves
<1> QED  BY <1>1, <1>2, EntriesKept

\* The session a backend answers with takes over the entry of before.
LEMMA SessionTable ==
    ASSUME ClientInv, TableInv, NEW k \in Clients, NEW s \in Sessions, NEW d, Moves(k, d),
           d.stage = "set", d.key = s, client[k].key \in Sessions \cup Clients,
           table' = Remember(IF client[k].key = s THEN table
                             ELSE Migrate(table, client[k].key, s), s, k)
    PROVE  TableInv'
<1>1. d \in Conns /\ client' = [client EXCEPT ![k] = d]
  BY DEF Moves
<1>2. table \in [Sessions \cup Clients -> Entries \cup {NoEntry}]
  BY DEF ClientInv, ClientTypes, StickyTypes
<1>3. PICK old \in Sessions \cup Clients : old = client[k].key
  OBVIOUS
<1>4. PICK t \in [Sessions \cup Clients -> Entries \cup {NoEntry}] :
          t = IF old = s THEN table ELSE Migrate(table, old, s)
  BY <1>2, TableTypes
<1>5. \A key \in Sessions \cup Clients : key # s =>
          t[key] = NoEntry \/ (t[key] = table[key] /\ (old = s \/ key # old))
  BY <1>2, <1>4 DEF Migrate
<1>6. \A key \in Sessions \cup Clients :
          table'[key] = IF key = s THEN Entry(k, TRUE) ELSE t[key]
  BY <1>3, <1>4 DEF Remember
<1>7. ASSUME NEW key \in Sessions \cup Clients
      PROVE  EntryMoves(k, d, key)
  BY <1>3, <1>5, <1>6 DEF EntryMoves
<1> QED  BY <1>1, <1>7, EntriesKept

LEMMA CloseTable ==
    ASSUME ClientInv, TableInv, NEW k \in Clients, Close(k)
    PROVE  TableInv'
<1>1. PICK d : d = Gone(k)
  OBVIOUS
<1>2. /\ d \in Conns /\ d.stage = "done" /\ d.key = NoSession /\ client' = [client EXCEPT ![k] = d]
  BY <1>1, GoneShape DEF Close, Served, NoConn
<1>3. PICK old \in Sessions \cup Clients : old = client[k].key
  BY DEF Close, ClientInv, ClientTypes, StickyTypes, Served, Conns
<1>4. table' = Drop(table, old, k)
  BY <1>3 DEF Close
<1>5. ASSUME NEW key \in Sessions \cup Clients
      PROVE  EntryMoves(k, d, key)
  <2>1. d.key # key
    BY <1>2, BalancerAssumption
  <2>2. CASE key = old /\ table[key] # NoEntry /\ table[key].conn = k
    <3>1. table[key] \in Entries /\ table \in [Sessions \cup Clients -> Entries \cup {NoEntry}]
      BY <2>2 DEF ClientInv, ClientTypes, StickyTypes
    <3>2. PICK e : e = [table[key] EXCEPT !.active = FALSE]
      OBVIOUS
    <3>3. e \in Entries /\ ~e.active /\ e.conn = k
      BY <2>2, <3>1, <3>2 DEF Entries
    <3>4. table'[key] = e
      BY <1>4, <2>2, <3>1, <3>2 DEF Drop
    <3> QED  BY <2>1, <3>3, <3>4, BalancerAssumption DEF Entries, EntryMoves
  <2>3. CASE ~(key = old /\ table[key] # NoEntry /\ table[key].conn = k)
    <3>1. table'[key] = table[key]
      BY <1>4, <2>3 DEF Drop, ClientInv, ClientTypes, StickyTypes
    <3> QED  BY <1>3, <2>1, <2>3, <3>1 DEF EntryMoves
  <2> QED  BY <2>2, <2>3
<1> QED  BY <1>2, <1>5, EntriesKept

LEMMA CancelTable ==
    ASSUME ClientInv, TableInv, NEW o \in Objs, CancelRelays(o)
    PROVE  TableInv'
<1>1. \A j \in Clients : client'[j].key = client[j].key
                         /\ (client[j].stage # "new" => client'[j].stage # "new")
  BY CancelShape
<1>2. table' = table
  BY DEF CancelRelays
<1>3. \A key \in Sessions \cup Clients : table[key] # NoEntry => table[key].conn \in Clients
  BY DEF ClientInv, ClientTypes, StickyTypes, Entries
<1> QED  BY <1>1, <1>2, <1>3 DEF TableInv, EntryRight

LEMMA ClientStepTable ==
    ASSUME ClientInv, TableInv, NEW k \in Clients, ClientStep(k)
    PROVE  TableInv'
<1>1. ASSUME NEW s \in Sessions \cup {NoSession}, Arrive(k, s)  PROVE TableInv'
  BY <1>1, ArriveTypes, ChosenTable
<1>2. CASE PickAnswered(k)
  <2>1. PICK c \in Conns : c = client[k] /\ c.key \in Sessions \cup Clients
    BY <1>2, PickAnsweredTypes
  <2>2. \E d : Chosen(k, c, d)
    BY <1>2, <2>1, PickAnsweredTypes
  <2> QED  BY <2>1, <2>2, ChosenTable
<1>3. CASE Open(k)
  <2>1. client[k].key \in Sessions \cup Clients
    BY <1>3 DEF Open, ClientInv, ClientTypes, StickyTypes, Served, Conns
  <2> QED  BY <1>3, <2>1, OpenTypes, ChosenTable, MovesTable
<1>4. CASE AfterError(k)
  <2>1. client[k].key \in Sessions \cup Clients
    BY <1>4, AfterErrorTypes DEF ClientInv, ClientTypes, StickyTypes, Served, Conns
  <2> QED  BY <1>4, <2>1, AfterErrorTypes, ChosenTable, MovesTable
<1>5. CASE Ack(k)
  BY <1>5, AckTypes, StartRelayTypes, SessionTable, MovesTable
<1>6. CASE SetSticky(k)
  BY <1>6, StartRelayTypes, MovesTable DEF SetSticky
<1>7. CASE RelayEnds(k)
  BY <1>7, StageMoves, MovesTable DEF RelayEnds
<1>8. CASE Close(k)
  BY <1>8, CloseTable
<1> QED  BY <1>1, <1>2, <1>3, <1>4, <1>5, <1>6, <1>7, <1>8 DEF ClientStep

LEMMA NextTable ==
    ASSUME LeaseInv, ClientInv, TableInv, [Next]_vars
    PROVE  TableInv'
<1>1. CASE PoolStep
  BY <1>1, PoolStepTypes DEF TableInv
<1>2. CASE ClearClients \/ Restart
  BY <1>2 DEF ClearClients, Restart, TableInv, ClientInv, ClientTypes, StickyTypes
<1> QED  BY <1>1, <1>2, CancelTable, ClientStepTable DEF Next, PoolStep, ClientStep

\* The end of a stale connection never makes the client's newer one look gone, and
\* no entry counts a connection that has ended or goes by another key
\* (_handle_client's finally block and the migration of the entry to the session).
THEOREM EntriesFollowTheirOwner == Spec => []OwnerActive
<1>1. Init => LeaseInv /\ ClientInv /\ TableInv
  BY InitClients, InitLeases DEF Init, TableInv
<1>2. LeaseInv /\ ClientInv /\ TableInv /\ [Next]_vars => (LeaseInv /\ ClientInv /\ TableInv)'
  BY NextLeases, NextClients, NextTable DEF LeaseInv
<1>3. ClientInv /\ TableInv => OwnerActive
  BY DEF ClientInv, ClientTypes, StickyTypes, TableInv, EntryRight, OwnerActive
<1> QED  BY <1>1, <1>2, <1>3, PTL DEF Spec

(***************************************************************************)
(* Sticky sessions.                                                        *)
(***************************************************************************)
\* Where a session is stuck to: Redis has it, the cache has nothing else, its
\* backend is in rotation, and nobody is about to delete the key.
Settled(s) ==
    /\ redis[s] = home[s]
    /\ cache[s] # NoObj => Addr(cache[s]) = home[s]
    /\ \E o \in pool : Addr(o) = home[s] /\ Routable(o)
    /\ \A w \in sweeps : Addr(w.obj) # home[s] /\ s \notin w.keys

HomesSettled == \A s \in Sessions : home[s] # NoAddr => Settled(s)

\* The answer of Redis to a session that named itself on its first frame.
AnswersKnow == \A k \in Clients :
    client[k].stage = "redis" /\ client[k].want # NoAddr
    => client[k].tried = {} /\ client[k].val = client[k].want

HomeInv == HomesSettled /\ AnswersKnow

LEMMA HomesSame ==
    ASSUME HomesSettled, UNCHANGED <<obj, pool, stickyVars>>
    PROVE  HomesSettled'
  BY DEF HomesSettled, Settled, Addr, Routable, stickyVars

LEMMA HomesKept ==
    ASSUME ClientInv, HomesSettled, redis' = redis,
           \A s \in Sessions : home'[s] \in {home[s], NoAddr},
           \A s \in Sessions : home'[s] # NoAddr => cache'[s] \in {cache[s], NoObj},
           \A s \in Sessions : cache[s] # NoObj => obj'[cache[s]].addr = obj[cache[s]].addr,
           \A s \in Sessions, o \in pool : home'[s] # NoAddr /\ home'[s] = Addr(o) /\ Routable(o) =>
              o \in pool' /\ obj'[o].addr = obj[o].addr /\ obj'[o].healthy /\ ~obj'[o].manual,
           \A s \in Sessions, w \in sweeps' : home'[s] # NoAddr =>
              obj'[w.obj].addr # home'[s] /\ s \notin w.keys
    PROVE  HomesSettled'
<1>1. ASSUME NEW s \in Sessions, home'[s] # NoAddr
      PROVE  /\ redis'[s] = home'[s]
             /\ cache'[s] # NoObj => obj'[cache'[s]].addr = home'[s]
             /\ \E o \in pool' : obj'[o].addr = home'[s] /\ obj'[o].healthy /\ ~obj'[o].manual
             /\ \A w \in sweeps' : obj'[w.obj].addr # home'[s] /\ s \notin w.keys
  <2>1. home'[s] = home[s] /\ Settled(s)
    BY <1>1 DEF HomesSettled
  <2>2. PICK o \in pool : Addr(o) = home[s] /\ Routable(o)
    BY <2>1 DEF Settled
  <2>3. o \in pool' /\ obj'[o].addr = obj[o].addr /\ obj'[o].healthy /\ ~obj'[o].manual
    BY <1>1, <2>1, <2>2
  <2>4. cache'[s] # NoObj => obj'[cache'[s]].addr = home'[s]
    BY <1>1, <2>1 DEF Settled, Addr
  <2>5. redis'[s] = home'[s]
    BY <2>1 DEF Settled
  <2> QED  BY <1>1, <2>1, <2>2, <2>3, <2>4, <2>5 DEF Addr
<1> QED  BY <1>1 DEF HomesSettled, Settled, Addr, Routable

\* A step that changes health, control or registration of backends, keeping all
\* addresses in use, and takes only backends of addrs out of rotation.
LEMMA RotationHomes ==
    ASSUME ClientInv, HomesSettled, NEW addrs, redis' = redis, sweeps' = sweeps,
           Unstick(addrs) \/ (home' = home /\ addrs = {}),
           \A s \in Sessions : cache'[s] \in {cache[s], NoObj},
           \A s \in Sessions : cache[s] # NoObj => obj'[cache[s]].addr = obj[cache[s]].addr,
           \A w \in sweeps : obj'[w.obj].addr = obj[w.obj].addr,
           \A o \in pool : Routable(o) /\ Addr(o) \notin addrs =>
              o \in pool' /\ obj'[o].addr = obj[o].addr /\ obj'[o].healthy /\ ~obj'[o].manual
    PROVE  HomesSettled'
<1>1. \A s \in Sessions : /\ home'[s] \in {home[s], NoAddr}
                          /\ home'[s] # NoAddr => home'[s] \notin addrs
  BY DEF Unstick
<1>2. \A s \in Sessions, o \in pool : home'[s] # NoAddr /\ home'[s] = Addr(o) /\ Routable(o) =>
         o \in pool' /\ obj'[o].addr = obj[o].addr /\ obj'[o].healthy /\ ~obj'[o].manual
  BY <1>1
<1>3. \A s \in Sessions, w \in sweeps' : home'[s] # NoAddr =>
         obj'[w.obj].addr # home'[s] /\ s \notin w.keys
  BY <1>1 DEF HomesSettled, Settled, Addr
<1> QED  BY <1>1, <1>2, <1>3, HomesKept

\* Backends that are used have their address for good.
LEMMA UsedAreObjects ==
    ASSUME ClientInv
    PROVE  /\ \A s \in Sessions : cache[s] # NoObj => cache[s] \in Objs
           /\ \A w \in sweeps : w.obj \in Objs
  BY DEF ClientInv, ClientTypes, StickyTypes, Sweeps

LEMMA SweptElsewhere ==
    ASSUME HomesSettled
    PROVE  \A s \in Sessions, w \in sweeps : home[s] # NoAddr =>
              obj[w.obj].addr # home[s] /\ s \notin w.keys
  BY DEF HomesSettled, Settled, Addr

LEMMA HealthHomes ==
    ASSUME ClientInv, HomesSettled, NEW o \in Objs, NEW ok \in BOOLEAN,
           obj' = [obj EXCEPT ![o].healthy = ok], UNCHANGED <<pool, cache, redis, sweeps>>,
           IF ok THEN UNCHANGED home ELSE Unstick({Addr(o)})
    PROVE  HomesSettled'
<1>1. obj \in [Objs -> Backends] /\ pool \subseteq Objs
  BY DEF ClientInv, PoolInv
<1>2. PICK addrs : addrs = IF ok THEN {} ELSE {Addr(o)}
  OBVIOUS
<1>3. \A p \in Objs : obj'[p].addr = obj[p].addr /\ obj'[p].manual = obj[p].manual
                      /\ (p # o \/ ok => (obj[p].healthy => obj'[p].healthy))
  BY <1>1 DEF Backends
<1>4. \A p \in pool : Routable(p) /\ Addr(p) \notin addrs =>
         p \in pool' /\ obj'[p].addr = obj[p].addr /\ obj'[p].healthy /\ ~obj'[p].manual
  BY <1>1, <1>2, <1>3 DEF Routable
<1>5. Unstick(addrs) \/ (home' = home /\ addrs = {})
  BY <1>2
<1> QED  BY <1>3, <1>4, <1>5, UsedAreObjects, RotationHomes

LEMMA NodeHomes ==
    ASSUME ClientInv, HomesSettled, NEW a \in Addrs,
           \/ NodeStarts(a) \/ NodeDies(a) \/ RegistrationBreaks(a) \/ Spawn(a) \/ SpawnerRemove(a)
    PROVE  HomesSettled'
<1>1. CASE ~SpawnerRemove(a)
  BY <1>1, HomesSame DEF NodeStarts, NodeDies, RegistrationBreaks, Spawn, poolVars
<1>2. CASE SpawnerRemove(a)
  <2>1. /\ pool' = {o \in pool : Addr(o) # a} /\ UNCHANGED <<obj, redis, sweeps>> /\ Unstick({a})
        /\ cache' = [s \in Sessions |-> IF cache[s] # NoObj /\ Addr(cache[s]) = a THEN NoObj ELSE cache[s]]
    BY <1>2 DEF SpawnerRemove, RemoveBackend
  <2>2. \A o \in pool : Routable(o) /\ Addr(o) \notin {a} =>
              o \in pool' /\ obj'[o].addr = obj[o].addr /\ obj'[o].healthy /\ ~obj'[o].manual
    BY <2>1 DEF Routable
  <2> QED  BY <2>1, <2>2, RotationHomes
<1> QED  BY <1>1, <1>2

LEMMA RegistrationHomes ==
    ASSUME LeaseInv, ClientInv, HomesSettled, NEW r \in Regs,
           Status(r) \/ Deregister(r) \/ \E a \in Addrs : Announce(r, a)
    PROVE  HomesSettled'
<1>1. obj \in [Objs -> Backends] /\ pool \subseteq Objs
  BY DEF ClientInv, PoolInv
<1>2. CASE Status(r)
  <2>1. reg[r].obj \in Objs
    BY <1>2 DEF Status, LeaseInv, LeasesDistinct
  <2> QED  BY <1>2, <2>1, HealthHomes DEF Status, stickyVars
<1>3. CASE \E a \in Addrs : Announce(r, a)
  <2>1. PICK a \in Addrs : Announce(r, a)
    BY <1>3
  <2>2. UNCHANGED <<cache, redis, sweeps, home>>
    BY <2>1 DEF Announce, stickyVars
  <2>3. PICK o : /\ \A p \in Objs \ {o} : obj'[p] = obj[p]
                 /\ pool \subseteq pool'
                 /\ \/ o \in Known(a) /\ obj' = [obj EXCEPT ![o] = Renewed(obj[o], obj[o].epoch + 1)]
                    \/ o \in Free
    <3>1. CASE Known(a) # {}
      BY <1>1, <2>1, <3>1 DEF Announce, Known
    <3>2. CASE Known(a) = {}
      <4>1. PICK o \in Free : obj' = [obj EXCEPT ![o] = Fresh(a, TRUE)] /\ pool' = pool \cup {o}
        BY <2>1, <3>2 DEF Announce
      <4> QED  BY <1>1, <4>1 DEF Free
    <3> QED  BY <3>1, <3>2
  <2>4. CASE o \in Known(a) /\ obj' = [obj EXCEPT ![o] = Renewed(obj[o], obj[o].epoch + 1)]
    <3>1. o \in Objs /\ obj[o] \in Backends
      BY <1>1, <2>4 DEF Known
    <3>2. /\ Renewed(obj[o], obj[o].epoch + 1).addr = obj[o].addr
          /\ Renewed(obj[o], obj[o].epoch + 1).manual = obj[o].manual
          /\ Renewed(obj[o], obj[o].epoch + 1).healthy
      BY <3>1 DEF Renewed, Backends
    <3>3. obj'[o].addr = obj[o].addr /\ obj'[o].manual = obj[o].manual /\ obj'[o].healthy
      BY <1>1, <2>4, <3>1, <3>2
    <3>4. \A p \in Objs : obj'[p].addr = obj[p].addr
      BY <2>3, <3>3
    <3>5. \A p \in pool : Routable(p) /\ Addr(p) \notin {} =>
             p \in pool' /\ obj'[p].addr = obj[p].addr /\ obj'[p].healthy /\ ~obj'[p].manual
      BY <1>1, <2>3, <3>3, <3>4 DEF Routable
    <3> QED  BY <2>2, <3>4, <3>5, UsedAreObjects, RotationHomes
  <2>5. CASE o \in Free
    <3>1. o \notin pool /\ (\A s \in Sessions : cache[s] # o) /\ \A w \in sweeps : w.obj # o
      BY <2>5 DEF Free
    <3>2. \A p \in pool : Routable(p) /\ Addr(p) \notin {} =>
             p \in pool' /\ obj'[p].addr = obj[p].addr /\ obj'[p].healthy /\ ~obj'[p].manual
      BY <1>1, <2>3, <3>1 DEF Routable
    <3>3. /\ \A s \in Sessions : cache[s] # NoObj => obj'[cache[s]].addr = obj[cache[s]].addr
          /\ \A w \in sweeps : obj'[w.obj].addr = obj[w.obj].addr
      BY <2>3, <3>1, UsedAreObjects
    <3> QED  BY <2>2, <3>2, <3>3, RotationHomes
  <2> QED  BY <2>3, <2>4, <2>5
<1>4. CASE Deregister(r)
  <2>1. PICK o \in Objs : o = reg[r].obj
    BY <1>4 DEF Deregister, LeaseInv, LeasesDistinct
  <2>2. UNCHANGED <<obj, redis>>
    BY <1>4 DEF Deregister
  <2>3. CASE ~LeaseHolds(r)
    <3>1. UNCHANGED <<obj, pool, stickyVars>>
      BY <1>4, <2>2, <2>3 DEF Deregister, stickyVars
    <3> QED  BY <3>1, HomesSame
  <2>4. CASE LeaseHolds(r)
    <3>1. /\ Forget(o) /\ sweeps' = sweeps \cup {Sweep(o, TRUE)} /\ Unstick({Addr(o)})
          /\ \/ \E p \in pool : (p = o \/ obj[p] = obj[o]) /\ pool' = pool \ {p}
             \/ pool' = pool
      BY <1>4, <2>1, <2>4 DEF Deregister
    <3>2. \A p \in pool : Addr(p) # Addr(o) => p \in pool'
      BY <3>1 DEF Addr
    <3>3. \A s \in Sessions : /\ home'[s] \in {home[s], NoAddr} /\ cache'[s] \in {cache[s], NoObj}
                              /\ home'[s] # NoAddr => home'[s] # Addr(o)
      BY <3>1 DEF Unstick, Forget
    <3>4. Sweep(o, TRUE).obj = o /\ Sweep(o, TRUE).keys = {}
      BY DEF Sweep
    <3>5. \A s \in Sessions, w \in sweeps' : home'[s] # NoAddr =>
              obj'[w.obj].addr # home'[s] /\ s \notin w.keys
      BY <2>2, <3>1, <3>3, <3>4, SweptElsewhere DEF Addr
    <3>6. \A s \in Sessions, p \in pool : home'[s] # NoAddr /\ home'[s] = Addr(p) /\ Routable(p) =>
              p \in pool' /\ obj'[p].addr = obj[p].addr /\ obj'[p].healthy /\ ~obj'[p].manual
      BY <2>2, <3>2, <3>3 DEF Routable
    <3>7. /\ redis' = redis
          /\ \A s \in Sessions : cache[s] # NoObj => obj'[cache[s]].addr = obj[cache[s]].addr
          /\ \A s \in Sessions : home'[s] \in {home[s], NoAddr}
          /\ \A s \in Sessions : home'[s] # NoAddr => cache'[s] \in {cache[s], NoObj}
      BY <2>2, <3>3
    <3> QED  BY <3>5, <3>6, <3>7, HomesKept
  <2> QED  BY <2>3, <2>4
<1> QED  BY <1>2, <1>3, <1>4

LEMMA SweepHomes ==
    ASSUME ClientInv, HomesSettled, NEW w \in sweeps, SweepStarts(w) \/ SweepDeletes(w)
    PROVE  HomesSettled'
<1>1. UNCHANGED <<obj, pool, home>>
  BY DEF SweepStarts, SweepDeletes, poolVars
<1>2. w \in Sweeps
  BY DEF ClientInv, ClientTypes, StickyTypes
<1>3. CASE SweepStarts(w)
  <2>1. PICK v : v = [w EXCEPT !.step = "delete", !.keys = {s \in Sessions : redis[s] = Addr(w.obj)}]
    OBVIOUS
  <2>2. v.obj = w.obj /\ v.keys = {s \in Sessions : redis[s] = Addr(w.obj)}
    BY <1>2, <2>1 DEF Sweeps
  <2>3. sweeps' \subseteq sweeps \cup {v} /\ redis' = redis
    BY <1>3, <2>1 DEF SweepStarts
  <2>4. \A s \in Sessions : cache'[s] \in {cache[s], NoObj}
    BY <1>3 DEF SweepStarts, Forget
  <2>5. \A s \in Sessions : home[s] # NoAddr => s \notin v.keys /\ Addr(v.obj) # home[s]
    BY <2>2 DEF HomesSettled, Settled
  <2>6. \A s \in Sessions, u \in sweeps' : home'[s] # NoAddr =>
           obj'[u.obj].addr # home'[s] /\ s \notin u.keys
    BY <1>1, <2>3, <2>5 DEF HomesSettled, Settled, Addr
  <2>7. /\ \A s \in Sessions : cache[s] # NoObj => obj'[cache[s]].addr = obj[cache[s]].addr
        /\ \A s \in Sessions : home'[s] \in {home[s], NoAddr}
        /\ \A s \in Sessions : home'[s] # NoAddr => cache'[s] \in {cache[s], NoObj}
        /\ \A s \in Sessions, p \in pool : home'[s] # NoAddr /\ home'[s] = Addr(p) /\ Routable(p) =>
              p \in pool' /\ obj'[p].addr = obj[p].addr /\ obj'[p].healthy /\ ~obj'[p].manual
    BY <1>1, <2>4 DEF Routable
  <2> QED  BY <2>3, <2>6, <2>7, HomesKept
<1>4. CASE SweepDeletes(w)
  <2>1. /\ redis' = [s \in Sessions |-> IF s \in w.keys THEN NoAddr ELSE redis[s]]
        /\ sweeps' \subseteq sweeps /\ cache' = cache
    BY <1>4 DEF SweepDeletes
  <2> QED  BY <1>1, <2>1 DEF HomesSettled, Settled, Addr, Routable
<1> QED  BY <1>3, <1>4

LEMMA ControlHomes ==
    ASSUME ClientInv, HomesSettled, NEW o \in Objs,
           ProbeStarts(o) \/ ProbeEnds(o) \/ SetDown(o) \/ SetUp(o)
    PROVE  HomesSettled'
<1>1. obj \in [Objs -> Backends] /\ pool \subseteq Objs
  BY DEF ClientInv, PoolInv
<1>2. CASE ProbeStarts(o)
  BY <1>2, HomesSame DEF ProbeStarts
<1>3. CASE ProbeEnds(o)
  <2>1. PICK ok \in BOOLEAN : /\ obj' = [obj EXCEPT ![o].healthy = ok]
                              /\ IF ok THEN UNCHANGED home ELSE Unstick({Addr(o)})
    BY <1>3 DEF ProbeEnds
  <2>2. UNCHANGED <<pool, cache, redis, sweeps>>
    BY <1>3 DEF ProbeEnds
  <2> QED  BY <2>1, <2>2, HealthHomes
<1>4. CASE SetDown(o)
  <2>1. /\ obj' = [obj EXCEPT ![o].manual = TRUE] /\ UNCHANGED <<pool, redis>>
        /\ Forget(o) /\ sweeps' = sweeps \cup {Sweep(o, FALSE)} /\ Unstick({Addr(o)})
    BY <1>4 DEF SetDown
  <2>2. \A p \in Objs : /\ obj'[p].addr = obj[p].addr
                        /\ p # o => obj'[p] = obj[p]
    BY <1>1, <2>1 DEF Backends
  <2>3. \A s \in Sessions : /\ home'[s] \in {home[s], NoAddr} /\ cache'[s] \in {cache[s], NoObj}
                            /\ home'[s] # NoAddr => home'[s] # Addr(o)
    BY <2>1 DEF Unstick, Forget
  <2>4. Sweep(o, FALSE).obj = o /\ Sweep(o, FALSE).keys = {}
    BY DEF Sweep
  <2>5. \A s \in Sessions, w \in sweeps' : home'[s] # NoAddr =>
           obj'[w.obj].addr # home'[s] /\ s \notin w.keys
    <3>1. \A w \in sweeps' : w \in sweeps \/ (w.obj = o /\ w.keys = {})
      BY <2>1, <2>4
    <3>2. \A w \in sweeps' : obj'[w.obj].addr = obj[w.obj].addr
      BY <2>2, <3>1, UsedAreObjects
    <3> QED  BY <2>3, <3>1, <3>2, SweptElsewhere DEF Addr
  <2>6. \A s \in Sessions, p \in pool : home'[s] # NoAddr /\ home'[s] = Addr(p) /\ Routable(p) =>
           p \in pool' /\ obj'[p].addr = obj[p].addr /\ obj'[p].healthy /\ ~obj'[p].manual
    BY <1>1, <2>1, <2>2, <2>3 DEF Routable
  <2>7. /\ redis' = redis
        /\ \A s \in Sessions : cache[s] # NoObj => obj'[cache[s]].addr = obj[cache[s]].addr
        /\ \A s \in Sessions : home'[s] \in {home[s], NoAddr}
        /\ \A s \in Sessions : home'[s] # NoAddr => cache'[s] \in {cache[s], NoObj}
    BY <2>1, <2>2, <2>3, UsedAreObjects
  <2> QED  BY <2>5, <2>6, <2>7, HomesKept
<1>5. CASE SetUp(o)
  <2>1. obj' = [obj EXCEPT ![o].manual = FALSE] /\ UNCHANGED <<pool, cache, redis, sweeps, home>>
    BY <1>5 DEF SetUp, stickyVars
  <2>2. \A p \in Objs : /\ obj'[p].addr = obj[p].addr /\ obj'[p].healthy = obj[p].healthy
                        /\ p # o => obj'[p] = obj[p]
                        /\ ~obj[p].manual => ~obj'[p].manual
    BY <1>1, <2>1 DEF Backends
  <2>3. \A p \in pool : Routable(p) /\ Addr(p) \notin {} =>
             p \in pool' /\ obj'[p].addr = obj[p].addr /\ obj'[p].healthy /\ ~obj'[p].manual
    BY <1>1, <2>1, <2>2 DEF Routable
  <2> QED  BY <2>1, <2>2, <2>3, UsedAreObjects, RotationHomes
<1> QED  BY <1>2, <1>3, <1>4, <1>5

\* A balancer that starts again has each of its static backends in rotation.
LEMMA StaticInRotation ==
    \A a \in Static : \E o \in Range(StaticObj) :
        StaticObjs[o].addr = a /\ StaticObjs[o].healthy /\ ~StaticObjs[o].manual
<1> SUFFICES ASSUME NEW a \in Static
             PROVE  \E o \in Range(StaticObj) :
                       StaticObjs[o].addr = a /\ StaticObjs[o].healthy /\ ~StaticObjs[o].manual
  OBVIOUS
<1>1. StaticObj \in Injection(Static, Objs)
  BY ObjectsAssumption DEF StaticObj
<1>2. StaticObj \in [Static -> Objs] /\ \A b \in Static : StaticObj[b] = StaticObj[a] => b = a
  BY <1>1 DEF Injection, IsInjective
<1>3. PICK o \in Objs : o = StaticObj[a] /\ o \in Range(StaticObj)
  BY <1>2 DEF Range
<1>4. (CHOOSE b \in Static : StaticObj[b] = o) = a
  BY <1>2, <1>3
<1>5. StaticObjs[o] = Fresh(a, FALSE)
  BY <1>3, <1>4 DEF StaticObjs
<1> QED  BY <1>3, <1>5 DEF Fresh

LEMMA RestartHomes ==
    ASSUME ClientInv, HomesSettled, Restart
    PROVE  HomesSettled'
<1>1. /\ obj' = StaticObjs /\ pool' = Range(StaticObj) /\ sweeps' = {} /\ redis' = redis
      /\ cache' = [s \in Sessions |-> NoObj]
      /\ home' = [s \in Sessions |-> IF home[s] \in Static THEN home[s] ELSE NoAddr]
  BY DEF Restart
<1>2. ASSUME NEW s \in Sessions, home'[s] # NoAddr
      PROVE  /\ redis'[s] = home'[s] /\ cache'[s] = NoObj
             /\ \E o \in pool' : obj'[o].addr = home'[s] /\ obj'[o].healthy /\ ~obj'[o].manual
  <2>1. home'[s] = home[s] /\ home[s] \in Static
    BY <1>1, <1>2
  <2>2. redis'[s] = home'[s] /\ cache'[s] = NoObj
    BY <1>1, <1>2, <2>1 DEF HomesSettled, Settled
  <2> QED  BY <1>1, <2>1, <2>2, StaticInRotation
<1> QED  BY <1>1, <1>2 DEF HomesSettled, Settled, Addr, Routable

\* A backend that answers or is found for a session: the session is stuck to it
\* still, or to nothing.
LEMMA CacheHomes ==
    ASSUME ClientInv, HomesSettled, NEW s \in Sessions, NEW o \in Objs,
           UNCHANGED <<obj, pool, redis, sweeps>>, cache' = [cache EXCEPT ![s] = o],
           home' = IF home[s] = Addr(o) THEN home ELSE [home EXCEPT ![s] = NoAddr]
    PROVE  HomesSettled'
<1>1. ASSUME NEW q \in Sessions, home'[q] # NoAddr
      PROVE  /\ home'[q] = home[q]
             /\ cache'[q] # NoObj => obj[cache'[q]].addr = home[q]
  <2>1. home'[q] = home[q] /\ (q = s => home[q] = Addr(o))
    BY <1>1 DEF ClientInv, ClientTypes, StickyTypes
  <2>2. cache'[q] = IF q = s THEN o ELSE cache[q]
    BY DEF ClientInv, ClientTypes, StickyTypes
  <2>3. cache[q] # NoObj => obj[cache[q]].addr = home[q]
    BY <1>1, <2>1 DEF HomesSettled, Settled, Addr
  <2> QED  BY <2>1, <2>2, <2>3 DEF Addr
<1> QED  BY <1>1 DEF HomesSettled, Settled, Addr, Routable

LEMMA SetStickyHomes ==
    ASSUME ClientInv, HomesSettled, NEW k \in Clients, SetSticky(k)
    PROVE  HomesSettled'
<1>1. PICK s \in Sessions, o \in Objs : s = client[k].sid /\ o = client[k].obj
  BY DEF SetSticky, ClientInv, ClientTypes, StickyTypes, Served, Conns
<1>2. /\ redis' = [redis EXCEPT ![s] = Addr(o)] /\ UNCHANGED <<obj, pool, cache, sweeps>>
      /\ home' = [home EXCEPT ![s] =
                    IF /\ cache[s] = o /\ o \in pool /\ Routable(o)
                       /\ \A w \in sweeps : Addr(w.obj) # Addr(o) /\ s \notin w.keys
                    THEN Addr(o) ELSE NoAddr]
  BY <1>1 DEF SetSticky, Stored, poolVars
<1>3. redis \in [Sessions -> Addrs \cup {NoAddr}] /\ home \in [Sessions -> Addrs \cup {NoAddr}]
  BY DEF ClientInv, ClientTypes, StickyTypes
<1>4. ASSUME NEW q \in Sessions, home'[q] # NoAddr
      PROVE  /\ redis'[q] = home'[q]
             /\ cache[q] # NoObj => Addr(cache[q]) = home'[q]
             /\ \E p \in pool : Addr(p) = home'[q] /\ Routable(p)
             /\ \A w \in sweeps : Addr(w.obj) # home'[q] /\ q \notin w.keys
  <2>1. CASE q = s
    <3>1. /\ cache[s] = o /\ o \in pool /\ Routable(o)
          /\ \A w \in sweeps : Addr(w.obj) # Addr(o) /\ s \notin w.keys
          /\ home'[s] = Addr(o) /\ redis'[s] = Addr(o)
      BY <1>2, <1>3, <1>4, <2>1
    <3> QED  BY <2>1, <3>1
  <2>2. CASE q # s
    <3>1. home'[q] = home[q] /\ redis'[q] = redis[q] /\ Settled(q)
      BY <1>2, <1>3, <1>4, <2>2 DEF HomesSettled
    <3> QED  BY <3>1 DEF Settled
  <2> QED  BY <2>1, <2>2
<1> QED  BY <1>2, <1>4 DEF HomesSettled, Settled, Addr, Routable

LEMMA ClientStepHomes ==
    ASSUME ClientInv, HomesSettled, NEW k \in Clients, ClientStep(k)
    PROVE  HomesSettled'
<1>1. CASE (\E s \in Sessions \cup {NoSession} : Arrive(k, s)) \/ AfterError(k) \/ RelayEnds(k) \/ Close(k)
  BY <1>1, HomesSame DEF Arrive, AfterError, RelayEnds, Close, poolVars
<1>2. CASE PickAnswered(k)
  <2>1. UNCHANGED <<obj, pool, redis, sweeps>>
    BY <1>2 DEF PickAnswered, poolVars
  <2>2. CASE UNCHANGED <<cache, home>>
    BY <2>1, <2>2, HomesSame DEF stickyVars
  <2>3. CASE ~UNCHANGED <<cache, home>>
    <3>1. PICK s \in Sessions : s = client[k].sid
      BY <1>2, PickAnsweredTypes
    <3>2. PICK o \in pool : /\ cache' = [cache EXCEPT ![s] = o]
                            /\ home' = IF home[s] = Addr(o) THEN home ELSE [home EXCEPT ![s] = NoAddr]
      BY <1>2, <2>3, <3>1, PickAnsweredTypes
    <3>3. o \in Objs
      BY DEF ClientInv, PoolInv
    <3> QED  BY <2>1, <3>2, <3>3, CacheHomes
  <2> QED  BY <2>2, <2>3
<1>3. CASE Open(k)
  <2>1. PICK o \in Objs : o = client[k].obj
    BY <1>3, OpenTypes
  <2>2. UNCHANGED <<pool, cache, redis, sweeps>>
    BY <1>3 DEF Open
  <2>3. \/ UNCHANGED <<obj, home>>
        \/ obj' = [obj EXCEPT ![o].healthy = FALSE] /\ Unstick({Addr(o)})
    BY <1>3, <2>1 DEF Open
  <2>4. CASE UNCHANGED <<obj, home>>
    BY <2>2, <2>4, HomesSame DEF stickyVars
  <2>5. CASE obj' = [obj EXCEPT ![o].healthy = FALSE] /\ Unstick({Addr(o)})
    BY <2>2, <2>5, HealthHomes
  <2> QED  BY <2>3, <2>4, <2>5
<1>4. CASE Ack(k)
  <2>1. UNCHANGED <<obj, pool, redis, sweeps>>
    BY <1>4 DEF Ack, poolVars
  <2>2. PICK o \in Objs : o = client[k].obj
    BY <1>4, AckTypes
  <2>3. \/ UNCHANGED <<cache, home>>
        \/ \E s \in Sessions :
              /\ cache' = [cache EXCEPT ![s] = o]
              /\ home' = IF home[s] = Addr(o) THEN home ELSE [home EXCEPT ![s] = NoAddr]
    BY <1>4, <2>2 DEF Ack
  <2>4. CASE UNCHANGED <<cache, home>>
    BY <2>1, <2>4, HomesSame DEF stickyVars
  <2> QED  BY <2>1, <2>3, <2>4, CacheHomes
<1> QED  BY <1>1, <1>2, <1>3, <1>4, SetStickyHomes DEF ClientStep

\* Only an arrival asks Redis about a session that is to be kept.
LEMMA ClientStepAnswers ==
    ASSUME ClientInv, HomeInv, NEW k \in Clients, ClientStep(k)
    PROVE  AnswersKnow'
<1>1. \A j \in Clients \ {k} : client'[j] = client[j]
  BY OnlyThisOne
<1>2. client'[k].stage = "redis" /\ client'[k].want # NoAddr
      => client'[k].tried = {} /\ client'[k].val = client'[k].want
  <2>1. client \in [Clients -> Conns]
    BY DEF ClientInv, ClientTypes, StickyTypes
  <2>2. ASSUME NEW s \in Sessions \cup {NoSession}, Arrive(k, s)  PROVE <1>2
    <3>1. PICK c, d : /\ c \in Conns /\ c.tried = {} /\ c.sid = s /\ Chosen(k, c, d)
                      /\ c.want = IF s = NoSession THEN NoAddr ELSE home[s]
      BY <2>2, ArriveTypes
    <3>2. client'[k] = d /\ d.tried = {} /\ d.want = c.want /\ d.sid = s
          /\ (d.stage = "redis" => d.val = redis[d.sid])
      BY <2>1, <3>1 DEF Chosen
    <3>3. CASE d.stage = "redis" /\ d.want # NoAddr
      <4>1. s \in Sessions /\ home[s] # NoAddr /\ d.want = home[s] /\ d.val = redis[s]
        BY <3>1, <3>2, <3>3
      <4> QED  BY <3>2, <4>1 DEF HomeInv, HomesSettled, Settled
    <3> QED  BY <3>2, <3>3
  <2>3. CASE PickAnswered(k)
    BY <2>1, <2>3, PickAnsweredTypes DEF Chosen
  <2>4. CASE Open(k)
    BY <2>1, <2>4, OpenTypes DEF Chosen, Moves
  <2>5. CASE AfterError(k)
    BY <2>1, <2>5, AfterErrorTypes DEF Chosen, Moves
  <2>6. CASE Ack(k)
    BY <2>1, <2>6, AckTypes, StartRelayTypes DEF Moves
  <2>7. CASE SetSticky(k)
    BY <2>1, <2>7, StartRelayTypes DEF Moves, SetSticky
  <2>8. CASE RelayEnds(k)
    BY <2>1, <2>8, StageMoves DEF Moves, RelayEnds
  <2>9. CASE Close(k)
    BY <2>1, <2>9, GoneShape DEF Close
  <2> QED  BY <2>2, <2>3, <2>4, <2>5, <2>6, <2>7, <2>8, <2>9 DEF ClientStep
<1> QED  BY <1>1, <1>2 DEF HomeInv, AnswersKnow

LEMMA NextHomes ==
    ASSUME LeaseInv, ClientInv, HomeInv, [Next]_vars
    PROVE  HomeInv'
<1>1. HomesSettled'
  <2> HomesSettled
    BY DEF HomeInv
  <2>1. CASE ClearClients \/ \E o \in Objs : CancelRelays(o)
    BY <2>1, HomesSame DEF ClearClients, CancelRelays, poolVars
  <2>2. CASE UNCHANGED vars
    BY <2>2, HomesSame DEF vars, poolVars
  <2> QED  BY <2>1, <2>2, NodeHomes, RegistrationHomes, SweepHomes, ControlHomes, RestartHomes,
           ClientStepHomes DEF Next, ClientStep
<1>2. AnswersKnow'
  <2> AnswersKnow
    BY DEF HomeInv
  <2>1. CASE PoolStep
    BY <2>1, PoolStepTypes DEF AnswersKnow
  <2>2. CASE ClearClients
    BY <2>2 DEF ClearClients, AnswersKnow
  <2>3. CASE Restart
    BY <2>3, GoneShape DEF Restart, AnswersKnow
  <2>4. ASSUME NEW o \in Objs, CancelRelays(o)  PROVE AnswersKnow'
    BY <2>4, CancelShape DEF AnswersKnow
  <2> QED  BY <2>1, <2>2, <2>3, <2>4, ClientStepAnswers DEF Next, PoolStep, ClientStep
<1> QED  BY <1>1, <1>2 DEF HomeInv

\* A session that names itself is sent to what the cache holds, or Redis is asked.
LEMMA PickKnown ==
    ASSUME ClientInv, NEW k \in Clients, NEW c \in Conns, c.sid # NoSession, c.tried = {},
           Pick(k, c, obj)
    PROVE  \E d : /\ Chosen(k, c, d)
                  /\ d.stage = "redis" \/ (d.stage = "open" /\ d.obj = cache[c.sid] /\ d.obj # NoObj)
<1>1. PICK d : Chosen(k, c, d)
  BY PickShape
<1>2. client'[k] = d
  BY <1>1 DEF Chosen, ClientInv, ClientTypes, StickyTypes
<1>3. ~IsIn(cache[c.sid], c.tried)
  BY DEF IsIn
<1>4. CASE cache[c.sid] # NoObj /\ Choose(k, c, cache[c.sid])
  <2>1. PICK o \in Objs : o = cache[c.sid]
    BY <1>4 DEF ClientInv, ClientTypes, StickyTypes, Conns
  <2> QED  BY <1>4, <2>1, ChooseShape
<1>5. CASE client' = [client EXCEPT ![k] = [c EXCEPT !.stage = "redis", !.val = redis[c.sid]]]
  <2>1. PICK e : e = [c EXCEPT !.stage = "redis", !.val = redis[c.sid]]
    OBVIOUS
  <2>2. e.stage = "redis"
    BY <2>1 DEF Conns
  <2>3. d = e
    BY <1>2, <1>5, <2>1 DEF ClientInv, ClientTypes, StickyTypes
  <2> QED  BY <1>1, <2>2, <2>3
<1> QED  BY <1>3, <1>4, <1>5 DEF Pick

LEMMA StepSticks ==
    ASSUME LeaseInv, ClientInv, HomeInv, [Next]_vars, NEW k \in Clients,
           client[k].stage \in {"new", "redis"}, client'[k].stage \in {"open", "told"},
           client'[k].want # NoAddr, client'[k].want = home[client'[k].sid]
    PROVE  client'[k].stage = "open" /\ obj'[client'[k].obj].addr = client'[k].want
<1>1. client \in [Clients -> Conns]
  BY DEF ClientInv, ClientTypes, StickyTypes
<1>2. PICK s \in Sessions \cup {NoSession} : Arrive(k, s) \/ PickAnswered(k)
  <2>1. CASE PoolStep
    BY <2>1, PoolStepTypes
  <2>2. CASE ClearClients
    BY <2>2 DEF ClearClients
  <2>3. CASE Restart
    BY <2>3, GoneShape DEF Restart
  <2>4. ASSUME NEW o \in Objs, CancelRelays(o)  PROVE FALSE
    BY <2>4, CancelShape
  <2>5. ASSUME NEW j \in Clients, ClientStep(j)
        PROVE  \E s \in Sessions \cup {NoSession} : Arrive(k, s) \/ PickAnswered(k)
    <3>1. j = k
      BY <2>5, OnlyThisOne
    <3> QED  BY <2>5, <3>1 DEF ClientStep, Open, AfterError, Ack, SetSticky, RelayEnds, Close
  <2> QED  BY <2>1, <2>2, <2>3, <2>4, <2>5 DEF Next, PoolStep, ClientStep
<1>3. CASE Arrive(k, s)
  <2>1. PICK c, d : /\ c \in Conns /\ c.tried = {} /\ c.sid = s /\ Chosen(k, c, d) /\ Pick(k, c, obj)
                    /\ c.want = IF s = NoSession THEN NoAddr ELSE home[s]
    BY <1>3, ArriveTypes
  <2>2. client'[k] = d /\ d.sid = s /\ d.want = c.want
    BY <1>1, <2>1 DEF Chosen
  <2>3. s \in Sessions /\ home[s] # NoAddr /\ d.want = home[s]
    BY <2>1, <2>2
  <2>4. PICK e : /\ Chosen(k, c, e)
                 /\ e.stage = "redis" \/ (e.stage = "open" /\ e.obj = cache[s] /\ e.obj # NoObj)
    BY <2>1, <2>3, BalancerAssumption, PickKnown
  <2>5. e = d
    BY <1>1, <2>2, <2>4 DEF Chosen
  <2>6. d.stage = "open" /\ d.obj = cache[s] /\ Addr(cache[s]) = home[s]
    BY <2>2, <2>3, <2>4, <2>5 DEF HomeInv, HomesSettled, Settled
  <2>7. obj' = obj
    BY <1>3 DEF Arrive, poolVars
  <2> QED  BY <2>2, <2>3, <2>6, <2>7 DEF Addr
<1>4. CASE PickAnswered(k)
  <2>1. PICK c \in Conns : c = client[k] /\ c.stage = "redis" /\ c.sid \in Sessions
    BY <1>4, PickAnsweredTypes
  <2>2. \A d : Chosen(k, c, d) => client'[k] = d /\ d.want = c.want /\ d.sid = c.sid
    BY <1>1 DEF Chosen
  <2>3. c.want # NoAddr /\ c.want = home[c.sid]
    BY <1>4, <2>1, <2>2, PickAnsweredTypes
  <2>4. c.tried = {} /\ c.val = c.want
    BY <2>1, <2>3 DEF HomeInv, AnswersKnow
  <2>5. \E o \in pool : Addr(o) = c.val /\ Routable(o)
    BY <2>1, <2>3, <2>4 DEF HomeInv, HomesSettled, Settled
  <2>6. PICK o \in pool : \E d : /\ Addr(o) = c.val /\ Chosen(k, c, d)
                                 /\ ~IsIn(o, c.tried) => d.stage = "open" /\ d.obj = o
    BY <1>4, <2>1, <2>5, PickAnsweredTypes
  <2>7. ~IsIn(o, c.tried)
    BY <2>4 DEF IsIn
  <2>8. obj' = obj
    BY <1>4 DEF PickAnswered, poolVars
  <2> QED  BY <2>2, <2>4, <2>6, <2>7, <2>8 DEF Addr
<1> QED  BY <1>2, <1>3, <1>4

\* A session that names itself goes to the backend it is stuck to as long as that
\* one stays in rotation, also after a restart of the balancer (_pick_backend with
\* the cache, with the answer of Redis, and with what sweeps delete).
THEOREM SessionsStick == Spec => StickyWhileUp
<1>1. Init => LeaseInv /\ ClientInv /\ HomeInv
  BY InitClients, InitLeases, NoConnType DEF Init, HomeInv, HomesSettled, AnswersKnow
<1>2. LeaseInv /\ ClientInv /\ HomeInv /\ [Next]_vars => (LeaseInv /\ ClientInv /\ HomeInv)'
  BY NextLeases, NextClients, NextHomes DEF LeaseInv
<1>3. LeaseInv /\ ClientInv /\ HomeInv /\ [Next]_vars =>
         [\A k \in Clients : LET c == client'[k] IN
            /\ client[k].stage \in {"new", "redis"} /\ c.stage \in {"open", "told"}
            /\ c.want # NoAddr /\ c.want = home[c.sid]
            => c.stage = "open" /\ obj'[c.obj].addr = c.want]_vars
  BY StepSticks
<1> QED  BY <1>1, <1>2, <1>3, PTL DEF Spec, StickyWhileUp
=============================================================================
