------------------------------ MODULE Balancer ------------------------------
(***************************************************************************)
(* ingress/lb.py with the node's registration loop and the spawner of      *)
(* admin_server.py: the pool of backends, the registrations, the probes,   *)
(* the admin's controls, and the way of a client connection from its first *)
(* frame to the relay.                                                     *)
(*                                                                         *)
(* A backend is an object with an identity: Python compares two of them by *)
(* all their fields, a dict finds them by address.  Round robin is any     *)
(* routable backend.  The client table keeps what tells a live connection  *)
(* from a stale one; Redis answers.                                        *)
(***************************************************************************)
EXTENDS Integers, FiniteSets, Functions

CONSTANTS Addrs,       \* addresses of nodes
          Static,      \* those given as --backend
          Registering, \* those whose nodes register
          Objs,        \* identities of Backend objects
          Regs,        \* registration connections
          Clients,     \* client connections, each made once
          Sessions,
          NoObj, NoAddr, NoReg, NoSession, NoEntry,
          MaxEvents    \* failures, admin requests and arrivals of clients

ASSUME BalancerAssumption ==
    /\ Static \subseteq Addrs /\ Registering \subseteq Addrs
    /\ NoObj \notin Objs /\ NoAddr \notin Addrs /\ NoReg \notin Regs
    /\ NoSession \notin Sessions \cup Clients /\ MaxEvents \in Nat
    /\ NoEntry \notin [conn : Clients, active : BOOLEAN]

\* There is an object for each --backend.
ASSUME ObjectsAssumption == Injection(Static, Objs) # {}

VARIABLES alive,    \* addresses at which a node runs
          nodeReg,  \* [Addrs -> the node's end of its registration]
          reg,      \* [Regs -> the balancer's end]
          obj,      \* [Objs -> fields of the Backend]
          pool,     \* _backends
          probe,    \* [Objs -> none, or was_healthy of the probe under way]
          cache,    \* _sticky_cache
          redis,    \* [Sessions -> address under ct:sticky:<session>]
          sweeps,   \* calls of _redis_delete_sticky_for_backend under way
          cancels,  \* calls of _cancel_relay_tasks that the loop is to make
          relays,   \* _active_relays: [Objs -> set of clients], {} for no entry
          client,   \* [Clients -> state of _handle_client]
          table,    \* _clients: [session or peer -> connection_id and active]
          procs,    \* NodeSpawner._procs
          events,
          removed,  \* history: addresses an admin has removed
          home,     \* history: [Sessions -> address it is stuck to, undisturbed]
          doomed,   \* history: relays on a backend when it failed or was taken down
          late      \* history: relays begun on a backend that had not come back for good

nodeVars == <<alive, nodeReg, procs>>
poolVars == <<reg, obj, pool, probe>>
stickyVars == <<cache, redis, sweeps, home>>
clientVars == <<client, relays, cancels, table, doomed, late>>
bounds == <<events, removed>>
vars == <<nodeVars, poolVars, stickyVars, clientVars, bounds>>

Addr(o) == obj[o].addr
Routable(o) == obj[o].healthy /\ ~obj[o].manual
IsIn(o, s) == \E p \in s : p = o \/ obj[p] = obj[o]

NoConn == [stage |-> "new", sid |-> NoSession, key |-> NoSession, obj |-> NoObj,
           tried |-> {}, val |-> NoAddr, want |-> NoAddr]
Gone(k) == [NoConn EXCEPT !.stage = IF client[k].stage = "new" THEN "new" ELSE "done"]
NoLease == [open |-> FALSE, obj |-> NoObj, epoch |-> 0]
Fresh(a, dynamic) == [addr |-> a, healthy |-> TRUE, dynamic |-> dynamic,
                      manual |-> FALSE, epoch |-> IF dynamic THEN 1 ELSE 0]
Unused == [addr |-> NoAddr, healthy |-> FALSE, dynamic |-> FALSE, manual |-> FALSE, epoch |-> 0]

\* The constructor: one object for each --backend.
StaticObj == CHOOSE f \in Injection(Static, Objs) : TRUE
StaticObjs == [o \in Objs |-> IF o \in Range(StaticObj)
                              THEN Fresh(CHOOSE a \in Static : StaticObj[a] = o, FALSE)
                              ELSE Unused]

Init ==
    /\ alive \in {Static, Addrs} /\ nodeReg = [a \in Addrs |-> NoReg] /\ procs = {}
    /\ obj = StaticObjs /\ pool = Range(StaticObj)
    /\ reg = [r \in Regs |-> NoLease] /\ probe = [o \in Objs |-> "none"]
    /\ cache = [s \in Sessions |-> NoObj] /\ redis = [s \in Sessions |-> NoAddr]
    /\ sweeps = {} /\ cancels = {} /\ relays = [o \in Objs |-> {}]
    /\ client = [k \in Clients |-> NoConn]
    /\ table = [k \in Sessions \cup Clients |-> NoEntry]
    /\ events = 0 /\ removed = {} /\ doomed = {} /\ late = {}
    /\ home = [s \in Sessions |-> NoAddr]

\* Objects that nothing refers to any more may be made again.
Free == {o \in Objs \ (pool \cup cancels) :
    /\ \A r \in Regs : reg[r].obj # o
    /\ \A s \in Sessions : cache[s] # o
    /\ \A k \in Clients : client[k].obj # o /\ o \notin client[k].tried
    /\ \A w \in sweeps : w.obj # o
    /\ probe[o] = "none" /\ relays[o] = {}}

Event == events < MaxEvents /\ events' = events + 1

\* History: a backend is out of rotation; who relays on it is to be cut.
Unstick(addrs) == home' = [s \in Sessions |-> IF home[s] \in addrs THEN NoAddr ELSE home[s]]
RelaysOn(o) == {k \in Clients : client[k].stage = "relay" /\ client[k].obj = o}

----------------------------------------------------------------------------
\* Nodes

NodeStarts(a) ==
    /\ a \notin alive
    /\ alive' = alive \cup {a}
    /\ UNCHANGED <<nodeReg, procs, poolVars, stickyVars, clientVars, bounds>>

\* Its sockets end; the balancer finds out one by one.
NodeDies(a) ==
    /\ a \in alive /\ Event
    /\ alive' = alive \ {a}
    /\ nodeReg' = [nodeReg EXCEPT ![a] = NoReg]
    /\ UNCHANGED <<procs, poolVars, stickyVars, clientVars, removed>>

\* The connection breaks; the node dials again, the balancer sees the end later.
RegistrationBreaks(a) ==
    /\ nodeReg[a] # NoReg /\ Event
    /\ nodeReg' = [nodeReg EXCEPT ![a] = NoReg]
    /\ UNCHANGED <<alive, procs, poolVars, stickyVars, clientVars, removed>>

\* NodeSpawner.add and remove: the process is told to terminate, its backend is
\* out of the pool at once.
Spawn(a) ==
    /\ a \notin alive \cup procs \cup Static
    /\ alive' = alive \cup {a} /\ procs' = procs \cup {a}
    /\ UNCHANGED <<nodeReg, poolVars, stickyVars, clientVars, bounds>>

RemoveBackend(a) ==
    /\ pool' = {o \in pool : Addr(o) # a}
    /\ cache' = [s \in Sessions |-> IF cache[s] # NoObj /\ Addr(cache[s]) = a THEN NoObj ELSE cache[s]]

SpawnerRemove(a) ==
    /\ a \in procs /\ Event
    /\ procs' = procs \ {a} /\ RemoveBackend(a)
    /\ removed' = removed \cup {a} /\ Unstick({a})
    /\ UNCHANGED <<alive, nodeReg, reg, obj, probe, redis, sweeps, clientVars>>

----------------------------------------------------------------------------
\* Registration

\* Faulty variant: every announcement makes a new backend.
AlwaysNew(a) == {}
Known(a) == {o \in pool : Addr(o) = a}

\* The backend an address has takes its node's new registration.
Renewed(b, e) == [b EXCEPT !.healthy = TRUE, !.dynamic = TRUE, !.epoch = e]

Announce(r, a) ==
    LET Lease(o, e) == reg' = [reg EXCEPT ![r] = [open |-> TRUE, obj |-> o, epoch |-> e]] IN
    /\ a \in alive \cap Registering /\ nodeReg[a] = NoReg /\ ~reg[r].open
    /\ nodeReg' = [nodeReg EXCEPT ![a] = r]
    /\ \/ \E o \in Known(a) :
            /\ obj' = [obj EXCEPT ![o] = Renewed(obj[o], obj[o].epoch + 1)]
            /\ Lease(o, obj[o].epoch + 1) /\ UNCHANGED pool
       \/ /\ Known(a) = {} /\ Free # {}
          /\ LET o == CHOOSE o \in Free : TRUE IN
             obj' = [obj EXCEPT ![o] = Fresh(a, TRUE)] /\ Lease(o, 1) /\ pool' = pool \cup {o}
    /\ UNCHANGED <<alive, procs, probe, stickyVars, clientVars, bounds>>

\* NODE_STATUS
Status(r) ==
    LET o == reg[r].obj IN
    /\ reg[r].open /\ nodeReg[Addr(o)] = r /\ ~obj[o].healthy
    /\ obj' = [obj EXCEPT ![o].healthy = TRUE]
    /\ UNCHANGED <<nodeVars, reg, pool, probe, stickyVars, clientVars, bounds>>

Forget(o) == cache' = [s \in Sessions |-> IF cache[s] = o THEN NoObj ELSE cache[s]]
Sweep(o, cut) == [obj |-> o, step |-> "start", keys |-> {}, cut |-> cut]

\* Faulty variant: a late end of an older connection counts.
AnyLease(r) == TRUE
LeaseHolds(r) == reg[r].epoch = obj[reg[r].obj].epoch

\* The balancer sees the end of a registration connection.
Deregister(r) ==
    LET o == reg[r].obj IN
    /\ reg[r].open /\ \A a \in Addrs : nodeReg[a] # r
    /\ reg' = [reg EXCEPT ![r] = NoLease]
    /\ \/ ~LeaseHolds(r) /\ UNCHANGED <<pool, cache, sweeps, home, doomed>>
       \/ /\ LeaseHolds(r)
          /\ \/ \E p \in pool : (p = o \/ obj[p] = obj[o]) /\ pool' = pool \ {p}
             \/ ~IsIn(o, pool) /\ UNCHANGED pool
          /\ Forget(o) /\ sweeps' = sweeps \cup {Sweep(o, TRUE)}
          /\ Unstick({Addr(o)})
          /\ doomed' = doomed \cup RelaysOn(o)
    /\ UNCHANGED <<nodeVars, obj, probe, redis, client, relays, cancels, table, late, bounds>>

\* _redis_delete_sticky_for_backend: collect the keys, delete them, and after a
\* deregistration have the relays cancelled.
SweepStarts(w) ==
    /\ w.step = "start"
    /\ IF w.cut THEN UNCHANGED cache ELSE Forget(w.obj)
    /\ sweeps' = (sweeps \ {w}) \cup
         {[w EXCEPT !.step = "delete", !.keys = {s \in Sessions : redis[s] = Addr(w.obj)}]}
    /\ UNCHANGED <<nodeVars, poolVars, redis, home, clientVars, bounds>>
SweepDeletes(w) ==
    /\ w.step = "delete"
    /\ redis' = [s \in Sessions |-> IF s \in w.keys THEN NoAddr ELSE redis[s]]
    /\ sweeps' = sweeps \ {w}
    /\ cancels' = IF w.cut THEN cancels \cup {w.obj} ELSE cancels
    /\ UNCHANGED <<nodeVars, poolVars, cache, home, client, relays, table, doomed, late, bounds>>

----------------------------------------------------------------------------
\* Health checks and the admin's controls

\* Probes of different backends have nothing in common: one at a time is enough.
ProbeStarts(o) ==
    /\ o \in pool /\ \A p \in Objs : probe[p] = "none"
    /\ probe' = [probe EXCEPT ![o] = IF obj[o].healthy THEN "healthy" ELSE "unhealthy"]
    /\ UNCHANGED <<nodeVars, reg, obj, pool, stickyVars, clientVars, bounds>>

\* Faulty variant: the relays are cut when the probe began on a failed backend.
CutIfItWasDown(o) == IF probe[o] = "unhealthy" THEN cancels \cup {o} ELSE cancels
\* The failure is news to a probe that began while the backend was healthy.
CutIfItWasUp(o) == IF probe[o] = "healthy" THEN cancels \cup {o} ELSE cancels

\* A node that runs may be too slow to answer in time.
ProbeEnds(o) == \E ok \in BOOLEAN :
    /\ probe[o] # "none"
    /\ IF ok THEN Addr(o) \in alive /\ UNCHANGED events
       ELSE IF Addr(o) \in alive THEN Event ELSE UNCHANGED events
    /\ probe' = [probe EXCEPT ![o] = "none"]
    /\ obj' = [obj EXCEPT ![o].healthy = ok]
    /\ IF ok THEN UNCHANGED <<home, cancels, doomed>>
       ELSE /\ Unstick({Addr(o)}) /\ cancels' = CutIfItWasUp(o)
            /\ doomed' = doomed \cup (RelaysOn(o) \ late)
    /\ UNCHANGED <<nodeVars, reg, pool, cache, redis, sweeps, client, relays, table, late, removed>>

\* Faulty variant: routing stops, the clients that are there stay.
NothingCut(o) == cancels
CutOnDown(o) == cancels \cup {o}

SetDown(o) ==
    /\ o \in pool /\ ~obj[o].manual /\ Event
    /\ obj' = [obj EXCEPT ![o].manual = TRUE]
    /\ Forget(o) /\ sweeps' = sweeps \cup {Sweep(o, FALSE)}
    /\ Unstick({Addr(o)})
    /\ cancels' = CutOnDown(o) /\ doomed' = doomed \cup RelaysOn(o)
    /\ UNCHANGED <<nodeVars, reg, pool, probe, redis, client, relays, table, late, removed>>

SetUp(o) ==
    /\ o \in pool /\ obj[o].manual /\ Event
    /\ obj' = [obj EXCEPT ![o].manual = FALSE]
    /\ UNCHANGED <<nodeVars, reg, pool, probe, stickyVars, clientVars, removed>>

ClearClients ==
    /\ Event /\ table' = [k \in DOMAIN table |-> NoEntry]
    /\ UNCHANGED <<nodeVars, poolVars, stickyVars, client, relays, cancels, doomed, late, removed>>

\* The balancer process is started again; Redis is all it keeps.
Restart ==
    /\ Event
    /\ obj' = StaticObjs /\ pool' = Range(StaticObj)
    /\ reg' = [r \in Regs |-> NoLease] /\ nodeReg' = [a \in Addrs |-> NoReg]
    /\ probe' = [o \in Objs |-> "none"]
    /\ cache' = [s \in Sessions |-> NoObj] /\ sweeps' = {} /\ cancels' = {}
    /\ home' = [s \in Sessions |-> IF home[s] \in Static THEN home[s] ELSE NoAddr]
    /\ relays' = [o \in Objs |-> {}] /\ client' = [k \in Clients |-> Gone(k)]
    /\ table' = [k \in DOMAIN table |-> NoEntry] /\ doomed' = {}
    /\ late' = {} /\ procs' = {} /\ UNCHANGED <<alive, redis, removed>>

----------------------------------------------------------------------------
\* Clients

Entry(k, active) == [conn |-> k, active |-> active]
Remember(t, key, k) == [t EXCEPT ![key] = Entry(k, TRUE)]

Migrate(t, old, new) ==
    IF t[old] = NoEntry THEN t ELSE [t EXCEPT ![new] = t[old], ![old] = NoEntry]

\* Faulty variant: whoever closes deactivates the entry.
DropAny(t, key, k) == IF t[key] = NoEntry THEN t ELSE [t EXCEPT ![key].active = FALSE]
Drop(t, key, k) ==
    IF t[key] # NoEntry /\ t[key].conn = k THEN [t EXCEPT ![key].active = FALSE] ELSE t

\* A backend is chosen for connection c; only the first choice for a frame is
\* remembered.
Choose(k, c, o) ==
    /\ client' = [client EXCEPT ![k] = [c EXCEPT !.stage = "open", !.obj = o, !.val = NoAddr]]
    /\ table' = IF c.tried = {} THEN Remember(table, c.key, k) ELSE table

RoundRobin(k, c, b) ==
    LET able == {o \in pool : b[o].healthy /\ ~b[o].manual /\ ~IsIn(o, c.tried)} IN
    IF able # {} THEN \E o \in able : Choose(k, c, o)
    ELSE client' = [client EXCEPT ![k] = [c EXCEPT !.stage = "told", !.obj = NoObj]]
         /\ UNCHANGED table

\* _pick_backend, the backends' fields being b: the cache if the session is known
\* to it, else a GET whose answer is used later.
Pick(k, c, b) ==
    LET o == IF c.sid = NoSession THEN NoObj ELSE cache[c.sid]
        hit == o # NoObj /\ b[o].healthy /\ ~b[o].manual IN
    IF c.sid = NoSession \/ (hit /\ IsIn(o, c.tried)) THEN RoundRobin(k, c, b)
    ELSE IF hit THEN Choose(k, c, o)
    ELSE client' = [client EXCEPT ![k] = [c EXCEPT !.stage = "redis", !.val = redis[c.sid]]]
         /\ UNCHANGED table

\* The first frame: a HELLO with the session of before, or a LOGIN without one.
Arrive(k, s) ==
    /\ client[k].stage = "new" /\ Event
    /\ s # NoSession => table[s] # NoEntry \/ redis[s] # NoAddr \/ home[s] # NoAddr
    /\ Pick(k, [NoConn EXCEPT !.sid = s, !.key = IF s = NoSession THEN k ELSE s,
                              !.want = IF s = NoSession THEN NoAddr ELSE home[s]], obj)
    /\ UNCHANGED <<nodeVars, poolVars, stickyVars, relays, cancels, doomed, late, removed>>

PickAnswered(k) ==
    LET c == client[k]
        found == {o \in pool : Addr(o) = c.val /\ Routable(o)} IN
    /\ c.stage = "redis"
    /\ \/ \E o \in found :
            /\ cache' = [cache EXCEPT ![c.sid] = o]
            /\ home' = IF home[c.sid] = Addr(o) THEN home ELSE [home EXCEPT ![c.sid] = NoAddr]
            /\ IF IsIn(o, c.tried) THEN RoundRobin(k, c, obj) ELSE Choose(k, c, o)
       \/ found = {} /\ RoundRobin(k, c, obj) /\ UNCHANGED <<cache, home>>
    /\ UNCHANGED <<nodeVars, poolVars, redis, sweeps, relays, cancels, doomed, late, bounds>>

\* _open_backend fails: the backend is unhealthy at once, and no longer the one
\* this client is owed.
Open(k) ==
    LET c == client[k]  o == c.obj IN
    /\ c.stage = "open"
    /\ \/ /\ Addr(o) \in alive
          /\ client' = [client EXCEPT ![k] = [@ EXCEPT !.stage = "ack", !.tried = {}]]
          /\ UNCHANGED <<obj, cancels, home, table, doomed>>
       \/ /\ Addr(o) \notin alive
          /\ obj' = [obj EXCEPT ![o].healthy = FALSE]
          /\ cancels' = cancels \cup {o} /\ Unstick({Addr(o)})
          /\ doomed' = doomed \cup RelaysOn(o)
          /\ Pick(k, [c EXCEPT !.tried = @ \cup {o}, !.want = NoAddr], obj')
    /\ UNCHANGED <<nodeVars, reg, pool, probe, cache, redis, sweeps, relays, late, bounds>>

\* no_healthy_backend: the client sends another frame, or nothing in time.
AfterError(k) ==
    /\ client[k].stage = "told"
    /\ \/ client' = [client EXCEPT ![k].stage = "closing"] /\ UNCHANGED table
       \/ Pick(k, [client[k] EXCEPT !.tried = {}, !.sid = NoSession, !.want = NoAddr], obj)
    /\ UNCHANGED <<nodeVars, poolVars, stickyVars, relays, cancels, doomed, late, bounds>>

\* A dict lookup: the very object, or one that is equal to it.
Keys(o) == LET used == {p \in Objs : relays[p] # {}} IN
    IF o \in used THEN {o} ELSE {p \in used : obj[p] = obj[o]}
KeyOf(o) == IF Keys(o) = {} THEN o ELSE CHOOSE p \in Keys(o) : TRUE

\* History: the relay begins on a backend that is down, or up again while a probe
\* that began when it was down is still under way.
StartRelay(k) ==
    LET o == client[k].obj IN
    /\ relays' = [relays EXCEPT ![KeyOf(o)] = @ \cup {k}]
    /\ client' = [client EXCEPT ![k].stage = "relay"]
    /\ late' = IF obj[o].healthy /\ probe[o] # "unhealthy" THEN late ELSE late \cup {k}

\* The backend's first answer: with the session, without one, or never.
Ack(k) ==
    LET o == client[k].obj IN
    /\ client[k].stage = "ack"
    /\ \/ \E s \in Sessions :
            /\ client[k].sid \in {NoSession, s}
            /\ cache' = [cache EXCEPT ![s] = o]
            /\ home' = IF home[s] = Addr(o) THEN home ELSE [home EXCEPT ![s] = NoAddr]
            /\ table' = Remember(IF client[k].key = s THEN table
                                 ELSE Migrate(table, client[k].key, s), s, k)
            /\ client' = [client EXCEPT ![k] = [@ EXCEPT !.stage = "set", !.key = s, !.sid = s]]
            /\ UNCHANGED <<relays, late>>
       \/ StartRelay(k) /\ UNCHANGED <<cache, home, table>>
       \/ /\ Addr(o) \notin alive /\ client' = [client EXCEPT ![k].stage = "closing"]
          /\ UNCHANGED <<cache, home, table, relays, late>>
    /\ UNCHANGED <<nodeVars, poolVars, redis, sweeps, cancels, doomed, bounds>>

\* Faulty variant: the mapping stays in memory.
NotStored(s, a) == redis
Stored(s, a) == [redis EXCEPT ![s] = a]

SetSticky(k) ==
    LET s == client[k].sid  o == client[k].obj IN
    /\ client[k].stage = "set"
    /\ redis' = Stored(s, Addr(o))
    /\ home' = [home EXCEPT ![s] =
         IF /\ cache[s] = o /\ o \in pool /\ Routable(o)
            /\ \A w \in sweeps : Addr(w.obj) # Addr(o) /\ s \notin w.keys
         THEN Addr(o) ELSE NoAddr]
    /\ StartRelay(k)
    /\ UNCHANGED <<nodeVars, poolVars, cache, sweeps, cancels, table, doomed, bounds>>

\* The client or the backend closes its end.
RelayEnds(k) ==
    /\ client[k].stage = "relay"
    /\ client' = [client EXCEPT ![k].stage = "closing"]
    /\ UNCHANGED <<nodeVars, poolVars, stickyVars, relays, cancels, table, doomed, late, bounds>>

CancelRelays(o) ==
    /\ o \in cancels /\ cancels' = cancels \ {o}
    /\ relays' = [relays EXCEPT ![KeyOf(o)] = {}]
    /\ client' = [k \in Clients |-> IF k \in relays[KeyOf(o)] /\ client[k].stage = "relay" THEN [client[k] EXCEPT !.stage = "closing"]
                                    ELSE client[k]]
    /\ UNCHANGED <<nodeVars, poolVars, stickyVars, table, doomed, late, bounds>>

\* The finally blocks of _pump_bidirectional and _handle_client.
Close(k) ==
    /\ client[k].stage = "closing"
    /\ relays' = IF client[k].obj = NoObj THEN relays
                 ELSE [relays EXCEPT ![KeyOf(client[k].obj)] = @ \ {k}]
    /\ table' = Drop(table, client[k].key, k)
    /\ client' = [client EXCEPT ![k] = Gone(k)]
    /\ doomed' = doomed \ {k} /\ late' = late \ {k}
    /\ UNCHANGED <<nodeVars, poolVars, stickyVars, cancels, bounds>>

Next ==
    \/ \E a \in Addrs : \/ NodeStarts(a) \/ NodeDies(a) \/ RegistrationBreaks(a)
                        \/ Spawn(a) \/ SpawnerRemove(a) \/ \E r \in Regs : Announce(r, a)
    \/ \E r \in Regs : Status(r) \/ Deregister(r)
    \/ \E w \in sweeps : SweepStarts(w) \/ SweepDeletes(w)
    \/ \E o \in Objs : \/ ProbeStarts(o) \/ ProbeEnds(o) \/ SetDown(o) \/ SetUp(o)
                       \/ CancelRelays(o)
    \/ ClearClients \/ Restart
    \/ \E k \in Clients : \/ \E s \in Sessions \cup {NoSession} : Arrive(k, s)
                          \/ PickAnswered(k) \/ Open(k) \/ AfterError(k)
                          \/ Ack(k) \/ SetSticky(k) \/ RelayEnds(k) \/ Close(k)

Spec == Init /\ [][Next]_vars

----------------------------------------------------------------------------
\* Properties

\* There is never more than one backend for an address in the pool, however
\* registrations, removals and restarts follow each other.
OneBackendPerAddress == \A o, p \in pool : Addr(o) = Addr(p) => o = p

\* A node whose registration is open at both ends is in the pool: the late end of
\* an older connection does not take it out, unless an admin has removed its address.
FreshRegistrationStays == \A a \in Addrs \ removed :
    nodeReg[a] # NoReg => \E o \in pool : Addr(o) = a /\ o = reg[nodeReg[a]].obj

Cut(k) == \/ \E o \in cancels : k \in relays[KeyOf(o)]
          \/ \E w \in sweeps : w.cut /\ k \in relays[KeyOf(w.obj)]

\* Whoever relays through a backend when it fails a probe or a dial, loses its
\* registration or is taken down by an admin is about to be cancelled, however many
\* probes, dials and announcements have changed its health before.  Not so, against
\* lb.py:492-494, who began to relay while a probe of the outage before was still
\* under way, or when the backend was down already: when that probe fails, it finds
\* the backend as it was (lb.py:485), and they stay on it.  Relays that
\* _active_relays holds under an equal older object are left out here too.
DoomedIsCut == \A k \in doomed :
    client[k].stage = "relay" /\ k \in relays[client[k].obj] => Cut(k)

\* A session that names itself goes to the backend it is stuck to as long as that
\* one stays in rotation, also after a restart of the balancer.
StickyWhileUp == [][\A k \in Clients : LET c == client'[k] IN
    /\ client[k].stage \in {"new", "redis"} /\ c.stage \in {"open", "told"}
    /\ c.want # NoAddr /\ c.want = home[c.sid]
    => c.stage = "open" /\ obj'[c.obj].addr = c.want]_vars

\* The end of a stale connection never makes the client's newer one look gone,
\* and no entry counts a connection that has ended.
OwnerActive == \A key \in DOMAIN table : table[key] # NoEntry =>
    LET c == client[table[key].conn] IN
    /\ table[key].active => c.key = key
    /\ c.key = key /\ c.stage \in {"open", "ack", "set", "relay"} => table[key].active
=============================================================================
