-------------------------------- MODULE Mesh --------------------------------
(***************************************************************************)
(* node/mesh.py: the links between nodes, their registration, the flood of *)
(* a message over them, the heartbeat and the stop of a node.              *)
(*                                                                         *)
(* A link is named by who dials and who accepts; the pair dials again once *)
(* both ends are done with the connection before.  A frame in an inbox is  *)
(* anywhere between the writer's buffer and the reader; Cap frames fill    *)
(* it, and a writer then waits in drain().  PING and PONG are the instant  *)
(* at which the heartbeat looks at the other end.                          *)
(***************************************************************************)
EXTENDS DedupCache, FiniteSets

CONSTANTS Nodes,
          Links,      \* <<dialer, acceptor>>: the configured peer addresses
          Messages,
          NoLink, NoNode, NoMessage,
          Hello,      \* the PEER_HELLO frame
          CacheSize,  \* DedupCache max_size
          Cap,        \* frames a connection holds in one direction
          MaxFaults   \* how often a link is lost, a local delivery raises, or a node
                      \* stops, crashes or hangs

Peer(l, n) == IF n = l[1] THEN l[2] ELSE l[1]
Ends == {e \in Links \X Nodes : e[2] \in {e[1][1], e[1][2]}}
Other(e) == <<e[1], Peer(e[1], e[2])>>
EndsOf(n) == {e \in Ends : e[2] = n}
Tasks == Ends \cup Messages

ASSUME MeshAssumption ==
    /\ IsFiniteSet(Nodes) /\ Links \subseteq {l \in Nodes \X Nodes : l[1] # l[2]}
    /\ NoLink \notin Links /\ NoNode \notin Nodes /\ NoMessage \notin Messages
    /\ Hello \notin Messages /\ Messages \cap Ends = {}
    /\ CacheSize \in Nat \ {0} /\ Cap \in Nat \ {0} /\ MaxFaults \in Nat

VARIABLES proc,       \* [Nodes -> up, hung, stopping, closed (stop has closed the writers) or down]
          wire,       \* [Links -> up or cut]
          stage,      \* [Ends -> idle, accepting, hello or serving]
          inbox,      \* [Ends -> frames on their way to this end]
          peers,      \* _peer_writers: [Nodes -> [Nodes -> Links or NoLink]]
          allWriters, \* _all_writers: [Nodes -> set of links]
          seen,       \* [Nodes -> DedupCache]
          task,       \* a read loop or a call of relay_message: its message, the links left
          origin,     \* [Messages -> node that relayed it, or NoNode]
          faults,     \* how many faults there have been
          handled,  \* history: how often a node relayed or delivered a message in this life
          whole       \* history: relayed with every node in reach and no fault since

links == <<wire, stage, peers, allWriters>>
traffic == <<inbox, seen, task, origin, handled>>
vars == <<proc, faults, whole, links, traffic>>

NoTask == [msg |-> NoMessage, step |-> "idle", to |-> <<>>]
Running(n) == proc[n] \in {"up", "stopping", "closed"}
Registered(n) == {peers[n][m] : m \in Nodes} \ {NoLink}
Room(l, n) == Len(inbox[<<l, n>>]) < Cap

Init ==
    /\ proc = [n \in Nodes |-> "up"]
    /\ wire = [l \in Links |-> "cut"]
    /\ stage = [e \in Ends |-> "idle"]
    /\ inbox = [e \in Ends |-> <<>>]
    /\ peers = [n \in Nodes |-> [m \in Nodes |-> NoLink]]
    /\ allWriters = [n \in Nodes |-> {}]
    /\ seen = [n \in Nodes |-> <<>>]
    /\ task = [t \in Tasks |-> NoTask]
    /\ origin = [m \in Messages |-> NoNode]
    /\ faults = 0
    /\ handled = [n \in Nodes |-> [m \in Messages |-> 0]]
    /\ whole = {}

----------------------------------------------------------------------------
\* Links

\* The kernel completes the connection whether or not the peer's process runs;
\* the dialer writes its PEER_HELLO at once.
Dial(l) ==
    LET here == <<l, l[1]>>  there == <<l, l[2]>> IN
    /\ proc[l[1]] = "up" /\ proc[l[2]] \in {"up", "hung", "stopping"}
    /\ stage[here] = "idle" /\ stage[there] = "idle"
    /\ wire' = [wire EXCEPT ![l] = "up"]
    /\ stage' = [stage EXCEPT ![here] = "hello", ![there] = "accepting"]
    /\ inbox' = [inbox EXCEPT ![here] = <<>>, ![there] = <<Hello>>]
    /\ UNCHANGED <<proc, faults, whole, peers, allWriters, seen, task, origin, handled>>

Accept(l) ==
    LET e == <<l, l[2]>> IN
    /\ stage[e] = "accepting" /\ proc[l[2]] \in {"up", "stopping"}
    /\ stage' = [stage EXCEPT ![e] = "hello"]
    /\ inbox' = IF wire[l] = "up" THEN [inbox EXCEPT ![Other(e)] = Append(@, Hello)] ELSE inbox
    /\ UNCHANGED <<proc, faults, whole, wire, peers, allWriters, seen, task, origin, handled>>

\* The peer's PEER_HELLO is read: the link replaces an older one to that peer.
Handshake(e) ==
    LET l == e[1]  n == e[2] IN
    /\ stage[e] = "hello" /\ Running(n)
    /\ inbox[e] # <<>> /\ Head(inbox[e]) = Hello
    /\ stage' = [stage EXCEPT ![e] = "serving"]
    /\ inbox' = [inbox EXCEPT ![e] = Tail(@)]
    /\ peers' = [peers EXCEPT ![n][Peer(l, n)] = l]
    /\ allWriters' = [allWriters EXCEPT ![n] = @ \cup {l}]
    /\ UNCHANGED <<proc, faults, whole, wire, seen, task, origin, handled>>

\* No PEER_HELLO before the end of the stream or within the timeout, which only
\* a hung peer exceeds, or the connect loop is cancelled: the writer is left open.
HandshakeFails(e) ==
    LET l == e[1]  n == e[2] IN
    /\ stage[e] = "hello" /\ Running(n) /\ inbox[e] = <<>>
    /\ \/ wire[l] = "cut" \/ proc[Peer(l, n)] = "hung" \/ stage[Other(e)] = "idle"
       \/ proc[n] # "up" /\ n = l[1]
    /\ stage' = [stage EXCEPT ![e] = "idle"]
    /\ UNCHANGED <<proc, faults, whole, wire, peers, allWriters, traffic>>

\* The read loop is at the end of the stream, or a write failed.
Broken(e) == wire[e[1]] = "cut" /\ (inbox[e] = <<>> \/ task[e] # NoTask)

\* No PONG within the grace period: the peer's read loop does not run, or waits
\* in drain().  The heartbeat itself must get its PING written first.
Stuck(e) == LET to == task[e].to IN
    to # <<>> /\ wire[to[1]] = "up" /\ ~Room(to[1], Peer(to[1], e[2]))
\* Faulty variant: only a read that fails or ends closes a link.
NeverSilent(e) == FALSE
\* Faulty variant: no grace for a peer that is busy with a message.
Impatient(e) == (proc[Other(e)[2]] = "hung" \/ task[Other(e)] # NoTask) /\ Room(e[1], Other(e)[2])
Silent(e) ==
    /\ \/ proc[Other(e)[2]] = "hung" \/ stage[Other(e)] \in {"idle", "accepting"}
       \/ Stuck(Other(e))
    /\ Room(e[1], Other(e)[2])

\* Faulty variant: the end of a link leaves the registration alone.
UnregisterNone(ps, l, n) == ps
\* Faulty variant: the end of any link to a peer removes the peer.
UnregisterAny(ps, l, n) == [ps EXCEPT ![n][Peer(l, n)] = NoLink]
Unregister(ps, l, n) ==
    IF ps[n][Peer(l, n)] = l THEN [ps EXCEPT ![n][Peer(l, n)] = NoLink] ELSE ps

NodeOf(t) == IF t \in Messages THEN origin[t] ELSE t[2]

\* Both subtasks are cancelled, with whatever the read loop was delivering or
\* flooding; other floods skip the closed writer.
LinkEnds(e) ==
    LET l == e[1]  n == e[2] IN
    /\ peers' = Unregister(peers, l, n)
    /\ allWriters' = [allWriters EXCEPT ![n] = @ \ {l}]
    /\ stage' = [stage EXCEPT ![e] = "idle"]
    /\ wire' = [wire EXCEPT ![l] = "cut"]
    /\ task' = [t \in Tasks |-> IF t = e THEN NoTask
                              ELSE IF NodeOf(t) = n THEN [task[t] EXCEPT !.to = Without(@, l)]
                              ELSE task[t]]

\* stop() ends the links the node dialed.
TearDown(e) ==
    LET l == e[1]  n == e[2] IN
    /\ stage[e] = "serving" /\ Running(n)
    /\ Broken(e) \/ Silent(e) \/ (proc[n] = "stopping" /\ n = l[1])
    /\ LinkEnds(e)
    /\ UNCHANGED <<proc, faults, whole, inbox, seen, origin, handled>>

----------------------------------------------------------------------------
\* Messages

\* _flood takes the registered writers once, before its first write, and writes
\* to one after the other.
Targets(n, except) == SetToSeqs({peers[n][m] : m \in Nodes \ {except}} \ {NoLink})

Reaches(n, m) == LET l == peers[n][m] IN
    /\ l # NoLink /\ proc[n] = "up" /\ proc[m] = "up"
    /\ wire[l] = "up" /\ stage[<<l, m>>] # "idle"
InReach(n) == \A m \in Nodes \ {n} :
    Reaches(n, m) \/ \E k \in Nodes : Reaches(n, k) /\ Reaches(k, m)

\* Of two links of a pair neither is broken or left by one of its ends only: it would
\* still take the place of the other one, and then go.
Sound(l) == LET here == <<l, l[1]>>  there == <<l, l[2]>> IN
    \/ stage[here] = "idle" /\ stage[there] = "idle"
    \/ stage[here] # "idle" /\ stage[there] # "idle" /\ wire[l] = "up"
Settled == \A l, k \in Links : l # k /\ {l[1], l[2]} = {k[1], k[2]} => Sound(l)

\* Faulty variant: the origin does not remember its own message.
OriginForgets(n, m) == seen
RecordOrigin(n, m) == [seen EXCEPT ![n] = Remembered(@, m, CacheSize)]

Relay(n, m) ==
    /\ proc[n] = "up" /\ origin[m] = NoNode
    /\ origin' = [origin EXCEPT ![m] = n]
    /\ seen' = RecordOrigin(n, m)
    /\ \E to \in Targets(n, n) :
        task' = [task EXCEPT ![m] = [msg |-> m, step |-> "flood", to |-> to]]
    /\ whole' = IF InReach(n) /\ Settled THEN whole \cup {m} ELSE whole
    /\ handled' = [handled EXCEPT ![n][m] = @ + 1]
    /\ UNCHANGED <<proc, faults, links, inbox>>

\* A RELAY is read: a repeat is dropped, a new one handled locally.
Receive(e) ==
    LET n == e[2]  m == Head(inbox[e]) IN
    /\ stage[e] = "serving" /\ Running(n) /\ task[e] = NoTask /\ inbox[e] # <<>>
    /\ inbox' = [inbox EXCEPT ![e] = Tail(@)]
    /\ seen' = [seen EXCEPT ![n] = Remembered(@, m, CacheSize)]
    /\ task' = IF SeenBefore(seen[n], m) THEN task
               ELSE [task EXCEPT ![e] = [msg |-> m, step |-> "deliver", to |-> <<>>]]
    /\ UNCHANGED <<proc, faults, whole, links, origin, handled>>

\* Faulty variant: a star, in which only the origin sends.
NoOnward(n, except) == {<<>>}
Onward(n, except) == Targets(n, except)

Deliver(e) ==
    LET n == e[2]  m == task[e].msg IN
    /\ Running(n) /\ task[e].step = "deliver"
    /\ handled' = [handled EXCEPT ![n][m] = @ + 1]
    /\ \E to \in Onward(n, Peer(e[1], n)) :
        task' = [task EXCEPT ![e] = [@ EXCEPT !.step = "flood", !.to = to]]
    /\ UNCHANGED <<proc, faults, whole, links, inbox, seen, origin>>

\* One write_frame of a flood: into the connection, or into one that is gone.
FloodWrite(t) ==
    LET l == Head(task[t].to)  there == <<l, Peer(l, NodeOf(t))>> IN
    /\ task[t].to # <<>> /\ Running(NodeOf(t))
    /\ wire[l] = "up" => Room(l, there[2])
    /\ inbox' = IF wire[l] = "up" THEN [inbox EXCEPT ![there] = Append(@, task[t].msg)]
                ELSE inbox
    /\ task' = [task EXCEPT ![t].to = Tail(@)]
    /\ UNCHANGED <<proc, faults, whole, links, seen, origin, handled>>

FloodDone(t) ==
    /\ task[t].step = "flood" /\ task[t].to = <<>> /\ Running(NodeOf(t))
    /\ task' = [task EXCEPT ![t] = NoTask]
    /\ UNCHANGED <<proc, faults, whole, links, inbox, seen, origin, handled>>

----------------------------------------------------------------------------
\* Faults: a delivery that raises, stop, crash, hang and loss

Fault == faults < MaxFaults /\ faults' = faults + 1 /\ whole' = {}

\* The write to a client raises inside the local delivery: the message is recorded
\* and perhaps shown to some, it is not sent on, and the exception ends the read
\* loop and the link, whatever else is on its way.
DeliverFails(e) ==
    LET n == e[2]  m == task[e].msg IN
    /\ Running(n) /\ task[e].step = "deliver" /\ Fault
    /\ handled' = [handled EXCEPT ![n][m] = @ + 1]
    /\ LinkEnds(e)
    /\ UNCHANGED <<proc, inbox, seen, origin>>

\* Faulty variant: stop closes the writers of _peer_writers.
WritersOfPeers(n) == Registered(n)
WritersToClose(n) == allWriters[n]

Stop(n) ==
    /\ proc[n] = "up" /\ Fault
    /\ proc' = [proc EXCEPT ![n] = "stopping"]
    /\ UNCHANGED <<links, traffic>>

Backlog(n) == {e \in EndsOf(n) : stage[e] = "accepting"}

\* The dialed links are gone: every writer is closed, then the listener.
StopCloses(n) ==
    /\ proc[n] = "stopping" /\ \A e \in EndsOf(n) : e[1][1] = n => stage[e] = "idle"
    /\ proc' = [proc EXCEPT ![n] = "closed"]
    /\ wire' = [l \in Links |->
                   IF l \in WritersToClose(n) \cup {e[1] : e \in Backlog(n)} THEN "cut" ELSE wire[l]]
    /\ stage' = [e \in Ends |-> IF e \in Backlog(n) THEN "idle" ELSE stage[e]]
    /\ UNCHANGED <<faults, whole, peers, allWriters, traffic>>

\* The process is gone and with it all it kept in memory.
Gone(n) ==
    /\ proc' = [proc EXCEPT ![n] = "down"]
    /\ wire' = [l \in Links |-> IF n \in {l[1], l[2]} THEN "cut" ELSE wire[l]]
    /\ stage' = [e \in Ends |-> IF e[2] = n THEN "idle" ELSE stage[e]]
    /\ peers' = [peers EXCEPT ![n] = [m \in Nodes |-> NoLink]]
    /\ allWriters' = [allWriters EXCEPT ![n] = {}]
    /\ seen' = [seen EXCEPT ![n] = <<>>]
    /\ task' = [t \in Tasks |-> IF NodeOf(t) = n THEN NoTask ELSE task[t]]
    /\ handled' = [handled EXCEPT ![n] = [m \in Messages |-> 0]]
    /\ UNCHANGED <<inbox, origin>>

\* wait_closed() returns once the handlers are done, or after three seconds.
Exit(n) == proc[n] = "closed" /\ Gone(n) /\ UNCHANGED <<faults, whole>>
Crash(n) == proc[n] # "down" /\ Gone(n) /\ Fault
Start(n) ==
    /\ proc[n] = "down" /\ proc' = [proc EXCEPT ![n] = "up"]
    /\ UNCHANGED <<faults, whole, links, traffic>>

\* A process that is stuck in a blocking call, its sockets open.
Hang(n) ==
    /\ proc[n] = "up" /\ Fault /\ proc' = [proc EXCEPT ![n] = "hung"]
    /\ UNCHANGED <<links, traffic>>
Resume(n) ==
    /\ proc[n] = "hung" /\ proc' = [proc EXCEPT ![n] = "up"]
    /\ UNCHANGED <<faults, whole, links, traffic>>

\* The network drops the connection and a suffix of what was on its way.
Lose(l) ==
    /\ wire[l] = "up" /\ Fault
    /\ wire' = [wire EXCEPT ![l] = "cut"]
    /\ \E i \in 0 .. Len(inbox[<<l, l[1]>>]), j \in 0 .. Len(inbox[<<l, l[2]>>]) :
        inbox' = [inbox EXCEPT ![<<l, l[1]>>] = SubSeq(@, 1, i), ![<<l, l[2]>>] = SubSeq(@, 1, j)]
    /\ UNCHANGED <<proc, stage, peers, allWriters, seen, task, origin, handled>>

LinkStep == \/ \E l \in Links : Dial(l) \/ Accept(l)
            \/ \E e \in Ends : Handshake(e) \/ HandshakeFails(e) \/ TearDown(e)
MessageStep == \/ \E n \in Nodes, m \in Messages : Relay(n, m)
               \/ \E e \in Ends : Receive(e) \/ Deliver(e)
               \/ \E t \in Tasks : FloodWrite(t) \/ FloodDone(t)
NodeStep == \/ \E n \in Nodes : Stop(n) \/ StopCloses(n) \/ Exit(n) \/ Crash(n)
                                \/ Start(n) \/ Hang(n) \/ Resume(n)
            \/ \E l \in Links : Lose(l)
            \/ \E e \in Ends : DeliverFails(e)
Next == LinkStep \/ MessageStep \/ NodeStep

\* A running process gets to every callback that stays ready, a dial is retried
\* for ever, a stop goes on.  Nothing restarts or resumes a node for certain.
Fairness ==
    /\ \A l \in Links : WF_vars(Dial(l)) /\ WF_vars(Accept(l))
    /\ \A e \in Ends : /\ WF_vars(Handshake(e)) /\ WF_vars(HandshakeFails(e))
                       /\ WF_vars(TearDown(e)) /\ WF_vars(Receive(e)) /\ WF_vars(Deliver(e))
    /\ \A t \in Tasks : WF_vars(FloodWrite(t)) /\ WF_vars(FloodDone(t))
    /\ \A n \in Nodes : WF_vars(StopCloses(n)) /\ WF_vars(Exit(n))

Spec == Init /\ [][Next]_vars
FairSpec == Spec /\ Fairness
----------------------------------------------------------------------------
\* Properties

\* Whatever a flood or a query finds under a peer's name in _peer_writers is a
\* link to that peer whose read loop runs and which stop() would close.
RegisteredServes == \A n, m \in Nodes :
    LET l == peers[n][m] IN
    l # NoLink => /\ <<l, n>> \in Ends /\ Peer(l, n) = m
                  /\ stage[<<l, n>>] = "serving" /\ l \in allWriters[n]

\* The end of a link never takes away the registration of another one: a peer
\* is forgotten only when the very link it was registered with is torn down.
NewerLinkStays == [][\A n, m \in Nodes :
    peers[n][m] # NoLink /\ peers'[n][m] = NoLink => stage'[<<peers[n][m], n>>] # "serving"]_vars

\* However links come and go, a node delivers a message at most once in its life,
\* an interrupted delivery included, and not at all if it relayed the message itself.
HandledOnce == \A n \in Nodes, m \in Messages : handled[n][m] <= 1

InFlight(m) == \/ \E t \in Tasks : task[t].msg = m
               \/ \E e \in Ends : m \in ToSet(inbox[e])

\* A message relayed when every node was in reach, directly or across another
\* node, over links in good order, has been delivered everywhere once no copy of it
\* is under way, unless a fault came in between: a link lost, a node stopped, hung or
\* gone, or a failing write to some client, which ends the delivery and the link.
WholeArrives == \A m \in whole : InFlight(m) \/ \A n \in Nodes : handled[n][m] = 1

\* stop() closes every link in service, orphaned duplicates included.
StopCutsServedLinks == [][\A n \in Nodes :
    proc[n] = "stopping" /\ proc'[n] = "closed" =>
        \A e \in EndsOf(n) : stage[e] = "serving" => wire'[e[1]] = "cut"]_vars

\* Two nodes that stay up end up registered with each other over a link that
\* both serve.
LinksRestored == \A l \in Links :
    <>[](proc[l[1]] = "up" /\ proc[l[2]] = "up")
      => <>[](\A n \in {l[1], l[2]} :
                 /\ peers[n][Peer(l, n)] # NoLink
                 /\ stage[<<peers[n][Peer(l, n)], Peer(l, n)>>] = "serving")

\* A peer that hangs for good does not stay registered anywhere (the heartbeat):
\* nothing is relayed into its open socket any more.
HungPeerCutOff == \A n \in Nodes :
    <>[](proc[n] = "hung") => <>[](\A m \in Nodes : proc[m] = "up" => peers[m][n] = NoLink)
=============================================================================
