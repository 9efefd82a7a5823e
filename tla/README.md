# ClusterTalk: TLA+ models and proofs

ClusterTalk is a chat cluster: browser pages talk through a WebSocket bridge and
a load balancer to one of several chat nodes, and the nodes relay room messages
to each other. Its documents promise that a message survives lost connections
and node failures (README.md:24-26, session_state.py:5-6). This project models
the parts that have to keep that promise, checks them with TLC and proves their
safety properties and a refinement with TLAPS.

## The system

| part | source | state | operations | what is hard |
|---|---|---|---|---|
| session state | node/session_state.py | next seq, outbox, inbound mark and set | prepare, ack, replay, should_process, mark, reset | duplicates, gaps, a session that outlives its connections |
| outbox store | node/persistence.py | write queue, current batch, SQLite tables, writer thread | save/delete (queued), load (direct), start, stop | batches split related writes, crash loses queue and batch, an sqlite error ends the thread |
| session manager | node/session_manager.py | loaded sessions | get_or_create with recovery, send, ack, receive, set_room, snapshot, hydrate | recovery suspends between reads and then overwrites |
| chat node | node/server.py | connections by session, handler of each socket | login/hello, replay, read loop, broadcast, retry, cleanup, stop, rooms, registration | replay, retry and broadcast interleave; connections replace each other |
| client page | frontend/app.js (ClusterTalkClient) | socket, next seq, unacknowledged texts | connect, reconnect, show and ack, send | acts on what the node thinks is over |
| mesh | node/mesh.py, node/dedup_cache.py | peer links, dedup cache, pending queries | dial, relay, query, answer | simultaneous dialling, late answers, bounded cache |
| load balancer, routing | ingress/lb.py | backends, health, registration epochs, sticky cache, relays | register, deregister, probe, pick, pump | late teardown, stale probe results, relays registered late |
| load balancer, client table | ingress/lb.py | clients, home and current server | remember, migrate, drop, rebalance, admin | event loop and admin thread share it |
| bridge | ingress/ws_bridge.py | a pair of connections | pump both ways | one side ends first |
| framing | protocol/framing.py | none | read and write length-prefixed frames | short reads, size limit |
| accounts | node/auth_store.py, node/database.py | users | register, verify | none that concerns delivery |
| rooms | node/server.py, node/persistence.py | rooms, capacity | join, list, broadcast | capacity is checked on one path only |
| admin server, launchers, tests, pages | rest of the repository | | | not protocol |

The parts interact as follows. The page opens a WebSocket to the bridge, which
opens a TCP connection to the load balancer for it and copies frames both ways.
The balancer reads the first frame, chooses a backend, passes the frame on, reads
one answer and from then on relays bytes. On the node a handler task reads the
frames one by one. It calls the session manager, which changes the session in
memory and queues a write to the store in the same step; the writer thread
commits queued writes in batches. A text is buffered for every session of its
room in `_broadcast_local`, in the handler task of its author, and then flooded
over the mesh; at a peer the read loop of the link does the same. A handshake for
a session this node does not know asks the mesh for it first. Nodes announce
themselves to the balancer over a registration connection, and the balancer
probes them. All tasks of a process share one event loop: what happens between
two awaits that can suspend is one step. The exceptions are the writer thread and
the HTTP threads of the admin server.

## Modules

| module | models | correspondence |
|---|---|---|
| `SessionState` | session_state.py | a session is a record; each method is an operator. `_seen_inbound_seqs` and the mark are both there; `sent_at` and `retry_count` are time and are left out, so a retry may happen at any moment |
| `OutboxStore` | persistence.py, the tables of one session | `queue` is `_write_queue`; `staged` is what the tables would be with the current batch committed, `disk` what is committed; `TakeOp`, `Flush`, `WriterError`, `WorkerExit` are the branches of `_run_writer_loop` |
| `ChatNode` | server.py and session_manager.py for one session, and its page (app.js) | `session` is `_sessions[sid]`, `registered` is `_connections[sid]`, `pc[k]` the place where the handler of socket `k` stands; one action for each stretch between awaits that can suspend |
| `Mailbox` | what a session promises | accepted messages are kept until the user has seen them or the promise is waived |
| `Rooms` | rooms of one node: server.py's join, capacity and fan-out | `room` is `room_id` of the loaded sessions, `conn` is `_connections`, `fans` the loops of `_broadcast_local` under way, in a handler or in the read loop of a link |
| `DedupCache` | dedup_cache.py | the ordered dict is a sequence; `Remembered` is `seen_before`, `Without` its `move_to_end` |
| `Mesh` | mesh.py: links, registration, flood, heartbeat, stop | `peers` is `_peer_writers`, `allWriters` is `_all_writers`, `stage[e]` where an end of a link stands, `task` the message a read loop or a `relay_message` is busy with |
| `Recovery` | session_manager.py and mesh.py: the session that moves | `live` and `disk` are a node's session in memory and in its tables, `asks` and `answers` the SESSION_QUERY and SESSION_STATE frames, `sock[k].stage` the place of the handshake |
| `Balancer` | lb.py, the node's registration loop, the spawner of admin_server.py | `pool` is `_backends`, `obj` the fields of Backend objects, `cache` and `redis` the sticky sessions, `relays` is `_active_relays`, `table` is `_clients`; `client[k].stage` the place of `_handle_client` |
| `Page` | app.js: form, socket handlers, reconnect timer; ws_bridge.py: a pair of connections | `tab` has the flags of `ClusterTalkClient`, `ws` and `link` the two connections behind a socket |
| `Framing` | framing.py, the codec of ws_bridge.py and the node's read loop | pure operators: `ReadFrame` is the node's reader, `ReadTcpFrame` the bridge's, `HalfASecond` what a cancelled `read_frame` leaves; `Whole` and `Raised` are the reference definitions |
| `ChatNodeClaims`, `MCRooms` | statements of the repository the code does not keep | each with the line it is taken from |
| `MCChatNode`, `MCMesh`, `MCBalancer`, `MCRooms`, `MCPage` | the instances for TLC | symmetry, topologies |
| `SessionStateProofs`, `ChatNodeProofs`, `DeliveryProofs`, `RoomsProofs`, `MeshProofs`, `RecoveryProofs`, `BalancerProofs`, `PageProofs` | lemmas and theorems | see Proofs; `ChatNodeProofs` has the lemmas about the store too, and `DeliveryProofs` continues it with the outbound direction |

How they fit together. `ChatNode` EXTENDS `OutboxStore`, which EXTENDS
`SessionState`: the node calls the store and the session inside its own actions
(`Put`, `PrepareOutbound`...). `ChatNode` instantiates `Mailbox` with a refinement
mapping: accepted is what was ever given a seq, kept is the outbox of the loaded
session or, while none is loaded, the committed outbox rows, delivered is what the
page has displayed, waived is what had a seq that a recovery filled from the message log. `Recovery` EXTENDS `SessionState` too, for several nodes, and
takes the steps within a node as whole ones, since `ChatNode` has their insides.
`Mesh` EXTENDS `DedupCache`. `Balancer` and `Page` meet where the page's LOGIN is
answered: each has what it sees of the other.

### ChatNode

- A read of the store runs in a thread, so the recovery has four steps
  (`LoadSession`, `LoadOutbox`, `LoadLog`, `Install`) and anything may happen
  between them. The store's write API never suspends, so a change of the session
  and the queueing of its writes are one step (`Broadcast`, `ProcessText`,
  `HandleAckFrame`).
- Writing a frame can suspend when the send buffer is full, so the replay goes
  message by message (`ReplayOne`), and the ACK of a text (`AckText`) and its
  processing (`ProcessText`) are separate.
- A broken connection is noticed by the handler later, when it reads or writes
  (`HandshakeFails`, `Cleanup`). Frames sent before the break may still arrive:
  `Break` keeps a prefix of them.
- The log has one row per seq for both directions (persistence.py's `message_log`):
  the session's messages under their outbound seqs and the user's texts under the
  page's. `LoadLog` puts the rows above the inbound mark over the outbox
  (session_manager.py:86-98), and `overlaid` remembers which seqs it has changed.
- A write that fails ends the handler: of the replay or of the ACK (`HandlerEnds`,
  where the acknowledged text goes with it, `InHand`), or of the fan-out after the text
  was marked and logged (`FanoutFails`). `Broadcast` is the turn of another member's
  fan-out that is for this session; a fan-out that ends before it is one that never comes.
- `stop()` first closes the server and awaits `wait_closed()` and the mesh (`Stop`,
  process `closing`): the handlers go on, nobody connects, the retry loop is over.
  `StopStore` begins when `wait_closed()` returns: at any moment, or when the
  last client is gone (`WaitClosed`, Python 3.12 on). It then joins the writer thread
  without giving the event loop a turn, so in state `stopping` only the writer and
  the page move. `Exit` is the end of the join: when the thread has ended or, in runs
  with `Crashes`, after its timeout.
- LOGIN leaves the inbound tracking to `_handle_client`, HELLO resets it first:
  the two disjuncts of `Hello`.
- History variables (`typed`, `assigned`, `shown`, `ackedSeqs`, `confirmed`,
  `handled`, `since`, `overlaid`) record what the properties compare; `typed` and
  `assigned` also make each text be typed and each message be sent once.

### Rooms

- The handshake registers its connection before it has loaded the session and
  before it answers; a failed answer leaves the entry (`Answer`), since
  `_handle_client` has no session id to clean up with.
- `JoinRoom` reads the rooms table in a thread, `Joined` counts and moves without
  a pause. `Capacity` is one constant: every row is made with the default.
- `FanOut` is one turn of the loop: the text is buffered, then written. A write to
  a socket that is lost may still succeed, one to a closed socket cannot; when it
  raises, the author's handler ends, or the link the text came over. Handlers and
  links fan out side by side, so a session may get the texts of two speakers in
  either order.
- The node stops in an orderly way, so what is queued is written; a session is
  recovered by one handler at a time.

### Mesh and Recovery

- A link is named by its dialer and its acceptor; both ends have a read loop of
  their own. A pair that lists each other has two links at once. Each direction
  holds `Cap` frames between the writer and the reader; a writer then waits.
- PING and PONG are the instant at which the heartbeat looks at the other end
  (`Silent`): it fires when the peer is hung, gone or itself waits in `drain()`,
  and only if there is room for the PING. A PEER_HELLO times out only at a hung
  peer.
- `TearDown` is the finally block of `_run_handshake_and_serve` with the
  cancellation of both subtasks (`LinkEnds`); `Stop`, `StopCloses`, `Exit` are `stop()`.
- `DeliverFails` is a local delivery that raises because a write to a client does
  (mesh.py:374, server.py:883): the id is in the cache, nothing is sent on, and
  the link ends with the frames it still had. It counts among the faults.
- A flood takes the registered writers once, in any order.
- In `Recovery` every node that runs is a connected peer, a write is committed at
  once, and a frame that is lost is one that stays under way. `has_local_record`,
  the query, its timeout, the answers, `hydrate_from_snapshot` and `get_or_create`
  are steps of their own where the code can suspend; `snapshot_session` of a
  session that is not loaded is two reads.
- The user of `Recovery` types nothing (`SilentUser`, an assumption of the module):
  the inbound mark is then 0 everywhere and the message log has no part in a
  recovery. For a session with texts `NumberedAbove` and `NeverTakenBack` are false in
  the code, since log rows carry inbound seqs that next_send_seq never covered and take
  the place of the node's own rows. `ChatNode` has that merge.
- `Overlap` says whether the page may open a socket while a handshake goes on.
  The run has it FALSE: with it a late `hydrate_from_snapshot` or recovery installs
  over the session that is live, what its docstring excludes ("should never
  clobber live local state").

### Balancer

- A backend is an object with an identity: `==` compares fields, so two objects
  can be equal (`IsIn`), and dict keys find an equal one (`Keys`). An object that
  nothing refers to can be made again (`Free`).
- Registration: `Announce` finds the backend of the address or makes one and
  raises its epoch; `Deregister` counts only if the connection's epoch is still the
  backend's.
- A probe is two steps, `was_healthy` being read before and compared after; a node that
  runs may be too slow to answer it. One probe at a time: those of different backends
  have nothing in common.
- `doomed` has the relays of a backend that fails a probe or a dial, loses its
  registration or is set down, whatever the code decides about them; `late` has the
  relays that began while the backend was down, or up again before the probe of the
  outage was over. A failing probe dooms all of its relays but the late ones.
- Deleting sticky keys in Redis is two steps (collect, delete); cancelling relays
  is scheduled and done later (`cancels`).
- A client: the first frame, the choice by cache, Redis or round robin (any
  routable backend), the dial, the answer, the sticky mapping, the relay, the
  finally blocks. Failover dials another backend with those tried left out.
- The client table keeps `connection_id` and `active`, what `_drop_client` and
  `_remember_client` compare. Redis never fails.

### Page and Framing

- A handler of the page with the promise callbacks it sets off is one step, since
  microtasks run before the next event. Sockets are identities that are used again
  when both connections behind them are over; frames of a replaced socket are
  ignored by its handlers and are dropped from the model with it.
- The balancer and the node are what the page sees: a LOGIN is registered and
  answered, refused, told `no_healthy_backend`, dropped, or taken by a backend that
  hangs. All tabs use one account on one node, so they evict each other.
- `MaxFaults` counts failed dials, refusals, drops, hangs, a form submitted again
  while a socket is there, and an eviction that overtakes the LOGIN_ACK.
- `Framing` works on byte strings of base 3 with a two-digit prefix: sizes below, at
  and above the limit, an unknown type and a length that lies all occur. The two
  codecs differ: the bridge hands a type it does not know on as UNKNOWN_0x..
  and has one exception for everything. A `read_frame` that is cancelled after half a
  second keeps what it has read of a piece in the StreamReader, but a prefix it
  was handed is lost.

## Runs

| run | instance | checks |
|---|---|---|
| `delivery` | two messages, one text, one socket at a time, reloads, orderly restarts, MaxQueue 1 | `NoLoss`, `SeqNamesOneMessage`, `DiskFollowsMemory`, refinement `ImplementsMailbox` |
| `durable` | two messages, one text, MaxSeq 1, crashes, restarts, sqlite errors, MaxQueue 0 | `TypeOK`, `DurableNextGrows`, `DurableRowsSettle` |
| `inbound` | two texts, two sockets, retransmissions | `InboundTracking`, `NothingRepeated`, `ConfirmedIsHandled` |
| `liveness` | one message, two sockets, orderly restarts that wait for the clients, fairness | `OpenConnectionRegistered`, `EventuallySettled`, `StopEnds` |
| `rooms` | two members, two rooms with one seat, three sockets, one link, two texts, one fault | `JoinersFit`, `RoomSurvives`, `NothingSkipped` |
| `mesh` | ring of three nodes, one message, one fault | `RegisteredServes`, `HandledOnce`, `WholeArrives`, `ForgetsOldestOnly` |
| `links` | two nodes that dial each other, one message, two faults, fairness | `WholeArrives`, `NewerLinkStays`, `StopCutsServedLinks`, `LinksRestored`, `HungPeerCutOff` |
| `recovery` | two nodes, three sockets, one message, no texts, one fault, fairness | `NumberedAbove`, `MoveBringsOwed`, `NeverTakenBack`, `EventuallyServed` |
| `balancer` | one --backend, one node that registers over two connections, two clients, one session, three events | `OneBackendPerAddress`, `FreshRegistrationStays`, `DoomedIsCut`, `OwnerActive`, `StickyWhileUp` |
| `page` | two tabs, three sockets, two faults, fairness | `ConnectedIsLive`, `OneAttempt`, `EvictedStaysOff`, `Reconnects`, `PairEndsTogether`, `ReadsWhatWasWritten` |
| `claim_...` | see below | one statement of the repository each, violated |

The runs of `ChatNode` check deadlock too: a page can always connect again. The
others have bounded faults, sockets or messages and stop when these are used up.

Bounds and why they are enough. Two messages are the least with which an order,
a gap or a confusion of seqs can show; `MaxSeq` 2 lets both have a seq of their
own, and `MaxSeq` 1 with two messages leaves only the case that `durable` is
about, a seq used twice because a crash lost the counter. `delivery` is the run in
which the message log matters: its text raises the inbound mark, and a restart then
merges the log row of seq 2 into the outbox, settled or not. A second text
that is sent under seq 2 takes the log row of an unsettled message; when the first one
is then resent over a new connection, a restart puts the second text over the message, and its
ACK deletes the message's row. That is too much for TLC in five minutes: it finds the
loss in 53 steps when the others are held back, and the theorems, which have no bound,
say that it goes no further than the seqs that were filled. Two sockets are the
least with which a connection can outlive its successor's handshake; three would
add a second superseded one, which is treated alike. `MaxInFlight` 1 leaves one
frame under way per direction, and one more for an answer; the handlers treat
frames one at a time. `MaxQueue` bounds only how far the writer may fall behind:
0 means that handlers wait until the queue is empty before they queue again,
and since an operation puts several writes at once a flush can still fall
between any two of them. In `delivery` it is 1: a call then finds the last write of the
one before still in the queue, so that the order between calls counts too.

In `rooms` a third socket lets a member come back while another one joins, and two
texts are what an order needs; a fault is a break or a restart, and the run also
passes with two of them (4.4 million states). In `claim_all_members` a third
member gives the fan-out a recipient after the one whose write fails. A ring of three is the least mesh in which a message comes back to a node
over another way; the pair in `links` has both links of a simultaneous dial, and
two faults are the least with which one hits the recovery from another. The
registration can change between two hops only with three nodes and a pair of links
between two of them: `mesh` was also checked with `LineLinks` in place of the ring
(half a million states). `Cap`
leaves room for what can be under way at once, so that a full buffer is not what
those runs are about; with room for one frame and a node that floods onward TLC
shows that the heartbeat takes a peer that waits in `drain()` for a hung one. In
`recovery` three sockets let a page move there and back. In `balancer` three
events let a registration break, come again and be met by an admin's control;
the case of a --backend whose node registers too was checked with two events by
setting `Registering` to both addresses. In `page` three sockets let a tab replace
one while another tab holds one. A dedup cache of one and of two ids is
checked for all sequences of up to five ids.

Modes. `Crashes`, `Restarts`, `SqliteErrors`, `OverlapRecovery`, `Reloads` and
`Retransmits` switch a kind of event of `ChatNode` on. The properties of `delivery`
and `liveness` are stated for nodes that are stopped in an orderly way and for
handshakes that do not recover one session at the same time: with crashes or
with overlapping recoveries they do not hold. The page of app.js never
retransmits a text; `session_state.py` is written for a client that does, which
`Retransmits` adds. `WaitClosed` is whether `wait_closed()` waits for the clients, as it
does on Python 3.12 and later (the repository's README.md:13 has 3.13); where it is
FALSE the store may be stopped at any moment after `stop()` has begun, which includes the
moments of the other case, so that safety is checked for both and `liveness` has
it TRUE. `ConfirmedIsHandled` is stated without reloads, since frames of
the old connection that are processed after the reset may make a first text of a
reloaded page look like a duplicate.

Fairness. All of it is weak fairness of steps that a running process takes by
itself.

- `ChatNode`: the event loop runs every handler that can go on, the page reads what
  arrives and, having lost its connection, connects again, the retry loop comes
  round for each message, the writer thread runs, a join ends and a stopped node is
  started. Typing, sending, breaking and stopping are not fair. `EventuallySettled`
  assumes calm times, as a premise of the property.
- `Mesh`: a running node dials, accepts, reads and writes, tears down and stops to
  the end. Nothing restarts or resumes a node for certain: `LinksRestored` has that
  both stay up as its premise, `HungPeerCutOff` that one hangs for good.
- `Recovery`: handlers go on and a query times out (`wait_for`). Peers, the network
  and the balancer owe nothing.
- `Page`: browsers dispatch events, timers fire, bridge, balancer and node go on.
  The user and the faults are free. `Reconnects` has that no backend hangs for
  ever as its premise: neither lb.py:998 nor the page looks at a clock there.

## What the code does and its documents deny

- `claim_seq_not_reused`: writes are queued and committed later, the frame goes
  out at once. After a crash the node numbers from the last committed counter
  and gives a seq the page has seen to another message (session_state.py:65-67).
- `claim_all_members`: the fan-out buffers and writes for one recipient after the
  other. A write that raises ends it, and the rest of the room never gets the text
  into its outboxes (server.py:875-876). The end of the node during a fan-out,
  which cuts it short too, is left out of the statement.

Seen while modelling, without a run of their own:

- The recovery merges `message_log` rows above the inbound mark into the outbox
  (session_manager.py:82-98), "messages that were sent to this session but not yet ACKed".
  The log has the session's messages and the user's texts, one row per seq, settled
  or not, and the mark counts the texts. So acknowledged messages come
  back, a text may be put over an unsettled message of the same seq, and the ACK of the one
  deletes the row of the other: unacknowledged messages do not survive every
  restart, as the repository's README.md:209-211 has it. Without the exception for
  the seqs the recovery fills (`overlaid`), `NoLoss`, `SeqNamesOneMessage`,
  `DiskFollowsMemory` and the refinement are violated after an orderly restart.
- A write that fails between the ACK of a text and its relay, or in the fan-out, leaves a
  text acknowledged and not relayed to all, and a resend on the same connection's
  tracking is dropped as a duplicate (server.py:808, 883).
- A write to a client that fails in a delivery for the mesh ends the link before the
  message is sent on: the nodes behind do not get it (mesh.py:374).
- On Python 3.12 and later `stop()` waits in `wait_closed()` for its clients, which
  nothing disconnects (server.py:316). mesh.py:174-176 and 209-225 know this of the
  mesh's own server, close its writers first and give it a timeout.
- A backend that comes up again (NODE_STATUS, a new announcement, an admin) while a probe of the
  outage is under way may get a relay; when that probe fails it finds the backend
  as unhealthy as before and does not cut the relay (lb.py:467, 485), against
  lb.py:492-494.
- `wait_for(read_frame(reader), 0.5)` cancels a read that is between the prefix and the
  end of its frame; the prefix is lost and the body is read as the next frame
  (server.py:677; framing.py's `read_frame` reads "exactly one complete frame").
- The bridge passes frames of unknown type on to the page, which the node's codec refuses
  (ws_bridge.py:206).
- A message that is relayed while a snapshot travels finds no session at the new
  node and, at the old one, a session that nobody comes back to (server.py:558).
- A connection is registered before the handshake is answered, and the cleanup after
  a failed answer does not know the session: the entry counts as a connected member
  (server.py:966-970 says otherwise) and every text said in that room ends the
  connection of its author, until that user logs in again (server.py:579).
- Two recoveries of one session at the same time install over each other
  (session_manager.py:62).
- Frames of the old connection that are processed after a reset of the inbound
  tracking let a first text of a reloaded page look like a duplicate (server.py:344).
- With a duplicate link that is already broken when its PEER_HELLO is handled, the
  good registration is replaced, and the end of the broken link then leaves the peer
  unregistered although the other link serves (mesh.py:266, 318). `WholeArrives` is
  about messages relayed when no pair has such a link (`Settled`); without that TLC
  finds it violated in a line of three nodes with such a pair (`LineLinks`).
- With room for one frame per direction the heartbeat of a node that waits in
  `drain()` takes its peer for hung, or waits for ever itself (mesh.py:399, 428).
- `_active_relays` is keyed by mutable objects that compare equal by their fields, so
  an entry can be missed or shared (lb.py:128, 504, 1073); a relay that is still in
  its handshake when its backend goes is not cut (lb.py:1073).
- A page whose LOGIN is taken by a backend that hangs waits as long as it does
  (lb.py:998).
- The finally block of `_handle_client` names a variable that is unbound if the first
  frame fails (lb.py:1040).

## Proofs

TLAPS checks every safety invariant and action property of the passing runs but
two, and the refinement of `Mailbox`, for all values of the constants that
satisfy the assumptions of the module (every run evaluates them). Where a theorem
needs a mode, the mode is a hypothesis that can be read in its statement, and it is
the one the run has, or a weaker one. A property that is not inductive is proved with the
invariant named below. TLC has checked each of these invariants on the
instance of the run it is for.

### Every mode of the node (`ChatNodeProofs`, `DeliveryProofs`)

For any number of messages, texts, sockets and seqs:

- `TypeCorrect`: `TypeOK`. The type invariant alone is not inductive:
  `StartReplay`, `HandleAckFrame` and `ProcessText` apply operations to the
  session and to the head of the input. `NodeInv` adds that a handler past the
  recovery has a loaded session and that a handler that has acknowledged a text
  still has it at the head of its input. One lemma for each action shows that it
  keeps `NodeInv`.
- `TrackingCorrect`: `InboundTracking`, inductive together with
  `NodeInv`. It rests on `AdvancedProperty`, that the while loop of
  `mark_inbound_processed` ends at the first gap (the smallest element of the set
  of gaps, which has `MaxSeq` as a member), and on `MarkInboundProperty`.
- `RelaysOnceBetweenResets`: `NothingRepeated`, since
  `should_process_inbound` answers whether the seq is outside what the tracking
  counts as processed.
- `CommittedRowsStay`: `DurableRowsSettle`, over crashes and sqlite errors too. The
  property speaks of what is committed, the cause lies in what is queued: `OnlyAckedGo`
  says that every delete in the queue or in the current batch is of an
  acknowledged seq.

### Some modes of the node

- `CommittedNumbersGrow`: `DurableNextGrows`, and `RegistrationFollowsPage`:
  `OpenConnectionRegistered`, from `OverlapRecovery = FALSE`, with crashes, restarts
  and sqlite errors. The numbers in the tables, the batch, the queue, the read of a
  recovery and the session must ascend in this order (`NumbersGrow`), and the one
  handler that recovers must be alone with no session loaded (`RecoveryAlone`),
  or it would install an older number.
- `AckedIsHandled`: `ConfirmedIsHandled`, from `InboundMode`: no crash, restart
  or reload of the page; retransmissions, failing writes, sqlite errors and overlapping
  recoveries may occur. Handled is relayed, or given up with a handler that a failed write
  ended. `InboundInv` says that a seq that counts as processed, in the session or in a
  row it could be recovered from, is that of a text that has been handled
  (`ProcessedIsHandled`), that the page numbers its texts apart (`TextsNumbered`), and
  that the promise is kept by the ACKs on their way too (`AcksPromise`).
- `NothingIsLost` (`NoLoss`), `SeqsNameMessages` (`SeqNamesOneMessage`), `WriterCatchesUp`
  (`DiskFollowsMemory`) and `SessionIsMailbox` (`ImplementsMailbox`), from
  `DeliveryMode`: no sqlite errors, crashes or overlapping recoveries; the user types,
  the page is reloaded and the node restarted as often as one likes. What a recovery fills
  from the message log (`overlaid`) is excepted in the properties, and the proof shows that the
  damage stays there: a message that is not under such a seq keeps its place.
  `DeliveryInv` relates session, queue, batch and tables seq by seq: the last
  queued operation on a seq settles it to what the session holds (`QueueSettles`,
  `QueueNumbers`), a recovery that runs has read everything committed
  (`RecoveryReadsAll`), a node stops with its queue on the way to the disk
  (`OrderlyStop`), the outbox tables name messages by the seqs they were given and so
  do frames, replay lists and the session where no recovery has filled the seq
  (`TablesNameAssigned`, `FramesNameAssigned`, `AssignedOnce`), and what the
  log has is a text or such a message (`LogsKnown`). For the refinement, `StepMailbox`
  shows that a step accepts one message, displays some, drops displayed ones, waives what
  a recovery fills, or leaves all four as they are.

### Rooms (`RoomsProofs`)

For any finite set of members and any rooms, capacity, sockets, links and texts:

- `SessionsStayInTheirRoom`: `RoomSurvives`. It is not inductive: `FanOut` and
  `Say` write the room of a session to its row, `Recover` reads the row. `RoomsInv` adds
  that the row of a session is in the room it last moved to (`RowsKeep`), that a
  handler past the recovery has its session loaded (`HandlersSit`), and that a speaker
  has one fan-out, over loaded sessions (`FansSit`).
- `JoinersFindSeats`: `JoinersFit`. No step but a join brings a joiner into
  a room (`OthersBringNoJoiner`, which needs that a session being recovered came by
  LOGIN or HELLO), and a join finds less than the capacity (`JoinFindsSeat`).
- `EarlierTextsFirst`: `NothingSkipped`. `TextsInv` adds to `RoomsInv` that a text is
  said once, that the text of a fan-out is its speaker's last, and, the heart of
  it, that as long as a speaker may still speak each of its texts has reached
  everyone it was meant for or is in its only fan-out (`Delivered`). A restart, which ends
  fan-outs halfway, also ends every speaker that has spoken.

### Mesh (`MeshProofs`)

For any nodes, links, messages, capacity and number of faults:

- `RegisteredLinksServe`: `RegisteredServes`; `RegistrationsEndWithTheirLink`:
  `NewerLinkStays`; `StopClosesServedLinks`: `StopCutsServedLinks`. `LinkInv` adds the
  types and that an end that serves is among the writers `stop()` closes.
- `FloodsHandleOnce`: `HandledOnce`, from `RemembersAll`, that the cache has room
  for every id (with a smaller cache a message that comes back late is taken for a
  new one, which is what the bound is for). `FloodInv` adds where a message may be: one
  that nobody has relayed is nowhere (`Unsent`), one that was handled or relayed is
  in the cache (`HandledSeen`), and a task that is about to handle it is the only one
  (`Pending`). `FrameInv` has that the first frame on a link is its PEER_HELLO and
  that only ends that serve flood.
- `WholeFloodsArrive`: `WholeArrives`, from `RemembersAll` and `HoldsAll`, that a
  connection has room for every message there is and a PEER_HELLO. The second
  one cannot go either: with `Cap` 1 TLC finds `WholeArrives` violated, since
  a node that waits in `drain()` is cut off (mesh.py:399). A local delivery that raises
  is one of the faults which end the promise for what is under way. Two
  nodes may have one link or two, also with every node dialing every other one, as
  run_stack.py starts them.

  The argument is in two parts. `OnceInv`, which holds whatever happens, has that a
  frame is on a connection once, that a message on it comes from a node that has
  handled it, and that a node has one flood for a message, which is to write only
  where the message is not yet: so a flood never waits (`RoomForFloods`), and
  the heartbeat never ends a live link between nodes that are up (`LiveNotEnded`).
  `WholeInv` then says of a message relayed with all in reach and no fault since that
  its copies are on live links (`OnLiveLinks`), that who has seen it handles it
  (`SeenHandled`), and that along a set of links by which the origin reached
  everyone each node that has handled the message has brought it to the next one, has
  it on the way there or is still to write it (`Spreads`, `Covered`). The links in
  the set may be replaced meanwhile, by another live one of the same pair
  (`FirmStays`), which is what `Settled` is needed for.

### The session that moves (`RecoveryProofs`)

For any nodes, sockets, messages and faults, from `~Overlap`, and for a session without
texts (`SilentUser`, which the module assumes, see Recovery above):

- `NumbersGoOn`: `NumberedAbove`; `MovesBringMessages`: `MoveBringsOwed`; `TablesGoForward`:
  `NeverTakenBack`. `MoveInv` adds that there is one handshake at a time, that nothing
  loads the session at its node while it looks for it (`HandshakesWait`), that the
  tables know no more than memory (`TablesLag`), that the two reads of a peer that
  answers from its tables agree with them (`ReadsAgree`), and that what a peer held
  when it was asked is under way, found or displayed until the handshake ends
  (`OwedKept`). The hypothesis cannot go: in `recovery.cfg` with `Overlap`
  TRUE, TLC finds each of the three properties violated.

### Load balancer (`BalancerProofs`)

For any addresses, objects, registrations, clients, sessions and number of events;
the invariants build on each other:

- `AddressesAreUnique`: `OneBackendPerAddress`. `PoolInv` adds that objects are
  typed and that the pool holds made ones. A backend comes into the pool only by
  `Announce` for an address that has none (`AnnounceKeeps`) and by the constructor at a
  restart, which makes its objects by an injection (`StaticBackends`); the other steps
  take backends out or leave their address as it is (`AddressesKept`).
- `FreshRegistrationsStay`: `FreshRegistrationStays`. `LeaseInv` has that an epoch of
  a backend is the lease of one connection, that the lease that holds is on an object of
  the pool, and that an open registration holds its node's.
- `DoomedRelaysAreCut`: `DoomedIsCut`. `DoomedInv` says it with the object where the
  property says it with the key the code looks under, and adds that such a connection
  has reached its relay; `ClientInv` types the connections, relays and calls under way.
  `LateInv` is what a failing probe needs: a relay on a backend that is down, or
  whose probe began when it was, is doomed already or late; so a probe that finds its
  backend as unhealthy as before leaves no relay uncut that is not late.
- `EntriesFollowTheirOwner`: `OwnerActive`. An entry is active just as long as its
  connection goes by that key (`TableInv`).
- `SessionsStick`: `StickyWhileUp`. `HomeInv` says where a session is stuck to: Redis
  has it, the cache has nothing else, and a connection that is past the look-up
  knows it (`HomesSettled`, `AnswersKnow`).

### Page (`PageProofs`)

For any tabs, sockets and faults; nothing is assumed of what arrives on a socket,
so the theorems hold whatever bridge, balancer and node do:

- `ConnectedMeansAnswered`: `ConnectedIsLive`; `ReconnectsOneByOne`: `OneAttempt`;
  `ReplacedTabsStayOff`: `EvictedStaysOff`. `PageInv` adds that the socket in charge of a tab is
  its own and has not had its close event (`SocketsInCharge`), and that a tab is in
  one phase: form, connected, waiting for its timer or for its attempt (`OnePhase`).

### What the proofs changed

- `StickyWhileUp` turned out not to follow: with three clients and five events (found
  by TLC's simulation) a connection whose dial had failed still counted as owed the
  backend when another connection had brought the session back to it. The
  code leaves out the backends it has tried (lb.py:961-976), so the failed dial in `Open` now
  clears `want`, the record of what the property asks for.
- `BalancerAssumption` says that the markers are not members of the sets, and
  `MeshAssumption` that the set of nodes is finite.
- `Without` in `DedupCache` is there since the provers have no theory of
  `SelectSeq`, on which the library's `Remove` rests.

For who extends the proofs: tlapm 1.4.5 takes the updates of
`[f EXCEPT ![k].a = x, ![k].b = y]` for updates of different elements and then proves
anything, so several fields of one element are changed by
`[f EXCEPT ![k] = [@ EXCEPT !.a = x, !.b = y]]` throughout. That the hypotheses of a
lemma are consistent was checked by asking the prover for `FALSE` from them.

### Only model-checked

- `ForgetsOldestOnly` and `ReadsWhatWasWritten` compare folds with reference definitions over
  bounded inputs: for all inputs they need induction over sequences, whose
  theorems take an operator as a parameter, which the installed provers cannot
  instantiate.
- Everything that must eventually happen, and so `ENABLED`, is out of the prover's
  reach: `EventuallySettled`, `StopEnds`, `LinksRestored`, `HungPeerCutOff`,
  `EventuallyServed`, `Reconnects`, `PairEndsTogether`.

## Not modelled

- Accounts (auth_store.py, database.py, create_admin.py): each operation is one
  transaction on one table; whether a login is accepted is a choice in `Page` and
  `Balancer`, and the check in front of a session changes nothing a session has.
- The HTTP server and threads of admin_server.py and the dashboard admin.html. The
  requests that change the balancer are actions of `Balancer`, one at a time: in the
  code they run in other threads without a lock (lb.py:799), which the model leaves
  out together with home and current server, `_rebalance_clients`, simulated clients
  and route counts, all of which only the dashboard shows.
- Launchers and argument parsing (run_stack.py, main.py, run_lb.py, run_node.py,
  run_tests.py): processes are there or restart.
- The DOM, forms and styles of the page; wording and logging everywhere.
- Errors of Redis, and time: a timeout may fire at any moment at which the code
  waits, if the other side does not answer.
- JSON: a payload is a token. Passwords and tokens.

## Plan

1. The liveness arguments as far as they are safety: that a handler that waits is
   always waiting for a step another process can take.
2. `Overlap` and `OverlapRecovery` with the sockets they need, if an abstract
   specification is found that says what is left of delivery there.
