-------------------------------- MODULE Page --------------------------------
(***************************************************************************)
(* How a browser tab gets and keeps its connection: the login form, the    *)
(* socket handlers and the reconnect timer of frontend/app.js, and the     *)
(* pair of connections in ingress/ws_bridge.py behind each socket.  All    *)
(* tabs are logged in to one account on one node, which evicts.            *)
(*                                                                         *)
(* A handler of the page, with the promise callbacks it sets off, is one   *)
(* step.  The balancer and the node are what the page sees of them.        *)
(***************************************************************************)
EXTENDS Integers, Sequences

CONSTANTS Tabs,
          Sockets,   \* identities of sockets, used again when they are over
          NoSocket, NoTab,
          MaxFaults  \* refusals, failed dials, lost connections, hung backends

ASSUME PageAssumption ==
    NoSocket \notin Sockets /\ NoTab \notin Tabs /\ MaxFaults \in Nat

VARIABLES
    tab,      \* [Tabs -> the fields of ClusterTalkClient]
    owner,    \* [Sockets -> the tab whose handlers the socket has]
    ws,       \* [Sockets -> opening, open, closing (by the page), over]
    frames,   \* [Sockets -> frames on their way to the page, "end" for the close]
    link,     \* [Sockets -> the bridge's TCP connection and what is behind it]
    evicting, \* [Sockets -> no, due or told: the node's _evict task]
    conn,     \* the node's _connections entry of the account
    faults,
    got,      \* history: sockets whose LOGIN_ACK the page has taken
    replaced  \* history: tabs told while connected that a newer login replaced them

pageVars == <<tab, owner, ws, got, replaced>>
backVars == <<link, evicting, conn>>
vars == <<pageVars, frames, backVars, faults>>

\* _socket, _connected, _hasAuthenticated, _reconnecting, _suppressReconnect,
\* whether a reconnect timer is set, whether its callback awaits connect(),
\* whether _loginReject is set, and whether the form is up.
NewTab == [socket |-> NoSocket, connected |-> FALSE, authed |-> FALSE, reconnecting |-> FALSE,
           suppress |-> FALSE, timer |-> FALSE, awaits |-> FALSE, reject |-> TRUE,
           form |-> TRUE]

Init ==
    /\ tab = [p \in Tabs |-> NewTab]
    /\ ws = [s \in Sockets |-> "over"] /\ owner = [s \in Sockets |-> NoTab]
    /\ frames = [s \in Sockets |-> <<>>] /\ link = [s \in Sockets |-> "off"] /\ evicting = [s \in Sockets |-> "no"]
    /\ conn = NoSocket /\ faults = 0 /\ got = {} /\ replaced = {}

Fault == faults < MaxFaults /\ faults' = faults + 1
Say(s, fs) == frames' = IF ws[s] = "open" THEN [frames EXCEPT ![s] = @ \o fs] ELSE frames

----------------------------------------------------------------------------
\* The page

Reset(t) == [t EXCEPT !.timer = FALSE, !.authed = FALSE]
\* Faulty variant: the flag of the connection before is kept (FIX #1).
KeepsFlag(t) == [t EXCEPT !.timer = FALSE]
ForAttempt(t) == Reset(t)

\* proceed(): the socket in charge is closed and another takes its place.
Proceed(p, t) == \E s \in Sockets :
    /\ ws[s] = "over" /\ link[s] = "off"
    /\ tab' = [tab EXCEPT ![p] = [ForAttempt(t) EXCEPT !.socket = s]]
    /\ owner' = [owner EXCEPT ![s] = p]
    /\ frames' = [x \in Sockets |-> IF x = t.socket THEN <<>> ELSE frames[x]]
    /\ ws' = [x \in Sockets |-> IF x = s THEN "opening"
                                ELSE IF x = t.socket THEN "closing" ELSE ws[x]]
    /\ UNCHANGED <<got, replaced, backVars>>

\* The user submits the form, for as long as it is up, also a second time.
Submit(p) ==
    /\ tab[p].form /\ Proceed(p, tab[p])
    /\ IF tab[p].socket = NoSocket THEN UNCHANGED faults ELSE Fault

\* The reconnect timer: connect({silent: true}) with the saved credentials.
TimerFires(p) ==
    /\ tab[p].timer
    /\ Proceed(p, [tab[p] EXCEPT !.timer = FALSE, !.awaits = TRUE, !.reject = TRUE])
    /\ UNCHANGED faults

\* Faulty variant: events of a replaced socket count (FIX #5).
AnySocket(s) == TRUE
InCharge(s) == tab[owner[s]].socket = s

\* The end of connect() in the timer's callback: finally, after then or catch.
Resolved(t) == IF t.awaits THEN [t EXCEPT !.awaits = FALSE, !.timer = FALSE, !.reconnecting = FALSE] ELSE t
\* Faulty variant: one attempt, and no more.
RejectedForGood(t) == [t EXCEPT !.awaits = FALSE, !.reconnecting = FALSE]
Rejected(t) == IF t.awaits THEN [t EXCEPT !.awaits = FALSE, !.timer = TRUE, !.reconnecting = FALSE] ELSE t

Schedule(t) == IF t.reconnecting THEN t ELSE [t EXCEPT !.reconnecting = TRUE, !.timer = TRUE]

\* Faulty variant: an eviction is a drop like any other (FIX #6).
EvictedLikeADrop(t) == t
Suppressed(t) == [t EXCEPT !.suppress = TRUE]

OnMessage(s) ==
    LET p == owner[s]  t == tab[p]  f == Head(frames[s])
        Take(new, closes) == /\ tab' = [tab EXCEPT ![p] = new]
                             /\ ws' = [ws EXCEPT ![s] = IF closes THEN "closing" ELSE @]
                             /\ frames' = [frames EXCEPT ![s] = IF closes THEN <<>> ELSE Tail(@)]
    IN
    /\ ws[s] = "open" /\ frames[s] # <<>> /\ f # "end" /\ InCharge(s)
    /\ \/ f = "LOGIN_ACK" /\ Take([Resolved(t) EXCEPT !.connected = TRUE, !.authed = TRUE,
                                                      !.reject = FALSE, !.form = FALSE], FALSE)
       \/ f = "refused" /\ Take(t, FALSE)
       \/ f = "logged_in_elsewhere" /\ Take(Suppressed(t), TRUE)
       \/ f \in {"no_healthy_backend", "DISCONNECT"} /\ Take(t, TRUE)
    /\ got' = IF f = "LOGIN_ACK" THEN got \cup {s} ELSE got
    /\ replaced' = IF f = "logged_in_elsewhere" /\ t.connected THEN replaced \cup {p} ELSE replaced
    /\ UNCHANGED <<owner, backVars, faults>>

\* onclose, its socket replaced or in charge.  A socket that is over is as good
\* as none.
AfterClose(t) ==
    LET u == [t EXCEPT !.suppress = FALSE, !.connected = FALSE, !.socket = NoSocket] IN
    IF ~t.authed THEN IF t.reject THEN [Rejected(u) EXCEPT !.reject = FALSE] ELSE u
    ELSE IF t.suppress THEN u ELSE Schedule(u)

OnClose(s) ==
    /\ ws[s] = "closing" \/ (ws[s] = "open" /\ frames[s] = <<"end">>)
    /\ ws' = [ws EXCEPT ![s] = "over"] /\ got' = got \ {s}
    /\ frames' = [frames EXCEPT ![s] = <<>>]
    /\ tab' = IF InCharge(s) THEN [tab EXCEPT ![owner[s]] = AfterClose(@)] ELSE tab
    /\ UNCHANGED <<owner, replaced, backVars, faults>>

----------------------------------------------------------------------------
\* The bridge

\* The WebSocket opens and the page sends its LOGIN; or there is no bridge.
Accept(s) ==
    /\ ws[s] = "opening" /\ ws' = [ws EXCEPT ![s] = "open"]
    /\ link' = [link EXCEPT ![s] = "dial"]
    /\ UNCHANGED <<tab, owner, got, replaced, frames, evicting, conn, faults>>
Unreachable(s) ==
    /\ ws[s] = "opening" /\ ws' = [ws EXCEPT ![s] = "closing"] /\ Fault
    /\ UNCHANGED <<tab, owner, got, replaced, frames, backVars>>

\* run(): the dial, after which the LOGIN is passed on.
Dial(s) ==
    /\ link[s] = "dial" /\ link' = [link EXCEPT ![s] = "login"]
    /\ UNCHANGED <<pageVars, frames, evicting, conn, faults>>
DialFails(s) ==
    /\ link[s] = "dial" /\ link' = [link EXCEPT ![s] = "off"] /\ Fault
    /\ Say(s, <<"DISCONNECT", "end">>)
    /\ UNCHANGED <<pageVars, evicting, conn>>

\* The node's handler cleans up behind a connection that has ended.
Leaves(s) == /\ conn' = IF conn = s THEN NoSocket ELSE conn
             /\ evicting' = [evicting EXCEPT ![s] = "no"]

\* _tcp_to_browser at the end of the backend's stream.
BackendEnds(s) ==
    /\ link[s] = "eof" /\ link' = [link EXCEPT ![s] = "off"]
    /\ Say(s, <<"DISCONNECT", "end">>)
    /\ UNCHANGED <<pageVars, evicting, conn, faults>>

\* Faulty variant: run() waits until both directions have ended.
BothEnded(s) == FALSE
BrowserEnded(s) == ws[s] \in {"closing", "over"}

\* _browser_to_tcp ends first: the other task is cancelled, the backend closed.
BrowserEnds(s) ==
    /\ BrowserEnded(s) /\ link[s] \notin {"off", "eof"}
    /\ link' = [link EXCEPT ![s] = "off"] /\ Leaves(s)
    /\ UNCHANGED <<pageVars, frames, faults>>

----------------------------------------------------------------------------
\* Balancer and node

Answers(s, f, next) ==
    /\ link[s] = "login" /\ link' = [link EXCEPT ![s] = next] /\ Say(s, f)
    /\ UNCHANGED <<pageVars, evicting, conn>>
\* A wrong password ends the connection; without a backend the balancer waits
\* for another frame, for a while.
Refuse(s) == Answers(s, <<"refused">>, "eof") /\ Fault
NoBackend(s) == Answers(s, <<"no_healthy_backend">>, "told") /\ Fault
GivesUp(s) == /\ link[s] = "told" /\ link' = [link EXCEPT ![s] = "eof"]
              /\ UNCHANGED <<pageVars, frames, evicting, conn, faults>>
\* The backend is stuck with the LOGIN, its socket open, until it dies: neither
\* the balancer nor the page looks at a clock here.
Hang(s) == /\ link[s] = "login" /\ Fault
           /\ link' = [link EXCEPT ![s] = "hung"]
           /\ UNCHANGED <<pageVars, frames, evicting, conn>>
HungDies(s) == /\ link[s] = "hung" /\ link' = [link EXCEPT ![s] = "eof"]
               /\ UNCHANGED <<pageVars, frames, evicting, conn, faults>>

\* _setup_session_for_user: the entry and the eviction first, the answer once
\* the session is there.
Register(s) ==
    /\ link[s] = "login" /\ link' = [link EXCEPT ![s] = "registered"]
    /\ conn' = s
    /\ evicting' = [x \in Sockets |-> IF x = conn /\ x # s THEN "due" ELSE evicting[x]]
    /\ UNCHANGED <<pageVars, frames, faults>>
LoginAck(s) ==
    /\ link[s] = "registered" /\ link' = [link EXCEPT ![s] = "served"]
    /\ Say(s, <<"LOGIN_ACK">>)
    /\ UNCHANGED <<pageVars, evicting, conn, faults>>

\* _evict, which may come before the LOGIN_ACK of the evicted handshake.
Evict(s) ==
    /\ evicting[s] = "due" /\ evicting' = [evicting EXCEPT ![s] = "told"]
    /\ Say(s, <<"logged_in_elsewhere">>)
    /\ IF link[s] = "registered" THEN Fault ELSE UNCHANGED faults
    /\ UNCHANGED <<pageVars, link, conn>>
EvictCloses(s) ==
    /\ evicting[s] = "told" /\ link' = [link EXCEPT ![s] = "eof"] /\ Leaves(s)
    /\ UNCHANGED <<pageVars, frames, faults>>

\* The node dies, or the balancer cancels the relay.
Drop(s) ==
    /\ link[s] \in {"login", "registered", "served"} /\ Fault
    /\ link' = [link EXCEPT ![s] = "eof"] /\ Leaves(s)
    /\ UNCHANGED <<pageVars, frames>>

SocketStep(s) == \/ OnMessage(s) \/ OnClose(s) \/ Accept(s) \/ Dial(s)
                 \/ BackendEnds(s) \/ BrowserEnds(s) \/ GivesUp(s)
                 \/ Register(s) \/ LoginAck(s) \/ Evict(s) \/ EvictCloses(s)
Trouble(s) == \/ Unreachable(s) \/ DialFails(s) \/ Refuse(s) \/ NoBackend(s)
              \/ Hang(s) \/ HungDies(s) \/ Drop(s)
Next == \/ \E p \in Tabs : Submit(p) \/ TimerFires(p)
        \/ \E s \in Sockets : SocketStep(s) \/ Trouble(s)

\* Browsers dispatch their events, timers fire, tasks go on; the user and the
\* troubles are free.
Fairness ==
    /\ \A p \in Tabs : WF_vars(TimerFires(p))
    /\ \A s \in Sockets :
        /\ WF_vars(OnMessage(s)) /\ WF_vars(OnClose(s))
        /\ WF_vars(Accept(s)) /\ WF_vars(Dial(s))
        /\ WF_vars(BackendEnds(s)) /\ WF_vars(BrowserEnds(s)) /\ WF_vars(GivesUp(s))
        /\ WF_vars(Register(s)) /\ WF_vars(LoginAck(s))
        /\ WF_vars(Evict(s)) /\ WF_vars(EvictCloses(s))

Spec == Init /\ [][Next]_vars
FairSpec == Spec /\ Fairness
----------------------------------------------------------------------------
\* Properties

\* The tab counts as connected exactly while the socket in charge has been
\* answered, and no reconnect is then under way: a late event of a replaced
\* socket changes neither.
ConnectedIsLive == \A p \in Tabs : LET t == tab[p] IN
    /\ t.connected <=> t.socket \in got
    /\ t.connected => ~t.timer /\ ~t.awaits

\* One reconnect at a time, and never one that nobody will finish: the timer's
\* callback waits only while its socket can still bring it an answer or an end.
OneAttempt == \A p \in Tabs : LET t == tab[p] IN
    /\ ~(t.timer /\ t.awaits)
    /\ t.awaits => t.socket # NoSocket /\ ws[t.socket] \in {"opening", "open", "closing"}

\* A tab that has been logged in and was then replaced by a newer login stays
\* off: two tabs of one account do not take turns.
EvictedStaysOff == \A p \in replaced : ~tab[p].timer /\ ~tab[p].awaits

\* A tab that was logged in is connected again or has been told that a newer login
\* replaced it, unless a backend that took its LOGIN hangs for ever.  The newer login
\* may be an older one of its own, which a dead socket brings late: that tab stays
\* off too.
Reconnects == (\A s \in Sockets : []<>(link[s] # "hung")) => \A p \in Tabs :
    <>[](~tab[p].form) => <>[](tab[p].connected \/ p \in replaced)

HalfOpen(s) == \/ ws[s] = "over" /\ link[s] # "off"
               \/ ws[s] = "open" /\ link[s] = "eof"

\* The two connections of a bridge session end together: neither outlives the
\* other for good.
PairEndsTogether == \A s \in Sockets : []<>~HalfOpen(s)
=============================================================================
