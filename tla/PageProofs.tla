----------------------------- MODULE PageProofs -----------------------------
(***************************************************************************)
(* The page's connection, for any number of tabs, sockets and troubles.    *)
(* Nothing is assumed of what arrives on a socket, and when: what the      *)
(* invariants say of the page holds whatever bridge, balancer and node do. *)
(***************************************************************************)
EXTENDS Page, TLAPS

Client == [socket : Sockets \cup {NoSocket}, connected : BOOLEAN, authed : BOOLEAN,
           reconnecting : BOOLEAN, suppress : BOOLEAN, timer : BOOLEAN, awaits : BOOLEAN,
           reject : BOOLEAN, form : BOOLEAN]

PageTypes ==
    /\ tab \in [Tabs -> Client]
    /\ ws \in [Sockets -> {"opening", "open", "closing", "over"}]
    /\ owner \in [Sockets -> Tabs \cup {NoTab}]
    /\ got \subseteq Sockets /\ replaced \subseteq Tabs

\* The socket in charge of a tab is its own and has not had its close event.
SocketsInCharge ==
    /\ \A s \in Sockets : ws[s] # "over" => owner[s] \in Tabs
    /\ \A p \in Tabs : tab[p].socket # NoSocket =>
           owner[tab[p].socket] = p /\ ws[tab[p].socket] # "over"
    /\ \A s \in got : ws[s] \in {"open", "closing"}

\* A tab shows the form, is connected, waits for its timer or for its attempt to
\* reconnect, or has none of these to do; only a tab that was logged in sets a
\* timer, and an attempt that is awaited can still be rejected.
Phase(t) ==
    /\ t.form => ~t.authed /\ ~t.timer /\ ~t.awaits
    /\ t.connected => t.authed /\ ~t.timer /\ ~t.awaits /\ t.socket # NoSocket
    /\ t.timer => t.socket = NoSocket
    /\ t.awaits => t.reject /\ ~t.authed /\ t.socket # NoSocket

OnePhase == \A p \in Tabs : Phase(tab[p]) /\ (tab[p].connected <=> tab[p].socket \in got)

\* A replaced tab has no reconnect under way, and the close of its last socket
\* will not begin one.
ReplacedIsOff == \A p \in replaced :
    /\ ~tab[p].form /\ ~tab[p].timer /\ ~tab[p].awaits
    /\ tab[p].socket # NoSocket =>
           tab[p].authed /\ tab[p].suppress /\ ws[tab[p].socket] = "closing"

PageInv == PageTypes /\ SocketsInCharge /\ OnePhase /\ ReplacedIsOff

LEMMA PageInit == Init => PageInv
  BY PageAssumption
  DEF Init, PageInv, PageTypes, Client, NewTab, SocketsInCharge, OnePhase, Phase, ReplacedIsOff

----------------------------------------------------------------------------
\* What the page does to its fields

LEMMA AttemptFields ==
    ASSUME NEW t \in Client, Phase(t), ~t.connected, NEW s \in Sockets, t.form \/ t.timer
    PROVE  LET u == [ForAttempt(t) EXCEPT !.socket = s]
               v == [ForAttempt([t EXCEPT !.timer = FALSE, !.awaits = TRUE, !.reject = TRUE])
                        EXCEPT !.socket = s]
           IN  /\ t.form => u \in Client /\ Phase(u) /\ u.socket = s /\ ~u.connected
               /\ t.timer => v \in Client /\ Phase(v) /\ v.socket = s /\ ~v.connected
  BY PageAssumption DEF Client, Phase, ForAttempt, Reset

LEMMA AnsweredFields ==
    ASSUME NEW t \in Client, Phase(t), t.socket # NoSocket
    PROVE  LET u == [Resolved(t) EXCEPT !.connected = TRUE, !.authed = TRUE,
                                        !.reject = FALSE, !.form = FALSE]
           IN  u \in Client /\ Phase(u) /\ u.socket = t.socket /\ u.connected /\ u.suppress = t.suppress
<1>1. CASE t.awaits  BY <1>1 DEF Client, Phase, Resolved
<1>2. CASE ~t.awaits  BY <1>2 DEF Client, Phase, Resolved
<1> QED  BY <1>1, <1>2

LEMMA SuppressedFields ==
    ASSUME NEW t \in Client, Phase(t)
    PROVE  /\ Suppressed(t) \in Client /\ Phase(Suppressed(t)) /\ Suppressed(t).suppress
           /\ Suppressed(t).socket = t.socket /\ Suppressed(t).connected = t.connected
           /\ Suppressed(t).form = t.form /\ Suppressed(t).authed = t.authed
           /\ Suppressed(t).timer = t.timer /\ Suppressed(t).awaits = t.awaits
  BY DEF Client, Phase, Suppressed

LEMMA ClosedFields ==
    ASSUME NEW t \in Client, Phase(t), t.socket # NoSocket
    PROVE  LET u == AfterClose(t) IN
           /\ u \in Client /\ Phase(u) /\ u.socket = NoSocket /\ ~u.connected /\ u.form = t.form
           /\ t.authed /\ t.suppress /\ ~t.form => ~u.timer /\ ~u.awaits
<1> DEFINE c == [t EXCEPT !.suppress = FALSE, !.connected = FALSE, !.socket = NoSocket]
<1>1. /\ c \in Client /\ c.socket = NoSocket /\ ~c.connected /\ c.form = t.form
      /\ c.timer = t.timer /\ c.awaits = t.awaits /\ c.authed = t.authed /\ c.reject = t.reject
  BY DEF Client
<1>2. ~t.timer  BY DEF Phase
<1> HIDE DEF c
<1>3. AfterClose(t) =
        IF ~t.authed THEN IF t.reject THEN [Rejected(c) EXCEPT !.reject = FALSE] ELSE c
        ELSE IF t.suppress THEN c ELSE Schedule(c)
  BY DEF AfterClose, c
<1>4. CASE ~t.authed /\ t.reject
  <2>1. CASE c.awaits
    BY <1>1, <1>2, <1>3, <1>4, <2>1 DEF Client, Phase, Rejected
  <2>2. CASE ~c.awaits
    BY <1>1, <1>2, <1>3, <1>4, <2>2 DEF Client, Phase, Rejected
  <2> QED  BY <2>1, <2>2
<1>5. CASE ~t.authed /\ ~t.reject  BY <1>1, <1>2, <1>3, <1>5 DEF Phase
<1>6. CASE t.authed /\ t.suppress  BY <1>1, <1>2, <1>3, <1>6 DEF Phase
<1>7. CASE t.authed /\ ~t.suppress
  <2>1. CASE c.reconnecting  BY <1>1, <1>2, <1>3, <1>7, <2>1 DEF Phase, Schedule
  <2>2. CASE ~c.reconnecting
    BY <1>1, <1>2, <1>3, <1>7, <2>2 DEF Client, Phase, Schedule
  <2> QED  BY <2>1, <2>2
<1> QED  BY <1>4, <1>5, <1>6, <1>7 DEF Client

----------------------------------------------------------------------------
\* Every action keeps the invariant.

\* A new attempt takes a fresh socket, and the one before is no longer in charge.
LEMMA ProceedKeeps ==
    ASSUME PageInv, NEW p \in Tabs, Submit(p) \/ TimerFires(p)
    PROVE  PageInv'
<1>1. PICK t : t = tab[p]  OBVIOUS
<1>2. t \in Client /\ Phase(t) /\ (t.connected <=> t.socket \in got)
  BY <1>1 DEF PageInv, PageTypes, OnePhase
<1>3. t.form \/ t.timer  BY <1>1 DEF Submit, TimerFires
<1>4. ~t.connected /\ p \notin replaced
  BY <1>1, <1>2, <1>3 DEF Phase, PageInv, ReplacedIsOff
<1>5. PICK s \in Sockets, u \in Client :
        /\ Phase(u) /\ u.socket = s /\ ~u.connected /\ ws[s] = "over"
        /\ tab' = [tab EXCEPT ![p] = u] /\ owner' = [owner EXCEPT ![s] = p]
        /\ ws' = [x \in Sockets |-> IF x = s THEN "opening"
                                    ELSE IF x = t.socket THEN "closing" ELSE ws[x]]
        /\ UNCHANGED <<got, replaced>>
  <2>1. CASE Submit(p)
    <3>1. t.form  BY <2>1, <1>1 DEF Submit
    <3>2. PICK s \in Sockets :
            /\ ws[s] = "over" /\ owner' = [owner EXCEPT ![s] = p]
            /\ tab' = [tab EXCEPT ![p] = [ForAttempt(t) EXCEPT !.socket = s]]
            /\ ws' = [x \in Sockets |-> IF x = s THEN "opening"
                                        ELSE IF x = t.socket THEN "closing" ELSE ws[x]]
            /\ UNCHANGED <<got, replaced>>
      BY <2>1, <1>1 DEF Submit, Proceed
    <3>3. PICK u : u = [ForAttempt(t) EXCEPT !.socket = s]  OBVIOUS
    <3>4. u \in Client /\ Phase(u) /\ u.socket = s /\ ~u.connected
      BY <3>1, <3>3, <1>2, <1>4, AttemptFields
    <3>5. tab' = [tab EXCEPT ![p] = u]  BY <3>2, <3>3
    <3> QED  BY <3>2, <3>4, <3>5
  <2>2. CASE TimerFires(p)
    <3>1. t.timer  BY <2>2, <1>1 DEF TimerFires
    <3>2. PICK b : b = [t EXCEPT !.timer = FALSE, !.awaits = TRUE, !.reject = TRUE]  OBVIOUS
    <3>3. b.socket = t.socket  BY <3>2, <1>2 DEF Client
    <3>4. Proceed(p, b)  BY <2>2, <1>1, <3>2 DEF TimerFires
    <3>5. PICK s \in Sockets :
            /\ ws[s] = "over" /\ owner' = [owner EXCEPT ![s] = p]
            /\ tab' = [tab EXCEPT ![p] = [ForAttempt(b) EXCEPT !.socket = s]]
            /\ ws' = [x \in Sockets |-> IF x = s THEN "opening"
                                        ELSE IF x = t.socket THEN "closing" ELSE ws[x]]
            /\ UNCHANGED <<got, replaced>>
      <4>1. PICK s \in Sockets :
              /\ ws[s] = "over" /\ owner' = [owner EXCEPT ![s] = p]
              /\ tab' = [tab EXCEPT ![p] = [ForAttempt(b) EXCEPT !.socket = s]]
              /\ ws' = [x \in Sockets |-> IF x = s THEN "opening"
                                          ELSE IF x = b.socket THEN "closing" ELSE ws[x]]
              /\ UNCHANGED <<got, replaced>>
        BY <3>4 DEF Proceed
      <4>2. ws' = [x \in Sockets |-> IF x = s THEN "opening"
                                     ELSE IF x = t.socket THEN "closing" ELSE ws[x]]
        BY <4>1, <3>3
      <4> QED  BY <4>1, <4>2
    <3>6. PICK u : u = [ForAttempt(b) EXCEPT !.socket = s]  OBVIOUS
    <3>7. u \in Client /\ Phase(u) /\ u.socket = s /\ ~u.connected
      <4>1. u = [ForAttempt([t EXCEPT !.timer = FALSE, !.awaits = TRUE, !.reject = TRUE])
                     EXCEPT !.socket = s]
        BY <3>2, <3>6
      <4> QED  BY <3>1, <4>1, <1>2, <1>4, AttemptFields
    <3>8. tab' = [tab EXCEPT ![p] = u]  BY <3>5, <3>6
    <3> QED  BY <3>5, <3>7, <3>8
  <2> QED  BY <2>1, <2>2
<1>6. tab'[p] = u /\ \A q \in Tabs \ {p} : tab'[q] = tab[q]
  BY <1>5 DEF PageInv, PageTypes
<1>7. PageTypes'
  <2>1. ws' \in [Sockets -> {"opening", "open", "closing", "over"}]
    BY <1>5 DEF PageInv, PageTypes
  <2> QED  BY <2>1, <1>5 DEF PageInv, PageTypes
<1>8. \A q \in Tabs : tab[q].socket # s
  BY <1>5, PageAssumption DEF PageInv, SocketsInCharge
<1>9. s \notin got  BY <1>5 DEF PageInv, SocketsInCharge
<1>10. ASSUME NEW q \in Tabs \ {p}, tab[q].socket # NoSocket
       PROVE  /\ tab[q].socket \in Sockets /\ tab[q].socket # t.socket
              /\ ws'[tab[q].socket] = ws[tab[q].socket]
              /\ owner'[tab[q].socket] = owner[tab[q].socket]
  <2>1. tab[q].socket \in Sockets  BY <1>10 DEF PageInv, PageTypes, Client
  <2>2. owner[tab[q].socket] = q  BY <1>10 DEF PageInv, SocketsInCharge
  <2>3. t.socket # NoSocket => owner[t.socket] = p  BY <1>1 DEF PageInv, SocketsInCharge
  <2>4. tab[q].socket # t.socket  BY <1>10, <2>2, <2>3
  <2> QED  BY <2>1, <2>4, <1>5, <1>8 DEF PageInv, PageTypes
<1>11. SocketsInCharge'
  <2>1. \A x \in Sockets : ws'[x] # "over" => owner'[x] \in Tabs
    <3> SUFFICES ASSUME NEW x \in Sockets, ws'[x] # "over" PROVE owner'[x] \in Tabs  OBVIOUS
    <3>1. CASE x = s  BY <3>1, <1>5 DEF PageInv, PageTypes
    <3>2. CASE x # s
      <4>1. ws[x] # "over"  BY <3>2, <1>1, <1>5, PageAssumption DEF PageInv, SocketsInCharge
      <4> QED  BY <4>1, <3>2, <1>5 DEF PageInv, PageTypes, SocketsInCharge
    <3> QED  BY <3>1, <3>2
  <2>2. ASSUME NEW q \in Tabs, tab'[q].socket # NoSocket
        PROVE  owner'[tab'[q].socket] = q /\ ws'[tab'[q].socket] # "over"
    <3>1. CASE q = p  BY <3>1, <1>5, <1>6 DEF PageInv, PageTypes
    <3>2. CASE q # p  BY <3>2, <2>2, <1>6, <1>10 DEF PageInv, SocketsInCharge
    <3> QED  BY <3>1, <3>2
  <2>3. \A x \in got' : ws'[x] \in {"open", "closing"}
    BY <1>5, <1>9 DEF PageInv, PageTypes, SocketsInCharge
  <2> QED  BY <2>1, <2>2, <2>3 DEF SocketsInCharge
<1>12. OnePhase'  BY <1>5, <1>6, <1>9 DEF PageInv, OnePhase
<1>13. ReplacedIsOff'
  <2> SUFFICES ASSUME NEW q \in replaced
               PROVE  /\ ~tab'[q].form /\ ~tab'[q].timer /\ ~tab'[q].awaits
                      /\ tab'[q].socket # NoSocket => /\ tab'[q].authed /\ tab'[q].suppress
                                                      /\ ws'[tab'[q].socket] = "closing"
    BY <1>5 DEF ReplacedIsOff
  <2>1. q \in Tabs \ {p}  BY <1>4 DEF PageInv, PageTypes
  <2> QED  BY <2>1, <1>6, <1>10 DEF PageInv, ReplacedIsOff
<1> QED  BY <1>7, <1>11, <1>12, <1>13 DEF PageInv

\* A frame counts only on the socket in charge.
LEMMA OnMessageKeeps ==
    ASSUME PageInv, NEW s \in Sockets, OnMessage(s)
    PROVE  PageInv'
<1>1. PICK p \in Tabs : p = owner[s]
  BY DEF OnMessage, PageInv, SocketsInCharge
<1>2. PICK t : t = tab[p]  OBVIOUS
<1>3. /\ t \in Client /\ Phase(t) /\ (t.connected <=> s \in got)
      /\ ws[s] = "open" /\ t.socket = s /\ s # NoSocket
  BY <1>1, <1>2, PageAssumption
  DEF OnMessage, InCharge, PageInv, PageTypes, OnePhase
<1>4. p \notin replaced  BY <1>2, <1>3 DEF PageInv, ReplacedIsOff
<1>5. PICK f : f = Head(frames[s])  OBVIOUS
<1>6. PICK u \in Client, closes \in BOOLEAN :
        /\ Phase(u) /\ u.socket = s
        /\ tab' = [tab EXCEPT ![p] = u]
        /\ ws' = [ws EXCEPT ![s] = IF closes THEN "closing" ELSE @]
        /\ \/ /\ u.connected /\ got' = got \cup {s} /\ replaced' = replaced
           \/ u.connected = t.connected /\ got' = got /\ replaced' = replaced
           \/ /\ closes /\ u.connected /\ u.suppress /\ ~u.form
              /\ got' = got /\ t.connected /\ replaced' = replaced \cup {p}
  <2>1. CASE f = "LOGIN_ACK"
    <3>1. PICK u : u = [Resolved(t) EXCEPT !.connected = TRUE, !.authed = TRUE,
                                           !.reject = FALSE, !.form = FALSE]
      OBVIOUS
    <3>2. u \in Client /\ Phase(u) /\ u.socket = s /\ u.connected  BY <3>1, <1>3, AnsweredFields
    <3>3. /\ tab' = [tab EXCEPT ![p] = u]
          /\ ws' = [ws EXCEPT ![s] = IF FALSE THEN "closing" ELSE @]
          /\ got' = got \cup {s} /\ replaced' = replaced
      BY <2>1, <3>1, <1>1, <1>2, <1>5 DEF OnMessage
    <3> QED  BY <3>2, <3>3
  <2>2. CASE f = "logged_in_elsewhere"
    <3>1. PICK u : u = Suppressed(t)  OBVIOUS
    <3>2. /\ u \in Client /\ Phase(u) /\ u.socket = s /\ u.suppress
          /\ u.connected = t.connected /\ u.form = t.form
      BY <3>1, <1>3, SuppressedFields
    <3>3. /\ tab' = [tab EXCEPT ![p] = u]
          /\ ws' = [ws EXCEPT ![s] = IF TRUE THEN "closing" ELSE @]
          /\ got' = got /\ replaced' = IF t.connected THEN replaced \cup {p} ELSE replaced
      BY <2>2, <3>1, <1>1, <1>2, <1>5 DEF OnMessage
    <3>4. t.connected => ~t.form  BY <1>3 DEF Phase
    <3> QED  BY <3>2, <3>3, <3>4
  <2>3. CASE f \notin {"LOGIN_ACK", "logged_in_elsewhere"}
    <3>1. PICK closes \in BOOLEAN :
            /\ tab' = [tab EXCEPT ![p] = t]
            /\ ws' = [ws EXCEPT ![s] = IF closes THEN "closing" ELSE @]
            /\ got' = got /\ replaced' = replaced
      BY <2>3, <1>1, <1>2, <1>5 DEF OnMessage
    <3> QED  BY <3>1, <1>3
  <2> QED  BY <2>1, <2>2, <2>3
<1>7. UNCHANGED owner  BY DEF OnMessage
<1>8. tab'[p] = u /\ \A q \in Tabs \ {p} : tab'[q] = tab[q]
  BY <1>6 DEF PageInv, PageTypes
<1>9. /\ ws'[s] \in {"open", "closing"} /\ (closes => ws'[s] = "closing")
      /\ \A x \in Sockets \ {s} : ws'[x] = ws[x]
  BY <1>3, <1>6 DEF PageInv, PageTypes
<1>10. got \subseteq got' /\ got' \subseteq got \cup {s} /\ (u.connected <=> s \in got')
  BY <1>3, <1>6 DEF Client
<1>11. \A q \in Tabs \ {p} : tab[q].socket # s
  BY <1>1, <1>3 DEF PageInv, SocketsInCharge
<1>12. PageTypes'
  <2>1. ws' \in [Sockets -> {"opening", "open", "closing", "over"}]
    BY <1>6 DEF PageInv, PageTypes
  <2>2. tab' \in [Tabs -> Client]  BY <1>6 DEF PageInv, PageTypes
  <2>3. replaced' \subseteq Tabs  BY <1>6 DEF PageInv, PageTypes
  <2> QED  BY <2>1, <2>2, <2>3, <1>7, <1>10 DEF PageInv, PageTypes
<1>13. SocketsInCharge'
  <2>1. \A x \in Sockets : ws'[x] # "over" => owner'[x] \in Tabs
    BY <1>1, <1>7, <1>9 DEF PageInv, SocketsInCharge
  <2>2. ASSUME NEW q \in Tabs, tab'[q].socket # NoSocket
        PROVE  owner'[tab'[q].socket] = q /\ ws'[tab'[q].socket] # "over"
    <3>1. CASE q = p  BY <3>1, <1>1, <1>6, <1>7, <1>8, <1>9
    <3>2. CASE q # p
      <4>1. tab'[q] = tab[q] /\ tab[q].socket \in Sockets \ {s}
        BY <3>2, <2>2, <1>8, <1>11 DEF PageInv, PageTypes, Client
      <4> QED  BY <4>1, <2>2, <1>7, <1>9 DEF PageInv, SocketsInCharge
    <3> QED  BY <3>1, <3>2
  <2>3. \A x \in got' : ws'[x] \in {"open", "closing"}
    BY <1>9, <1>10 DEF PageInv, PageTypes, SocketsInCharge
  <2> QED  BY <2>1, <2>2, <2>3 DEF SocketsInCharge
<1>14. OnePhase'
  <2> SUFFICES ASSUME NEW q \in Tabs
               PROVE  Phase(tab'[q]) /\ (tab'[q].connected <=> tab'[q].socket \in got')
    BY DEF OnePhase
  <2>1. CASE q = p  BY <2>1, <1>6, <1>8, <1>10
  <2>2. CASE q # p  BY <2>2, <1>8, <1>10, <1>11 DEF PageInv, OnePhase
  <2> QED  BY <2>1, <2>2
<1>15. ReplacedIsOff'
  <2> SUFFICES ASSUME NEW q \in replaced'
               PROVE  /\ ~tab'[q].form /\ ~tab'[q].timer /\ ~tab'[q].awaits
                      /\ tab'[q].socket # NoSocket => /\ tab'[q].authed /\ tab'[q].suppress
                                                      /\ ws'[tab'[q].socket] = "closing"
    BY DEF ReplacedIsOff
  <2>1. CASE q = p
    <3>1. closes /\ u.connected /\ u.suppress /\ ~u.form  BY <2>1, <1>4, <1>6
    <3>2. u.authed /\ ~u.timer /\ ~u.awaits  BY <3>1, <1>6 DEF Phase
    <3> QED  BY <2>1, <3>1, <3>2, <1>6, <1>8, <1>9
  <2>2. CASE q # p
    <3>1. q \in replaced /\ q \in Tabs \ {p}  BY <2>2, <1>6 DEF PageInv, PageTypes
    <3>2. tab'[q] = tab[q] /\ tab[q].socket # s /\ tab[q].socket \in Sockets \cup {NoSocket}
      BY <3>1, <1>8, <1>11 DEF PageInv, PageTypes, Client
    <3> QED  BY <3>1, <3>2, <1>9 DEF PageInv, ReplacedIsOff
  <2> QED  BY <2>1, <2>2
<1> QED  BY <1>12, <1>13, <1>14, <1>15 DEF PageInv

\* The close of a socket in charge ends the connection or the attempt of its tab;
\* that of a replaced one changes no tab.
LEMMA OnCloseKeeps ==
    ASSUME PageInv, NEW s \in Sockets, OnClose(s)
    PROVE  PageInv'
<1>1. PICK p \in Tabs : p = owner[s]
  BY DEF OnClose, PageInv, SocketsInCharge
<1>2. /\ ws' = [ws EXCEPT ![s] = "over"] /\ got' = got \ {s} /\ UNCHANGED <<owner, replaced>>
      /\ tab' = IF tab[p].socket = s THEN [tab EXCEPT ![p] = AfterClose(@)] ELSE tab
  BY <1>1 DEF OnClose, InCharge
<1>3. PICK t : t = tab[p]  OBVIOUS
<1>4. t \in Client /\ Phase(t)  BY <1>3 DEF PageInv, PageTypes, OnePhase
<1>5. PICK u : u = IF t.socket = s THEN AfterClose(t) ELSE t  OBVIOUS
<1>6. tab' = [tab EXCEPT ![p] = u]  BY <1>2, <1>3, <1>5 DEF PageInv, PageTypes
<1>7. /\ u \in Client /\ Phase(u) /\ u.socket # s
      /\ u = t \/ (u.socket = NoSocket /\ ~u.connected)
      /\ u.form = t.form
      /\ t.authed /\ t.suppress /\ ~t.form /\ t.socket = s => ~u.timer /\ ~u.awaits
  <2>1. CASE t.socket = s
    <3>1. t.socket # NoSocket  BY <2>1, PageAssumption
    <3> QED  BY <2>1, <3>1, <1>4, <1>5, ClosedFields
  <2>2. CASE t.socket # s  BY <2>2, <1>4, <1>5
  <2> QED  BY <2>1, <2>2
<1>8. tab'[p] = u /\ \A q \in Tabs \ {p} : tab'[q] = tab[q]
  BY <1>6 DEF PageInv, PageTypes
<1>9. \A q \in Tabs \ {p} : tab[q].socket # s
  BY <1>1, PageAssumption DEF PageInv, SocketsInCharge
<1>10. \A q \in Tabs : /\ tab'[q].socket # s
                       /\ \/ tab'[q] = tab[q]
                          \/ q = p /\ tab'[q].socket = NoSocket /\ ~tab'[q].connected
  BY <1>3, <1>7, <1>8, <1>9
<1>11. \A x \in Sockets \ {s} : ws'[x] = ws[x]  BY <1>2 DEF PageInv, PageTypes
<1>12. PageTypes'
  <2>1. tab' \in [Tabs -> Client]  BY <1>6, <1>7 DEF PageInv, PageTypes
  <2> QED  BY <2>1, <1>2 DEF PageInv, PageTypes
<1>13. SocketsInCharge'
  <2>1. \A x \in Sockets : ws'[x] # "over" => owner'[x] \in Tabs
    BY <1>2 DEF PageInv, PageTypes, SocketsInCharge
  <2>2. ASSUME NEW q \in Tabs, tab'[q].socket # NoSocket
        PROVE  owner'[tab'[q].socket] = q /\ ws'[tab'[q].socket] # "over"
    <3>1. tab'[q] = tab[q] /\ tab[q].socket \in Sockets \ {s}
      BY <2>2, <1>10 DEF PageInv, PageTypes, Client
    <3> QED  BY <3>1, <2>2, <1>2, <1>11 DEF PageInv, SocketsInCharge
  <2>3. \A x \in got' : ws'[x] \in {"open", "closing"}
    BY <1>2, <1>11 DEF PageInv, PageTypes, SocketsInCharge
  <2> QED  BY <2>1, <2>2, <2>3 DEF SocketsInCharge
<1>14. OnePhase'
  <2> SUFFICES ASSUME NEW q \in Tabs
               PROVE  Phase(tab'[q]) /\ (tab'[q].connected <=> tab'[q].socket \in got')
    BY DEF OnePhase
  <2>1. NoSocket \notin got  BY PageAssumption DEF PageInv, PageTypes
  <2>2. Phase(tab'[q])  BY <1>7, <1>8 DEF PageInv, OnePhase
  <2>3. tab'[q].connected <=> tab'[q].socket \in got'
    BY <2>1, <1>2, <1>10 DEF PageInv, OnePhase
  <2> QED  BY <2>2, <2>3
<1>15. ReplacedIsOff'
  <2> SUFFICES ASSUME NEW q \in replaced
               PROVE  /\ ~tab'[q].form /\ ~tab'[q].timer /\ ~tab'[q].awaits
                      /\ tab'[q].socket # NoSocket => /\ tab'[q].authed /\ tab'[q].suppress
                                                      /\ ws'[tab'[q].socket] = "closing"
    BY <1>2 DEF ReplacedIsOff
  <2>1. q \in Tabs  BY DEF PageInv, PageTypes
  <2>2. /\ ~tab[q].form /\ ~tab[q].timer /\ ~tab[q].awaits
        /\ tab[q].socket # NoSocket =>
              tab[q].authed /\ tab[q].suppress /\ ws[tab[q].socket] = "closing"
    BY DEF PageInv, ReplacedIsOff
  <2>3. CASE tab'[q] = tab[q]
    <3>1. tab[q].socket \in Sockets \cup {NoSocket} /\ tab[q].socket # s
      BY <2>1, <2>3, <1>10 DEF PageInv, PageTypes, Client
    <3> QED  BY <2>2, <2>3, <3>1, <1>11
  <2>4. CASE tab'[q] # tab[q]
    <3>1. q = p /\ tab'[q] = u /\ u # t  BY <2>1, <2>4, <1>3, <1>8
    <3>2. t.socket = s  BY <3>1, <1>5
    <3>3. t.authed /\ t.suppress /\ ~t.form  BY <3>1, <3>2, <2>2, <1>3, PageAssumption
    <3> QED  BY <3>1, <3>2, <3>3, <1>7
  <2> QED  BY <2>3, <2>4
<1> QED  BY <1>12, <1>13, <1>14, <1>15 DEF PageInv

\* Nothing else changes the page: a socket that opens, or fails to.
LEMMA OpeningKeeps ==
    ASSUME PageInv, NEW s \in Sockets, Accept(s) \/ Unreachable(s)
    PROVE  PageInv'
<1>1. PICK next \in {"open", "closing"} :
        ws[s] = "opening" /\ ws' = [ws EXCEPT ![s] = next]
  BY DEF Accept, Unreachable
<1>2. UNCHANGED <<tab, owner, got, replaced>>  BY DEF Accept, Unreachable
<1>3. ws'[s] # "over" /\ \A x \in Sockets \ {s} : ws'[x] = ws[x]
  BY <1>1 DEF PageInv, PageTypes
<1>4. PageTypes'  BY <1>1, <1>2 DEF PageInv, PageTypes
<1>5. SocketsInCharge'
  <2>1. \A x \in Sockets : ws'[x] # "over" => owner[x] \in Tabs
    BY <1>1, <1>3 DEF PageInv, SocketsInCharge
  <2>2. \A p \in Tabs : tab[p].socket # NoSocket =>
          owner[tab[p].socket] = p /\ ws'[tab[p].socket] # "over"
    BY <1>3 DEF PageInv, PageTypes, Client, SocketsInCharge
  <2>3. \A x \in got : ws'[x] \in {"open", "closing"}
    BY <1>1, <1>3 DEF PageInv, PageTypes, SocketsInCharge
  <2> QED  BY <2>1, <2>2, <2>3, <1>2 DEF SocketsInCharge
<1>6. OnePhase'  BY <1>2 DEF PageInv, OnePhase
<1>7. ReplacedIsOff'
  <2>1. ASSUME NEW q \in replaced, tab[q].socket # NoSocket
        PROVE  ws'[tab[q].socket] = "closing"
    BY <2>1, <1>1, <1>3 DEF PageInv, PageTypes, Client, ReplacedIsOff
  <2> QED  BY <2>1, <1>2 DEF PageInv, ReplacedIsOff
<1> QED  BY <1>4, <1>5, <1>6, <1>7 DEF PageInv

LEMMA PageSame ==
    ASSUME PageInv, UNCHANGED pageVars
    PROVE  PageInv'
  BY DEF pageVars, PageInv, PageTypes, SocketsInCharge, OnePhase, ReplacedIsOff

LEMMA PageStepKeeps ==
    ASSUME PageInv, [Next]_vars
    PROVE  PageInv'
<1>1. ASSUME NEW s \in Sockets, SocketStep(s) PROVE PageInv'
  <2>1. CASE OnMessage(s) \/ OnClose(s) \/ Accept(s)
    BY <2>1, OnMessageKeeps, OnCloseKeeps, OpeningKeeps
  <2>2. CASE \/ Dial(s) \/ BackendEnds(s) \/ BrowserEnds(s) \/ GivesUp(s)
             \/ Register(s) \/ LoginAck(s) \/ Evict(s) \/ EvictCloses(s)
    BY <2>2, PageSame
    DEF Dial, BackendEnds, BrowserEnds, GivesUp, Register, LoginAck, Answers, Evict, EvictCloses
  <2> QED  BY <1>1, <2>1, <2>2 DEF SocketStep
<1>2. ASSUME NEW s \in Sockets, Trouble(s) PROVE PageInv'
  <2>1. CASE Unreachable(s)  BY <2>1, OpeningKeeps
  <2>2. CASE DialFails(s) \/ Refuse(s) \/ NoBackend(s) \/ Hang(s) \/ HungDies(s) \/ Drop(s)
    BY <2>2, PageSame DEF DialFails, Refuse, NoBackend, Answers, Hang, HungDies, Drop
  <2> QED  BY <1>2, <2>1, <2>2 DEF Trouble
<1>3. CASE UNCHANGED vars  BY <1>3, PageSame DEF vars
<1> QED  BY <1>1, <1>2, <1>3, ProceedKeeps DEF Next

LEMMA PageHolds == Spec => []PageInv
  BY PageInit, PageStepKeeps, PTL DEF Spec

\* The page shows itself connected exactly while the socket in charge has been
\* answered, and then no reconnect is under way: late events of replaced sockets
\* change neither.
THEOREM ConnectedMeansAnswered == Spec => []ConnectedIsLive
<1>1. PageInv => ConnectedIsLive  BY DEF PageInv, OnePhase, Phase, ConnectedIsLive
<1> QED  BY <1>1, PageHolds, PTL

\* There is one reconnect at a time, and the timer's callback never awaits a
\* socket that can bring it neither an answer nor an end.
THEOREM ReconnectsOneByOne == Spec => []OneAttempt
<1>1. PageInv => OneAttempt
  <2> SUFFICES ASSUME PageInv, NEW p \in Tabs
               PROVE  /\ ~(tab[p].timer /\ tab[p].awaits)
                      /\ tab[p].awaits => /\ tab[p].socket # NoSocket
                                          /\ ws[tab[p].socket] \in {"opening", "open", "closing"}
    BY DEF OneAttempt
  <2>1. Phase(tab[p]) /\ tab[p].socket \in Sockets \cup {NoSocket}
    BY DEF PageInv, PageTypes, Client, OnePhase
  <2> QED  BY <2>1 DEF PageInv, PageTypes, SocketsInCharge, Phase
<1> QED  BY <1>1, PageHolds, PTL

\* A tab that a newer login replaced while it was connected never reconnects.
THEOREM ReplacedTabsStayOff == Spec => []EvictedStaysOff
<1>1. PageInv => EvictedStaysOff  BY DEF PageInv, ReplacedIsOff, EvictedStaysOff
<1> QED  BY <1>1, PageHolds, PTL
=============================================================================
