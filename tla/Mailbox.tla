------------------------------- MODULE Mailbox -------------------------------
(***************************************************************************)
(* What a session promises the rest of the room: a message handed to it    *)
(* is kept until its user has seen it, or until the promise is waived.     *)
(* Connections, retransmissions, acknowledgements and restarts of the node *)
(* are invisible here.                                                     *)
(***************************************************************************)
CONSTANT Outgoing

VARIABLES
    accepted,    \* messages handed to the session
    waived,      \* messages nothing is promised for any more
    kept,        \* messages the node still holds for the user
    delivered    \* messages the user has seen

mailboxVars == <<accepted, waived, kept, delivered>>

MailboxInit ==
    /\ accepted = {}
    /\ waived = {}
    /\ kept = {}
    /\ delivered = {}

\* A message is taken in with the promise or, openly, without it.
Accept(p) ==
    /\ p \notin accepted
    /\ accepted' = accepted \cup {p}
    /\ \/ kept' = kept \cup {p} /\ UNCHANGED waived
       \/ waived' = waived \cup {p} /\ UNCHANGED kept
    /\ UNCHANGED delivered

Deliver(p) ==
    /\ p \in accepted
    /\ delivered' = delivered \cup {p}
    /\ UNCHANGED <<accepted, waived, kept>>

\* Only a message the user has seen is let go.
Settle(p) ==
    /\ p \in kept \cap delivered
    /\ kept' = kept \ {p}
    /\ UNCHANGED <<accepted, waived, delivered>>

Waive(messages) ==
    /\ waived' = waived \cup messages
    /\ kept' = kept \ messages
    /\ UNCHANGED <<accepted, delivered>>

MailboxNext ==
    \/ \E p \in Outgoing : Accept(p) \/ Deliver(p) \/ Settle(p)
    \/ \E messages \in SUBSET accepted : Waive(messages)

MailboxSpec == MailboxInit /\ [][MailboxNext]_mailboxVars
=============================================================================
