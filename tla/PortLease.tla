----------------------------- MODULE PortLease -----------------------------
(***************************************************************************)
(* What the server promises about public ports, without actors, queues or  *)
(* tasks.  A port is free, held by one session for a client process (which *)
(* may be leaving), or reserved for the process whose session was lost.  A *)
(* session gets one chance: it takes a port when it first asks or never    *)
(* holds one, and what it has lost it does not get back.  A held port passes *)
(* to another session in one step, so no user finds it free in between.    *)
(***************************************************************************)
CONSTANTS Port, Session, Instance, None

VARIABLES
    lease,   \* port -> its state, the process it belongs to, the session using it
    spent,   \* sessions that have had their chance
    open     \* whether the server still hands out ports

leaseVars == <<lease, spent, open>>

Free == [state |-> "Free", owner |-> None, holder |-> None]
Held(i, s) == [state |-> "Active", owner |-> i, holder |-> s]
Kept(i) == [state |-> "Reserved", owner |-> i, holder |-> None]

Init ==
    /\ lease = [p \in Port |-> Free]
    /\ spent = {}
    /\ open = TRUE

\* A session uses its chance.  It takes a port for its process: a free one, one
\* the process has already, or one it takes from another process.  Or it leaves
\* without ever holding one.
Take(s) == \E p \in Port, i \in Instance : lease' = [lease EXCEPT ![p] = Held(i, s)]
Ask(s) ==
    /\ spent' = spent \cup {s}
    /\ open
    /\ Take(s) \/ UNCHANGED lease
    /\ UNCHANGED open

\* The holder says that it leaves, and its port is given up.
SayGoodbye(p) ==
    /\ lease[p].state = "Active"
    /\ lease' = [lease EXCEPT ![p].state = "Leaving"]
    /\ UNCHANGED <<spent, open>>
Leave(p) ==
    /\ lease[p].state = "Leaving"
    /\ lease' = [lease EXCEPT ![p] = Free]
    /\ UNCHANGED <<spent, open>>

\* The holder is lost without a goodbye: the port stays with its process.
Lose(p) ==
    /\ lease[p].state = "Active"
    /\ lease' = [lease EXCEPT ![p] = Kept(lease[p].owner)]
    /\ UNCHANGED <<spent, open>>

\* Reservations run out.
Reserved == {p \in Port : lease[p].state = "Reserved"}
Expire(P) ==
    /\ P # {}
    /\ lease' = [p \in Port |-> IF p \in P THEN Free ELSE lease[p]]
    /\ UNCHANGED <<spent, open>>

\* The server stops: every port is given up and nobody gets one any more.
Close ==
    /\ open
    /\ open' = FALSE
    /\ lease' = [p \in Port |-> Free]
    /\ spent' = Session

Next ==
    \/ \E s \in Session \ spent : Ask(s)
    \/ \E p \in Port : SayGoodbye(p) \/ Leave(p) \/ Lose(p)
    \/ \E P \in SUBSET Reserved : Expire(P)
    \/ Close

Spec == Init /\ [][Next]_leaseVars

=============================================================================
