------------------------------ MODULE MCServer ------------------------------
(***************************************************************************)
(* Small instances of the server for TLC.                                   *)
(***************************************************************************)
EXTENDS Server, TLC

Ask(m, P) == {[instance |-> i, mode |-> m, port |-> p] : i \in Instance, p \in P}

\* Fresh and resumed registrations of one port.
OnePort == Ask("Fresh", {1}) \cup Ask("Resume", {1})

\* Requests of every kind: any port, a free one, one another process holds, one
\* that cannot be bound, the server's own.
EveryKind == Ask("Fresh", {0, 1, 2, 3, 4}) \cup Ask("Resume", {2, 4})

\* Fresh registrations of one port: each new session takes the port over.
Takeovers == Ask("Fresh", {1})

Identities ==
    Permutations(Session) \cup Permutations(Conn) \cup Permutations(DataConn)
    \cup Permutations(Instance)

=============================================================================
