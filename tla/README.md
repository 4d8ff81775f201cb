# tunlet in TLA+

tunlet exposes a local TCP service on a public port of a server. A client
process (`tunlet expose`) keeps one control connection to the server; for every
user who connects to the public port, the server sends `OPEN` on the control
connection, and the client answers with a data connection that the server joins
to the user's socket. This directory models the server, the client, the network
between them, the wire format and the way both processes are configured, checks
them with TLC on small instances, and proves with TLAPS, for all instances, the
server's invariants and action properties, that the server implements its abstract
specification, that it does so with this repository's clients, who keep their
ports, serve the right users, match their heartbeats and exit with an error only
for a reason, and that bytes and settings mean to their reader what they meant to
their writer.

## The system

| Component | Source | State | Operations | Hard parts |
|---|---|---|---|---|
| Registry actor | `server/registry.rs` | port slots, sessions, pending requests, semaphores, generation and listener counters | register, takeover, loss, goodbye, accept, peek, claim, open-failed, finished, sweep, shutdown | commands of former owners arrive late; a failing `OPEN` removes a session from inside another handler |
| Control connection | `server/control.rs` | phase of the serve task, outbound queue, cancellation tokens, outstanding ping | handshake, registration, session loop, teardown, writer loop | two tasks and the registry share a queue and two tokens; every exit must be reported once |
| Public listener | `server/listener.rs`, `forward.rs` | accept loop per port, one task per user | accept, wait, `DATA_READY`, forward, finish | deadline against claim against cancellation |
| Data connection | `server/data.rs` | phase of the handshake | peek, challenge, claim, reject | check and use are two commands apart; a timeout while the socket is in the channel |
| Supervisor | `server/mod.rs` | dispatch permits, shutdown phase | accept, dispatch, shutdown, grace | everybody waits for somebody at shutdown |
| Client control | `client/mod.rs`, `client/control.rs` | remembered port, current session, heartbeat | attempt, register, run, goodbye, retry, exit | stale registrations of its own, lost `REPLACED`, connections that die silently |
| Client data | `client/data.rs` | one task per request | open, dial, handshake, forward, report | its budget starts after the server's deadline |
| Wire protocol | `protocol.rs`, `error.rs` | none | encode, decode, validate | lengths, kinds, offsets |
| Settings | `config.rs`, `cli.rs`, `net.rs`, `main.rs` | none | parse, merge, validate, start | three layers, swallowed arguments, bounds repeated in the peer |
| Rest | `auth.rs`, `logging.rs`, `shutdown.rs`, `timing.rs`, `lib.rs` | none | authenticate, log, signal | none |

The registry is an actor: all other tasks talk to it through one bounded command
channel and get answers through oneshot channels. The registry talks to control
connections by `try_send` on their outbound queues and by cancelling their two
tokens (`control_cancel` ends the control connection, `data_cancel` the public
traffic), to accept loops by their token, and to the tasks of public connections
by dropping or filling the oneshot that should bring their data socket. Client and
server meet on control connections, which carry frames in order until they end or
die, and on one data connection per request.

What makes each part correct: a port has one owner and both registry tables say
so; late commands never hurt a newer owner; every session, request, permit and
listener that leaves is cleaned up on every path; a request is consumed at most
once, and by the client task that was asked; public traffic does not outlive its
tunnel; a client keeps its port, exits only for a reason and always exits when
told to; nothing waits for ever; bytes and settings mean to their reader what
they meant to their writer.

## Modules

```
ServerState             constants, variables, types, Init, channels
   |-- Registry         server/registry.rs
   |-- ControlServer    server/control.rs
   |-- PublicListener   server/listener.rs, forward.rs
   |-- DataServer       server/data.rs
   |-- ClientState      the clients' variables, the connections
         |-- ClientControl   client/mod.rs, client/control.rs
         |-- ClientData      client/data.rs
PortLease               what the server promises about ports (abstract)
Server                  server/mod.rs, Next, fairness, properties, refinement
   |-- MCServer         sets of requests and the symmetry for TLC
   |-- ServerProofs     types; the command channel as a set
   |     |-- OwnershipProofs        sessions map and slots; accept loops
   |           |-- RequestProofs    requests, data sockets and permits
   |                 |-- SessionProofs    sessions and their ports; the refinement
   |                 |-- TunnelProofs     the tunnel (also extends Tunnel)
   |                       |-- HeartbeatProofs  pings and their answers
   |                             |-- DialogueProofs   what a client may read
   |-- Tunnel           Server with ClientControl and ClientData
         |-- MCTunnel   the processes' wishes for TLC
Startup                 cli.rs, config.rs, parsers of net.rs, main.rs
Wire                    protocol.rs, codes of error.rs
Intake                  Startup and Wire side by side
   |-- MCInputs         command lines, environments, files, bytes for TLC
   |-- IntakeProofs     encoders and decoders; what a process starts with
```

The tasks of the server share the registry's tables, the channel, the queues and
the tokens, so their modules share `ServerState`; each holds the actions of one
source file. Definitions keep the names of the Rust functions and fields they
stand for; `PROJECT.json` maps each one to its lines.

### Server

**Identities.** A `Session` is one control connection. The server draws the
session id, so connection and id are one to one. A `Conn` is one public
connection and at the same time the random id of its request. A `DataConn` is
one data connection, an `Instance` one client process. Random ids do not repeat.

**Tables.** `ports`, `sessions` and `pending` are the maps of `struct Registry`;
an absent entry is `FreeSlot`, `NoRef`, or not being in the set. `req` keeps the
session and generation of a request after its pending entry is gone, because
the task of the connection keeps them. `permits` and `global_connections` are the
semaphores, `dispatching` the connections that hold a handshake permit.

**Channel and queues.** `commands` is the bounded channel in order. A send
awaits room (`Send`) or fails because the registry is gone (`Closed`). `writer[s]`
is the outbound queue; `try_send` drops when it is full or the writer has ended.
`wire[s]` remembers the `REGISTERED` and `OPEN` frames written.

**Handlers.** A registry handler does not await, so it is one action: `Register`
contains the allocation, the bind, the displacement of the previous owner and
the reply. `AcceptedPublic` contains the loss of a session whose queue cannot take
the `OPEN`. `Shutdown` contains the drop of the receiver with everything queued.

**Serve task.** `phase` goes from `new` through `handshake`, `registering`,
`granted` or `denied`, `running`, then `lost` (to report a loss) or `parting`,
`goodbye`, `teardown` (to say goodbye and await the answer), `draining` (awaiting
the writer) to `ended`; `abandoned` is the early return when `REGISTERED` cannot be
queued. Each await of `serve` is a boundary between two phases. `sequence` and
`outstanding` are the heartbeat's locals; numbers wrap at `SEQUENCE_MODULUS`.

**Public connection.** `conn` goes through `queued` (in the channel), `waiting` (for
the oneshot), `readying` (writing `DATA_READY`), `forwarding`, `finishing` (awaiting
the send of `RequestFinished`) and `closed`. `box` is the oneshot's content.

**Environment of `Server`.** Clients may send any frame of `ClientFrames` whenever
the server would read it, stop reading (`WriteFails`), open data connections for
any request they were sent, several for the same one included, and disconnect.
The end of the handshake and the send of `Register` are one action (`Authenticate`),
so a task that waits for room in the channel may still time out in the model: more
behaviours than the code has, none fewer.
Other processes hold `ForeignPorts`; binding `BrokenPorts` fails otherwise.

### Client and tunnel

`Tunnel` replaces that environment by this repository's client. A step of the
server that reads or writes a connection is conjoined with its effect on the
connection (`ServerReads`, `ServerWrites`, `ServerClaims`, ...); all others are taken
over unchanged (`ServerInternal`).

**Process.** `cphase` of a process is `idle` (before an attempt, dialing, or in the
reconnect delay), `hello` and `proving` (the two reads of `register`), `running`
(`run_session`), `leaving` (`goodbye`) or `exited`, with its `outcome`. `last_assigned`
is the remembered port; it is set exactly when `ever_registered` is, so 0 stands
for both. The reconnect delay and failed dials need no state: an idle process may
dial at any time, or never.

**Connections.** `up[s]` and `down[s]` are the frames on their way. The client's
outbound queue and the bytes in flight to the server are one queue with the
capacity of the former, so the queue is full whenever the code's could be. `left`
are the sessions whose client end is closed. A connection that is `cut` loses what
is in flight, takes writes and delivers nothing; either end may notice, and
neither need: reset, stall and loss in the network in one.

**Requests.** `ctask` follows `handle_open`: `dialing`, `hello`, `proof`, `forwarding`,
`done`; `cdata` is the data connection it opened. The tasks of a session that was
cancelled end silently (`TaskCancelled`), and every other failure is reported with
`OPEN_FAILED`, if the queue has room.

### Time

There are no clocks. A deadline, timeout, reservation or heartbeat may pass at
any moment while its timer runs, so the checks hold for every choice of the
durations in `timing.rs` and for every delay of the scheduler.

### Startup, Wire, Intake

`Startup` reads the arguments one at a time, with an action per arm of
`cli::parse`, then the file line by line, merges, and validates. A text is a
form with the parts the parsers look at (`HostPort("name", 4000)`), possibly
wrapped in spaces or quotes; only file values are unwrapped, as in the code. A
quote that is never closed is only told apart in files, where the code does. The
reference for all this (`Effective`, `CommandLineOK`, `FileOK`) reads a
command line and a file as a whole: which words are flags and which are values,
and that the last of several counts.

`Wire` has the encoders and decoders over sequences of bytes, with the offsets
of the code, and reads one input per behaviour: a preamble, a frame header, or a
payload with the type its header announced.

`Intake` puts both side by side, because what a configuration permits one process
to send must be what the peer's decoder accepts (`PeerAccepts`).

## The port lease

`PortLease` says what the server promises about ports without actors or queues:
a port is free, held by a session for a process, held by a session that has said
goodbye, or reserved for a process. A session asks once; what it lost it does not
get back; a held port passes to a new holder in one step, without being free in
between; a port is reserved only when its holder is lost without a goodbye, and
becomes free only by expiry, by the goodbye or by closing; after closing nobody gets
a port. `Leases` reads a port's lease off its slot and the sessions that said
goodbye, `Spent` are the sessions past registration.

The documents promise this lease, and `Server!KeepsLeases` is the claim that `Server`
implements it. The code does not, in one case (run `goodbye_reserved`): when a user's
connection is handled between the `GOODBYE` and the `Goodbye` command, its `OPEN` cannot
be queued any more, the session counts as lost, and the port of a client that left is
reserved. `LeasesKeptUnlessOvertaken` has this step (`GoodbyeOvertaken`) as its only
exception. TLC checks it in `handover` (two sessions and a user), and
`ImplementsLease` proves it for all instances, the closing server included.

## Properties and runs

Every property has a mutant of the code (named "Mutant:" in the modules) that TLC
shows to violate it.

| Run | Instance | Checks |
|---|---|---|
| `ports` | 3 sessions, 2 processes, 5 ports of every kind, 2 slots | `OwnershipConsistent`, `NoGhostSession`, `DisplacedCutOff`, `ListenersMatchSlots`, `OnlyFreshTakesOver`, `TunnelKept`, `AutomaticIdempotent`, `UnavailableForCause` |
| `requests` | 1 session that admits 2 users, 3 users, 2 data connections | `TypeOK`, `Paired`, `NoLeakedRequest`, `PermitsConserved` |
| `handover` | 2 sessions, 1 user, 1 data connection, 2 commands in the channel | `RequestsOwned`, `OrphansCancelled`, `ServedByItsSlot`, `LeasesKeptUnlessOvertaken` |
| `shutdown` | fair; 1 session, 1 user, 1 data connection, heartbeats; the operator may stop the server, the client never answers a ping | `OrphansCancelled`, `PermitsConserved`; `RequestResolved`, `TrafficStops`, `SessionSettles`, `ReservationEnds`, `DeadClientNoticed`, `ServerStops` |
| `reconnect` | 2 processes, 2 connections, 2 ports, a cut, an interrupt and a kill | `ClientView`, `PortStable`, `ErrorForCause` |
| `rendezvous` | 1 process that admits 1 user, 2 users, 2 data connections, a cut, an interrupt | `EndToEnd`, `TargetsLimited` |
| `live_tunnel` | fair; 1 process, 1 connection, heartbeats both ways, a cut, an interrupt, the server may stop, its random source may fail | `ClientTypeOK`, `HeartbeatsMatch`; `ClientStops`, `OrphanNotices`, `AbandonedForgotten` |
| `inputs` | command lines of up to 3 arguments, or complete ones with 2 more settings; 4 environments; 7 file contents at 2 paths; preambles, headers, payloads | `Precedence`, `StartsExactly`, `PeerAccepts`, `PreambleExact`, `HeaderExact`, `RoundTrip` |

Bounds. Three sessions are what a takeover needs to go wrong twice (owner,
successor, and a resume of either); two processes tell own from foreign; two
data connections can race for one request, and a third user meets a tunnel at
its limit; the command channel holds one command and the outbound queues two
frames, so that all are full in many states. `handover` has room for two commands: a
user whom the old accept loop took must be queued behind the registration that binds
the port again. The server-wide limit of users is reached in no run, and nothing is
queued behind `Shutdown` (an instance too large to check with fairness);
`TypeCorrect`, `PermitsConservedHolds` and `OrphansCancelledHolds` cover both cases.
A connection is used once, which bounds the generation and listener counters; in
`Tunnel` the number of sessions bounds the attempts of all processes together, and
`MaxCuts` the lost connections. Two heartbeat numbers wrap at every second ping; with one, the
number would say nothing. Deadlock is checked in all runs: `Idle`, `AtRest` and
`Over` are the only steps allowed to do nothing, and only once every task has
ended. Symmetry is used in safety runs only; sessions, users and processes of
`Server` are interchangeable, ports are not, and neither are the numbered sessions
and the processes of `Tunnel`. Messages in `inputs` carry the ends of every field,
up to numbers below 2^31, the largest TLC has.

`ErrorForCause` has one exception, the `OPEN` that overtakes `REGISTERED` (below).
`SERVER_SHUTDOWN` needs none, because a server that stops has given all its
sessions up.
`EndToEnd` relates the states of four parties: the client forwards on a data
connection only if the server put that connection, and no other, in the box of
the user whose `OPEN` it answers, and has begun to forward.

Fairness of the server (`Fairness` in `Server`). The tokio runtime polls every
runnable task and its timers fire, so registry, sweep, writers, accept loops,
timeouts and the supervisor are weakly fair. A send on the command channel is
strongly fair, because tokio's channels grant room to waiting senders in order.
Nothing is assumed of clients, users or the operator: authentication, frames, new
connections and the natural end of a transfer are not fair, so `forwarding` may
last for ever while the tunnel lives. Fairness of the client (`ClientFairness`):
a frame that has arrived is handled, its timers fire (`control_attempt`,
`heartbeat_interval`, `heartbeat_timeout`, `shutdown_grace`, `request_wait`), and the
end of a connection is noticed unless it was cut, since nothing reports that.
Dialing, signals, users and targets are not fair.

### Disagreements with comments and documents

Four runs end in a counterexample; each is a behaviour of the code that a comment
or a document rules out. `PROJECT.json` quotes the lines.

* `open_before_registered`: the slot is Active before `REGISTERED` is queued, so
  `OPEN` can be the first message of a session. The client treats that as fatal.
* `own_replacement`: a client whose attempt timed out after the proof retries with
  a fresh registration; if the server handles the abandoned one last, it displaces
  the client's own tunnel, and the client exits with `REPLACED`.
* `shutdown_refusal`: a client that registers while the server stops gets
  `INTERNAL_ERROR`, or `SERVER_SHUTDOWN` before `REGISTERED`; it exits on either.
* `goodbye_reserved`: the slot of a client that said goodbye stays Active until the
  `Goodbye` command is handled; a user who comes first fails its session, and the port
  is reserved instead of released.

Without a run: a control connection keeps its handshake permit for the life of its
session (`PermitsConserved` has it so), although `registry.rs` describes
`MAX_HANDSHAKES` as a limit of handshakes that have not finished.

## Proofs

The proofs assume what the named `ASSUME`s of the modules state: `None` is no
identity and no error code, ports are positive, the limits are positive (the
outbound queue holds two), clients and hellos are well formed, and, for the tunnel,
that connections are numbered and the server accepts every hello a client can
write (`HelloAssumption`; in `Tunnel` the constant `Hellos` has no other use). Of
the inputs they assume that arguments, lines and bytes are sequences, that a value
that is there is a text, and that a reader has filled its buffer
(`StartupAssumption`, `InputAssumption`).
Nothing is assumed finite: there may be any number of sessions, users, ports and
processes. Each theorem carries the name of its property with `Holds`, unless
given otherwise here.

**Types** (`ServerProofs`, `TypeCorrect`). `TypeOK` is inductive; it includes the
capacities of the command channel and of the outbound queues, the width of the
heartbeat number, and that neither semaphore goes below zero. The second half of
the module looks at the channel as a set (`Queued`) with an order that no proof
needs, and says when a command is the only one of its kind (`Sole`).

**Ownership** (`OwnershipProofs`: `OwnershipHolds`).
`OwnershipConsistent` is not inductive: if a live session registered again, on
another port, it would own two. The lemmas about `RegistersOnce` exclude that, and
need in turn that no command is left once the registry has stopped (`RegistryStopped`),
because the supervisor then aborts tasks that may be waiting for their registration.
Installation, loss and goodbye are one lemma each; all steps outside the registry
are `Passive`, and one lemma treats them together.

**Listeners** (`OwnershipProofs`: `ListenersHold`, `UnavailableOnlyForCause`).
`ListenersMatchSlots` needs that a stopped registry has no slots (`RegistryDown`),
or an accept loop that finds the channel closed would leave its slot behind. That a
port is refused only for cause is then an action property of `Register`: a socket
bound to the port is another process's, or belongs to a loop without a slot.

**Sessions** (`SessionProofs`: `NoGhostSession`, `DisplacedCutOff`). The inductive
`SessionTasks` says of each session where its report is (`Reported`, with the
generation it will carry: a report with another one is ignored by the registry),
that a clean end is on its way to a goodbye (`CleanEnd`), that a task knows what it
will ask for (`Asking`), that a dropped session is cut off already before its
`REGISTERED` is queued (`CutOff`), and that a `Goodbye` in the channel is the only
one and awaited (`GoodbyesAwaited`).

**Leases** (`SessionProofs`: `TunnelKept`, `OnlyFreshTakesOver`,
`AutomaticIdempotent`, `ImplementsLease`). Every step of the server does one of a
few things to the port table (`PortSteps`); the three action properties follow
from ownership and `SessionTasks` for each. The refinement is proved the same way:
the initial states map to initial states, and each kind of step is an action of
`PortLease`, leaves the mapped variables alone, or is `GoodbyeOvertaken`. It needs that
a free slot is blank (`Blank`), because the mapping reads the whole slot, and that a
session that reports a loss has not said goodbye (`LossesUnclean`), because a lease
is only reserved for a session that has not.

**Users and slots** (`SessionProofs`: `ServedByItsSlot`). The listener id is compared
when a user is handled; the property says that the comparison stays true while the
session lives, through every later registration, takeover and release. It needs that
a user who is served has a session that was registered (`ServedRegistered`), since a
new session must not start with users of its own.

**Requests** (`RequestProofs`: `RequestsOwned`, `OrphansCancelled`,
`NoLeakedRequest`, `Paired`). The first two are inductive together over ownership,
since every handler that drops a session cancels its token and its requests in
one step (`CleanRemoval`). The third needs `RequestTasks`: the commands in the channel
agree with the tasks that sent them (`AcceptedQueued`, `FinishedClosed`), a request
with a socket is no longer pending (`ClaimedOnce`), and a stopped registry has no
requests (`PendingUp`). The fourth needs `Delivery`: a queued claim is the only one
of its socket and that socket waits for it (`ClaimsWaiting`), a delivered one has
dropped its permit (`DeliveredDone`, or the end of the grace period would abort it),
and sockets and oneshots name each other (`Pairing`).

**Permits** (`RequestProofs`: `PermitsConserved`). The counts are of finite sets,
which no constant guarantees: `Semaphores` carries that the served connections are
finitely many and belong to sessions, so that adding or removing one changes
both counts by one (`FiniteSetTheorems`). The converse for handshake permits,
that a permit is held exactly while its task runs, is `Dispatched`.

**Tunnel** (`TunnelProofs`). `ServerInTunnel` is `TunnelSpec => Spec`: with these
clients the server takes only steps of `Server`, so all theorems above hold in the
tunnel. It rests on what frames carry (`Sound`): a client that could send a number
out of range or report a request that is none would leave `Spec`.
* `ClientTypeCorrect`: the types of the clients and of everything in flight, from
  the same invariant (`TunnelInvariant`), with `Delivery` for the data connections
  that get `DATA_READY`.
* `PortStable` is an action property of `AsksItsOwn`: an attempt under way has asked
  for what its process would still ask for, so a resumed port is the old one.
* `EndToEnd` follows from `Rendezvous`: a task dials a data connection nobody else
  dialed (`OneEach`), the server reads on it the request of that task
  (`NamesItsRequest`), and `DATA_READY` goes to the socket in the oneshot of that
  request, which stays there (`ReadiedPaired`). It does not need that `OPEN` is sent
  once; a repeated one would only start the task over on another connection.
* `TargetsLimited` does not follow from the server's permits, which come back
  earlier, but from the client's own check. The count is of a set that grows by one at
  a time; that an `OPEN` starts the task of a user of its own session is `OpensNamed`.
* `ClientView` follows from `ServedAsAsked` (what the server serves on a connection
  is the hello written there, and what the registry has is under that process) and
  `ToldItsPort` (a `REGISTERED` queued or in flight, and the port a running client
  kept, is that of the session's entry as long as it has one). The entry itself may
  go at any time; what makes this inductive is that it never comes back
  (`Progress`), so an old `REGISTERED` cannot meet a new entry.

**Heartbeats** (`HeartbeatProofs`: `HeartbeatsMatch`). The property speaks of two
tasks that both run; the invariant must hold while one of them is not there.
`Pulse` counts the pings of a side and their answers over the three queues they
pass through: none before the side's loop runs (`Early`, or nobody has dialed), at
most the one it waits for afterwards, and with the number it waits for. A quiet
step adds no heartbeat to a queue (`NoNewBeat`), a tick adds one where there was
none, and an answer replaces a ping (`Transfer`, `Passed`). That a process has its session
to itself comes from `ServedAsAsked`.

**Errors** (`DialogueProofs`: `ErrorForCause`). That a client reads no error while its
session is registered is a statement about everything queued for it, so the
invariant follows the whole conversation. `Dialogue` gives each connection the
stage of its client (`Stage`): nothing is under way before it is dialed, the
answer to its hello or nothing while it waits for that, then `REGISTERED` with only
`OPEN` before and `OPEN` or `PING` after it, and `OPEN`, `PING`, `PONG` while it runs; the
server's queue and the wire are read as one (`Stream`), so writing a frame changes
nothing. It claims so only for a session that is registered or may still be
(`Hopeful`) on a connection that is not cut, since a server that gives a session up
may say anything; a session given up stays so (`HopeLost`). Every server step either
gives the session up or is one of a few reactions (`Reaction`), provided the client
gave no cause to close (`Orderly`), and each stage is closed under them
(`StageKept`); a client step moves its own connection to the stage of its next phase
(`OwnStage`) and leaves the others. That `REGISTERED` names the port asked for
(`Placed`) needs the server's choice of ports. The only frame left that can end such
a client is the `OPEN` of the exception.

The inductive invariants of the tunnel were also checked by TLC, on the instances
of `reconnect`, `rendezvous` and `live_tunnel`.

**Inputs** (`IntakeProofs`: `PreambleExact`, `HeaderExact`, `RoundTrip`, `PeerAccepts`,
`Precedence`, `StartsExactly`). Every sequence of bytes, every message and every
command line, environment and file is covered, of any length. What a recursive
function computes is proved by induction on a set of numbers (`Induction`, from
the well-foundedness of the naturals), which needs no predicate parameter.
* For the bytes: `to_be_bytes` and `from_be_bytes` are inverse at every width, every
  field is where it was written, and each message follows from its fields. The
  invariant (`Decoded`) is that a result is what its decoder makes of the input.
* For the settings: `Understood` says at every stage that the locals are what was
  meant by what has been read so far: the flags before `index` (`WordsFit`, `Given`),
  the lines before `line` (`LinesFit`, `SetBy`), the merged settings. It was also
  checked by TLC on the instance of `inputs`.
* `PeerAccepts` needs both: a started process has settings its mode accepts
  (`Vetted`), and such a port and such a limit fit the fields of the messages.

**Model-checked only.** The liveness properties (`RequestResolved`, `TrafficStops`,
`SessionSettles`, `ReservationEnds`, `DeadClientNoticed`, `ServerStops`,
`ClientStops`, `OrphanNotices`, `AbandonedForgotten`): they need fairness and
`ENABLED`, which are outside what the proof system does.

## Not modelled

* Cryptography (`auth.rs`): a proof verifies or not, and random ids do not repeat.
* Bytes and half-closes of forwarded connections, name resolution and the order
  in which resolved addresses are dialed, socket options, log output, texts of
  messages, exit codes.
* Durations, hence orders between timers that the durations would imply.
* A data connection that the client drops before its hello because its target
  cannot be dialed: to the server it is one more handshake that fails.
* Clients with another key than the server's: in `Tunnel` every proof verifies.
* Frames no client of this repository sends are only met by `Server`, whose
  environment is any client, and not by `Tunnel`.

## What could follow

All invariants and action properties of the passing runs are theorems. What is left
needs other means: the liveness properties a prover for fairness, and the orders
between timers a model with durations.
