# A TLA+ verification of mhp

mhp carries a browser's connections through a relay to an exit host. One binary
runs in three modes:

    browser --SOCKS5--> proxy --TLS/yamux--> relay <--TLS/yamux-- exit --> website

The proxy and the exit each keep one authenticated yamux session to the relay
and reconnect for ever. Every browser connection becomes a stream on the
proxy's session; the relay pairs it with a stream on the exit's session and
copies bytes both ways.

This directory models the program from the flags of a process to the bytes of a
stream and checks it with TLC on small instances. Every invariant and the action
property these runs check, and the safety part of both refinements, are also
proved with TLAPS for all instances. `PROJECT.json` lists the runs, the source lines of every definition,
the hazards and the theorems.

## Inventory

| component (source) | state it keeps | operations | what makes it correct |
|---|---|---|---|
| registry (`relay/registry.go`) | per role: session and generation | `Register`, `Current`, `Vacate`, under one mutex | a cleanup clears its own registration and no other |
| bridge (`relay/bridge.go`) | `conns`, `active`; per pair a watcher and a copy goroutine and a child context | `ServeProxy`, `ServeExit`, `launch`, `track` | pairs run proxy to exit, are counted exactly, stay under the ceiling and are torn down with either session |
| service (`relay/service.go`) | set of sessions, derived context, accept goroutine, one goroutine per session | `Run`, `serveSession`, `closeAll` | no session outlives its role or the shutdown; `Run` returns |
| handshake (`transport/handshake.go`, `tls.go`) | the connection being set up | accept, TLS, hello, verdict | each client is answered; nothing is registered before authentication |
| authenticator (`transport/authenticator.go`) | none between attempts | `dial`, `exchange`, `authenticate` | a failed attempt leaves nothing open |
| session (`transport/session.go`) | `closing` channel, once | `Close`, `Done`, mirror goroutine | `Done` follows the end of the mux |
| connector (`transport/connector.go`) | published link, backoff | `Run`, `connect`, `serve`, `waitBackoff`, `clearIf`, `Snapshot` | one open session, the newest is published, retries for ever, stops on cancel |
| duplex (`stream/duplex.go`, `adapter.go`) | two copiers, drain timer | `Run`, `CloseWrite`, `forceClose` | data before FIN, nil means complete, copiers joined, drain bounded |
| broker (`exit/broker.go`) | last link, acceptor per link, feed and stop channels | `Run`, `serveSession`, `streamAcceptor`, `serveConn` | every published link served, no acceptor or stream left behind |
| exit handler, resolver, policy (`exit/*.go`) | per stream: deadlines and contexts | `ServeConn`, `handleConnect`, `forward` | setup is bounded, payload is not; refused before dialled |
| proxy listener (`proxy/listener.go`) | admission semaphore | `serve`, `bridge`, `forwardRequest` | slots balanced, every request on the link that is current |
| framing, records (`transport/`) | none | read and write of frames, validation | a reader takes its frame and no more; a hello that is refused is told from one that is too long |
| main, config, logging (`cmd/mhp`, `config/`, `logging/`) | debug files, exit code, trust pool | `parseFlags`, `Load`, `openDebugFile`, `runMode`, the runners' start-up | debug files are not shared, a cancelled process exits clean |
| timing, yamux configuration, addresses, deployment | none | constants and provisioning | not modelled |

Components interact through calls (service to registry and bridge, listener and
broker to connector), through contexts (the service context reaches every serve
loop and pair; the link's context every handler), through channels (`CloseChan`,
`Done`, `link.done`, `feed`, `stop`, `accDone`), and across processes through
yamux sessions and streams. The hard behaviours are the replacement of a
session while its streams are being set up, the several goroutines that learn
of a session's end at different times, shutdown racing with accepts, and waits
that only some other goroutine's close can end.

## Modules

| module | models | composed of |
|---|---|---|
| `Registry` | `registry.go`; each method is one atomic step | |
| `Bridge` | `bridge.go`: serve loops and pairs | extends `Registry` |
| `RelayService` | `service.go` and the accept path of `handshake.go` | extends `Bridge` |
| `RoleOwnership` | what the relay promises about roles (abstract) | implemented by `RelayService` |
| `RelayServiceProofs` | theorems about `RelayService` | extends `RelayService` |
| `MCRelay` | instances of `RelayService` for TLC | extends `RelayService` |
| `Duplex`, `MCDuplex` | `duplex.go` on the program's three kinds of pairs | |
| `Connector` | `connector.go`, with `session.go` and the client side of `authenticator.go` | |
| `LinkPublisher` | what a connector promises its servers (abstract) | implemented by `Connector` |
| `ExitNode` | `broker.go` and `runExit` | extends `Connector` |
| `ProxyNode` | `listener.go` and `runProxy` | extends `LinkPublisher` |
| `ExitHandler` | `handler.go`, `resolver.go`, `access.go` | |
| `Handshake`, `MCHandshake` | both ends of one connection: `authenticator.go`, `handshake.go`, `framing.go`, `records.go`, `tls.go` | |
| `Process`, `MCProcess` | `main.go`, `config.go`, the debug files of `logging.go` | |
| `DuplexProofs`, `ConnectorProofs`, `ProxyNodeProofs`, `ExitHandlerProofs`, `HandshakeProofs`, `ProcessProofs` | theorems about the module they are named for | extend it |
| `ExitNodeProofs` | theorems about `ExitNode` | extends `ExitNode`, `ConnectorProofs` |

**How they fit.** A promise that one module checks is what the next one assumes.

- `Connector` implements `LinkPublisher`, its liveness included
  (`ImplementsPublisher`), even while the broker closes sessions under it;
  `ProxyNode` rides `LinkPublisher` and needs no dialling or backoff.
- `Duplex` ends once its context is done (`CancelEndsRun`); `Bridge`,
  `ProxyNode` and `ExitHandler` assume that of their copies.
- `ExitHandler` ends with its session (`HandlersEndWithSession`); `ExitNode`
  assumes that of `HandlerEnds`.
- `Handshake` has one connection in full (`MuxOnlyIfTrusted`); `RelayService`
  has the goroutine that runs them one after the other, and an `Authenticated`
  step that starts a session.
- `Process` lets a runner end when it is cancelled, which is what
  `ShutdownCompletes`, `ExitShutsDown` and `ProxyShutsDown` say.

**Correspondence.** A variable per goroutine family holds program counters
(`pc[s]` for the `serveSession` goroutine of session `s`, `run` for a `Run`
method, `acceptor[n]`, `copier[e]`, `conn[c]`). A label stands for the point
where the goroutine can block or where another goroutine can observe it; what
the code does between two such points is one action. `defer`red calls are
separate actions in the order Go runs them where somebody can tell. A channel
that is closed once is a set or a flag, a `context` is a flag, and the
derivation of contexts is in the guards (`CancelParent` sets the service context
too; `LinkDone` and `CtxDone` read the parent). Contention on a mutex is visible
only where a lock is held across several steps (`Unlist` waits while `closeAll`
sweeps). Operators whose comments say what is wrong with them
(`HoldsUnchecked`, `remainingForgotten`, `DialName`, ...) are defective variants
of the definition that follows them; no specification uses them. They exist so
that each property can be shown to depend on the code it is about.

**External parts.** yamux is modelled from its use: a session is open or closed,
a peer opens streams into an accept backlog that may still be drained after the
close, `OpenStream` on a closed session fails, and stream numbers are assigned
per session. A yamux stream's `Close` sends a FIN and does not unblock a reader,
which is why `ExitHandler` keeps `deadline` and `finned` apart. go-socks5 is
reduced to the calls it makes, in their order: greeting and request, resolver
(for a name, whatever the command), rule, connect handler, close. TLS and TCP succeed or fail; a deadline is a step
that may happen. In `Handshake` either end may be another program, which sends
one well- or ill-formed frame or half of one and hangs up. `Dial`,
`PeerOpensStream`, `SessionDies`, `MuxDies`, `FarSends`, `BrowserConnects`,
`ListenerFails`, `CorrectCA`, `Tick` and the like are the environment.

**Abstractions.** Chunks stand for bytes, and in `Handshake` a frame is two
cells, its header and its body, so that an end can stop between them. Durations
are free except that the backoff is a number between `MinBackoff` and
`MaxBackoff`; `Matures` makes the healthy window pass at any time; log output is
left out. An address is its kind: the distinctions `policy.allowed` makes
(loopback, private, ...), and among what it lets through the public addresses
(global) and those that are not (special). A bearer is a model value with two
properties: whether its hello is longer than `maxFrameBytes` (`Long`), and what
`json.Marshal` and `json.Unmarshal` make of it (`Carried`), which is another
bearer if it is not UTF-8. In `ExitHandler` the deadline of the stream
and the setup context, armed one after the other with the same duration, expire
together. In `Process` a flag is given or not and a file readable or not. In
`Bridge` a copy may end at any time (`CopyEnds`), which is what `Duplex` does
seen from outside. In `Duplex` a connection that breaks under a yamux stream
reads as EOF, as yamux reports it, so the copier cannot tell a cut from an end:
`sent` counts what reached this host.

## Runs

| run | instance (distinct states) | shows |
|---|---|---|
| `relay_replacement` | 2 exits, 1 proxy, 2 streams, ceiling 1 (1,739,604) | `TypeOK`, `GenerationsIdentify`, `NoOrphanedSession`, `SweepIsComplete`, `ShutdownReleases`, `PairsRunProxyToExit`, `StalePairsDoomed`, `ConnsExact` |
| `relay_pairs` | 1 exit, 1 proxy, 2 streams, ceiling 1 (128,912) | `PairsTornDown` |
| `relay_shutdown` | 2 exits, 1 proxy, no streams (45,416) | `ShutdownCompletes`, `ClientsAnswered`; `RelayService` implements `RoleOwnership`, fairness included |
| `duplex` | 2 chunks each way, 3 setups (141,921) | `NoFinBeforeData`, `NilMeansComplete`, `ReturnJoinsCopiers`, `FinIsPropagated`, `DrainIsBounded`, `CancelEndsRun` |
| `exit_node` | 2 sessions, 1 stream, backoff 1 to 3 (87,726) | `OneOpenSession`, `StoppedAcceptorsUnblocked`, `StreamsResolved`, `BrokerFollows`, `ExitShutsDown`; `Connector` implements `LinkPublisher`, fairness included |
| `proxy_node` | 2 links, 2 browser connections, 1 slot (19,208) | `SlotsBalanced`, `RequestsTakeNewest`, `RidersEndWithLink`, `ProxyShutsDown` |
| `exit_handler` | 2 streams, 5 kinds of addresses (200,786) | `DialedAllowed`, `PayloadUntimed`, `NothingLeftBehind`, `SetupBounded`, `HandlersEndWithSession` |
| `handshake` | 4 bearers, of which one is too long and one is not UTF-8, and the empty one, 2 cells of mux traffic (36,360) | `MuxOnlyIfTrusted`, `MuxStartsClean`, `VerdictsTrue`, `ClientDecides` |
| `process` | 2 processes, 9 ways to start, 2 names, 2 seconds (89,164) | `DebugFilesExclusive`, `CancelledExitsClean` |

`relay_replacement` and `exit_node` also check `TypeOK` and `ExitTypeOK`, the
latter with the backoff's ceiling in it. The other modules state their type
invariant (`DuplexTypeOK`, `ConnTypeOK`, `ProxyTypeOK`, `HandlerTypeOK`,
`HandTypeOK`, `ProcTypeOK`); it holds on the instances above and no run repeats
it. The first four are part of the invariants proved below.

**Bounds.** Two exits, a proxy and two streams make an exit be replaced at every
point of a stream's way through lookup, open and copy while another stream waits
for the ceiling; a third connection of the role (a successor's successor)
was checked with one stream and finds nothing more. A ceiling of 3 over a floor
of 1 makes the last doubling overshoot. Two chunks tell "all" from "some". Two
links tell the link being served from the one published next, and a stale
`Snapshot` from a fresh one. Two browser connections fill one slot and have one
refused. The streams of an exit share nothing but their session, so two of them
suffice for what they do to each other; of the kinds of addresses `exit_handler`
has the two that are let through and three that are refused, and the proof has
all ten. A long bearer and one that JSON turns into another that the relay may
expect are the two ways in which a bearer is not what it was. Two processes and two names make a
collision, its resolution, and the exhaustion of names when an earlier run left
a file. Deadlock checking is off because every one of these systems may rightly
stop: a `Run` that returned, with no client left to connect. That they do not
stop too early is what the liveness properties say. Symmetry is used only in
`relay_replacement`, which checks invariants alone.

**Fairness.** Weak fairness on each goroutine's steps (the Go scheduler), on the
expiry of waits the code bounds by a timer or a deadline, and on `Accept` when
a connection is queued or the listener is closed. Strong fairness only where a
`select` with two ready cases comes round again (`WaitCancelled`,
`ServeSessionEnds`): Go picks a ready case at random, so it does not pick the
same one for ever. Nothing is assumed of a browser, an exit that should answer
`forwardRequest`, a client of the exit's handler, another program at the end of
a connection, an operator or a listener. `PeerFairness`, that a client which
completed TLS sends its hello or breaks, is an assumption about peers, not a
consequence of the code; it is part of `LiveSpec` only (`relay_shutdown`), and
`doc_setup_deadline` shows what happens without it. `ImplementsOwnership` is
checked in the same run but does not rest on it: it concerns sessions that are
already authenticated.

## Disagreements between documentation and code

Three runs check a statement of a comment or of `spc/plan.md` and find it
violated. `findings` in `PROJECT.json` quotes the lines.

| run | what TLC shows |
|---|---|
| `doc_setup_deadline` | the wait for the hello is unbounded; a silent client stops the accept loop and the shutdown |
| `doc_resolve_bound` | each stream has a limiter of its own, so lookups are not capped |
| `doc_ca_recovers` | a CA file that was unreadable at start is never read again |

More were met while modelling and have no run of their own, because they can be
read off the code directly.

- A session registers from its own goroutine (`service.go:118`), so an older
  session can register late and replace a newer one; `plan.md:51` says the newly
  authenticated connection replaces the old one. What holds is that the last to
  register owns the role (`ImplementsOwnership`).
- On cancellation `Connector.serve` may take the `link.done` branch, and `Run`
  returns with the session open (`connector.go:174`).
- A session that ended is dialled again at once; only failed attempts wait
  (`connector.go:139`). The delays are described as jittered, and are not.
- The proxy's side of the SOCKS setup, `forwardRequest` included, has no
  deadline; `plan.md:111` gives the setup 15 s in total.
- A proxy whose listener fails stays up without one until it is cancelled
  (`main.go:282`); a relay whose listener fails exits with code 0, because
  `Service.Run` returns `ctx.Err()`.
- `config.go` says that it rejects unsafe listen addresses of the proxy;
  `isLoopback` is not called.
- The relay sets connections up one at a time, so the limit of 16
  unauthenticated connections of `plan.md` has no counterpart.
- The goroutines of the relay's pairs, of the proxy's connections and of the
  exit's handlers are not joined by the `Run` methods that start them;
  `PairsTornDown`, `RidersEndWithLink` and `HandlersEndWithSession` say that
  they end.
- `access.go:5-6` says that the policy dials "only publicly routable TCP
  endpoints"; it refuses the kinds it names and lets everything else through,
  100.64/10, the rest of 0/8, 192.0.2/24, 240/4 and NAT64 addresses included.
  What holds is that the address that was judged is the one that is dialled
  (`DialedAllowed`).
- `framing.go:46-47` says that `writeFrame` fails "if the length is absurd"; it
  checks nothing. A hello that is too long is sent, and the relay closes the
  connection without an answer, so the client retries for ever with
  `ErrExchange` (`VerdictsTrue`).
- `writeJSON` replaces bytes of a bearer that are not UTF-8, and the relay
  compares the result with the bytes of its own file: equal files that are not
  UTF-8 are refused, and a client's file that differs from the relay's in such
  bytes only is accepted if the relay's holds U+FFFD there. `MuxOnlyIfTrusted`
  and `VerdictsTrue` speak of the bearer that is presented.
- `plan.md:73` says not to kill the reverse direction on an ordinary EOF, and
  `duplex.go:76` that `CloseWrite` leaves it intact; the proxy's `requestConn`
  closes the browser's connection fully (`listener.go:161`), and says why.
  `FinIsPropagated` excepts a direction that such a close has cut off.
- `Bridge.active` is keyed by stream numbers that repeat across proxy sessions,
  so the end of one pair can delete another's entry; nothing reads the map.

## Proofs

Each theorem is about the specification without its fairness (`Spec`,
`DuplexSpec`, `ConnectorSpec`, `ExitSpec`, `ProxySafety`, `HandlerSafety`,
`HandSafety`, `ProcessSafety`) and holds for every value of the constants that
the named assumptions admit. Each rests on an inductive
invariant, which TLC checked on the instances of the table above before it was
proved (`DuplexInv` on all 16 setups, 770,472 states).

| module | assumptions | inductive invariant | theorems (what they state) |
|---|---|---|---|
| `RelayServiceProofs` | `NoSessionAssumption`, `BridgeAssumption`: finite sets of sessions and streams, a ceiling of at least 1 | `RelayInvariant` | `RelayTypes` (`TypeOK`), `GenerationsTheorem` (`GenerationsIdentify`), `NoOrphanTheorem` (`NoOrphanedSession`), `ConnsTheorem` (`ConnsExact`), `PairingTheorem` (`PairsRunProxyToExit`), `StalePairsTheorem` (`StalePairsDoomed`), `SweepTheorem` (`SweepIsComplete`), `ShutdownTheorem` (`ShutdownReleases`), `OwnershipRefinement` (`Ownership!OwnSafety`) |
| `DuplexProofs` | `DuplexAssumption`: any setups, any number of chunks | `DuplexInvariant` | `FinTheorem` (`NoFinBeforeData`), `NilTheorem` (`NilMeansComplete`), `JoinTheorem` (`ReturnJoinsCopiers`) |
| `ConnectorProofs` | `ConnectorAssumption`: any number of sessions, a positive backoff floor, no greater than the ceiling (`validate` in `timing.go`) | `ConnectorInvariant` | `OneOpenAlone` (`OneOpenSession`), `PublisherAlone` (`Publisher!PubSafety`), for the connector by itself |
| `ExitNodeProofs` | and `ExitNodeAssumption`: "no stream" is not a stream | `ExitInvariant` | `ExitTypeTheorem` (`ExitTypeOK`), `OneOpenTheorem` (`OneOpenSession`), `AcceptorsTheorem` (`StoppedAcceptorsUnblocked`), `PublisherTheorem` (`Publisher!PubSafety`), for connector and broker together |
| `ProxyNodeProofs` | `MaxLinksAssumption`, `ProxyNodeAssumption`: finitely many connections, at least one slot | `ProxyInvariant` | `SlotsTheorem` (`SlotsBalanced`), `NewestTheorem` (`RequestsTakeNewest`) |
| `ExitHandlerProofs` | `ExitHandlerAssumption`: any streams, any of the kinds of addresses, a positive bound | `HandlerInvariant` | `DialTheorem` (`DialedAllowed`), `PayloadTheorem` (`PayloadUntimed`), `CleanupTheorem` (`NothingLeftBehind`) |
| `HandshakeProofs` | `HandshakeAssumption`: any bearers, any of them too long, any conversion of them by JSON, any amount of mux traffic | `HandshakeInvariant` | `TrustTheorem` (`MuxOnlyIfTrusted`), `CleanMuxTheorem` (`MuxStartsClean`), `VerdictTheorem` (`VerdictsTrue`) |
| `ProcessProofs` | `ProcessAssumption`: any processes and launches, at least one name and one second | `ProcessInvariant` | `DebugFilesTheorem` (`DebugFilesExclusive`), `ExitTheorem` (`ExitedClosesLog`), `CleanWayOutTheorem` (`[][OnlyCleanWayOut]_procVars`) |

**Why the invariants are stronger than the properties.**

- *Relay.* `GenerationsIdentify` needs to know that a goroutine has a generation
  exactly between `Register` and its end, and that the session in a slot has that
  slot's role and a goroutine that has yet to vacate (`SessionInv`, `SlotInv`):
  otherwise a `Vacate` could be taken to miss its registration.
  `NoOrphanedSession` needs that `Vacate` runs on a closed session.
  `SweepIsComplete` needs that the recorded sessions are exactly those with a
  running goroutine, and that no handshake is under way once the accept
  goroutine is over (`AcceptInv`). `StalePairsDoomed` follows from
  `NoOrphanedSession` once every pair's exit is known to have registered
  (`StreamInv`); that has to hold already for the exit `ServeProxy` has looked up
  and not yet used. `ConnsExact` needs that the stream in hand is in no pair, so
  that `launch` adds exactly one to `LivePairs`. The proof first shows what each
  group of actions leaves unchanged (`ServeStepFrame`, `PairFrame`,
  `OtherStepFrame`), then has one lemma per conjunct, split by action.
- *Duplex.* That a nil result means a complete transfer takes three facts about
  different goroutines: from its EOF on a copier's direction is complete and
  stays so (`DirectionInv`), a copier has a result exactly when it has posted
  it (`CopierInv`), and while `Run` is in its select, all it has taken is nil
  (`RunInv`).
- *Connector and exit.* `OneOpenSession` depends on the order in which the end
  of a session travels: mux, `Done`, the link's context, `link.done`
  (`SignalInv`). Run dials only behind `link.done`, so behind the end of the mux,
  unless the process is ending, when it does not dial any more
  (`SessionsInv`). `CurrentInv` says what is published by where `Run` is, which
  is the refinement of `LinkPublisher`. The broker closes sessions that `Run`
  believes to be alive, so the invariant is proved for steps of the connector
  *or of a server that closes a published session* (`SharedNext`), and
  `ExitSharedStep` shows that every step of the exit is one of these or
  invisible to the connector. The results about the connector carry over to the
  exit without being proved again. `StoppedAcceptorsUnblocked` needs besides that
  acceptors exist only for links up to the one the broker came to last
  (`BrokerInv`).
- *Proxy.* `SlotsBalanced` is inductive given types, with lemmas on how the
  cardinality of the set of admitted connections changes when one comes or goes
  (`OneMoreHolder`, `OneHolderLess`). `RequestsTakeNewest` is a property of steps: it
  needs that what the publisher shows is its newest link or none (`PubInv`), and
  that no step but `Snapshot` starts a rider.
- *Exit handler.* The address that is dialled is the one that was checked
  (`PolicyInv` follows it from the rule to the dial, before which nothing is
  dialled); the deferred calls are
  counted off one by one (`TargetInv`, `LimiterInv`, `EndInv`), with the watcher
  acting on the stream at every point.
- *Handshake.* The invariant gives the whole content of both channels for every
  pair of positions of the two ends (`ToRelayInv`, `ToClientInv`), ends that
  hung up in the middle of a frame included, and separately for a client and a
  relay that is another program (`OtherClientInv`, `OtherRelayInv`). That a mux
  starts clean is then a fact about two positions. `VerdictInv` says that only a
  hello that fits is given a verdict, and `UndisturbedInv` what an undisturbed
  refusal, or the silence after a hello that is too long, looks like on its way
  to the client, which is what `VerdictsTrue` lacks to be inductive.
- *Process.* `DebugFilesExclusive` needs that a file that is open was reserved
  (`LogInv`: a process has only files open that exist), so that creating a file
  that did not exist makes one that nobody has. Two properties are stated with
  the proofs: `ExitedClosesLog`, that every path from `openDebugFile` to an exit
  runs the deferred `Close`, and the action property `OnlyCleanWayOut`, the safety
  half of `CancelledExitsClean`.

**Only model-checked.** All liveness properties (`PairsTornDown`,
`ShutdownCompletes`, `ClientsAnswered`, `FinIsPropagated`, `DrainIsBounded`, `CancelEndsRun`,
`StreamsResolved`, `BrokerFollows`, `ExitShutsDown`, `RidersEndWithLink`,
`ProxyShutsDown`, `SetupBounded`, `HandlersEndWithSession`, `ClientDecides`,
`CancelledExitsClean`) and the fairness conjuncts of `ImplementsOwnership` and
`ImplementsPublisher`: the prover handles neither fairness nor `ENABLED`.
`HandTypeOK` and `ProcTypeOK` are not proved as such; the proofs use what they
need of them (`EndsInv`; `NameInv`, `CodeInv`, `LogInv`).

## Not modelled

- `logging/redacting.go`: a structural recursion over the attributes of a log
  record, without state or concurrency; its tests enumerate the cases.
- `Authenticator.Run` with its jittered `backoff`, and `Registry.Stale`: reached
  from tests only. `isLoopback`: not called.
- The durations of `Timing` and their validation, apart from the order of the
  backoff's floor and ceiling; `yamux.go`, which fills in a configuration record;
  `stream/addr.go`, constants.
- yamux's flow control and keepalive, TLS, DNS and go-socks5 beyond the calls
  above: external.
- Deployment scripts and the launcher: no program logic.

## Plan

The model is complete but for the parts above, and every invariant a run checks
is proved. What is left, in this order:

1. the safety half of liveness properties, as is done for
   `CancelledExitsClean`: that a stream the acceptor took is never lost
   (`StreamsResolved`), that a rider whose link is over can only leave
   (`RidersEndWithLink`);
2. action properties: what is over stays over (closed sessions, stopped
   acceptors, results of copiers), generations only grow;
3. `HandTypeOK` and `ProcTypeOK`, with the parts of the variables that no
   other proof needs.
