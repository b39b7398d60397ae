------------------------------- MODULE Bridge -------------------------------
(***************************************************************************)
(* internal/relay/bridge.go: the serve loops that accept streams on a      *)
(* session, and the pairs of proxy and exit streams the relay copies       *)
(* between.  One goroutine per session runs ServeProxy or ServeExit; every *)
(* pair has a watcher goroutine and a copy goroutine.                      *)
(*                                                                         *)
(* The yamux library is external: a session is open or closed (CloseChan), *)
(* a stream the peer opened waits in the session's accept backlog, and an  *)
(* OpenStream on a closed session fails.                                   *)
(***************************************************************************)
EXTENDS Registry, Integers, FiniteSets

CONSTANTS
    Streams,     \* streams the clients may ever open
    NoStream,    \* no stream in hand
    RoleOf,      \* Session.Role, fixed by the authenticated hello
    MaxStreams   \* maxStreams (256 in the code)

ASSUME BridgeAssumption ==
    /\ RoleOf \in [Sessions -> Roles]
    /\ IsFiniteSet(Sessions)
    /\ IsFiniteSet(Streams)
    /\ NoStream \notin Streams
    /\ MaxStreams \in Nat \ {0}

VARIABLES
    closed,      \* sessions whose yamux session has shut down
    ctxDone,     \* the service context the loops and pairs were given is done
    pc,          \* per session: where its serveSession goroutine is
    cur,         \* per session: the proxy stream ServeProxy has in hand
    snap,        \* per session: the exit session ServeProxy looked up
    conns,       \* Bridge.conns
    active,      \* Bridge.active, a set of yamux stream ids
    phase,       \* per stream: its life at the relay
    home,        \* per stream: the session that carries it
    id,          \* per stream: StreamID(), numbered per session
    exitOf,      \* per stream: the exit session of its pair
    watching,    \* the streams whose pair's watcher goroutine is running
    cancelled    \* the streams whose pair's child context is cancelled

streamVars == <<phase, home, id, exitOf, watching, cancelled>>
pairVars == <<conns, active, exitOf, watching, cancelled>>
bridgeVars == <<closed, ctxDone, pc, cur, snap, conns, active, streamVars>>

Phases == {"unopened", "queued", "accepted", "copying", "joining", "closed"}
ServePCs == {"top", "accept", "lookup", "open", "ended"}

\* The pairs Bridge.conns counts: launched and not yet released by track.
LivePairs == {t \in Streams : phase[t] \in {"copying", "joining"}}

NewBridge ==
    /\ closed = {}
    /\ ctxDone = FALSE
    /\ cur = [s \in Sessions |-> NoStream]
    /\ snap = [s \in Sessions |-> NoSession]
    /\ conns = 0
    /\ active = {}
    /\ phase = [t \in Streams |-> "unopened"]
    /\ home = [t \in Streams |-> NoSession]
    /\ id = [t \in Streams |-> 0]
    /\ exitOf = [t \in Streams |-> NoSession]
    /\ watching = {}
    /\ cancelled = {}

Go(s, where) == pc' = [pc EXCEPT ![s] = where]

(***************************************************************************)
(* External: the peer of session s opens a stream.  yamux numbers the      *)
(* streams of each session from the start, so two sessions reuse ids.      *)
(***************************************************************************)
PeerOpensStream(s, t) ==
    /\ pc[s] # "none"
    /\ s \notin closed
    /\ phase[t] = "unopened"
    /\ phase' = [phase EXCEPT ![t] = "queued"]
    /\ home' = [home EXCEPT ![t] = s]
    /\ id' = [id EXCEPT ![t] = Cardinality({u \in Streams : home[u] = s}) + 1]
    /\ UNCHANGED <<slots, closed, ctxDone, pc, cur, snap, pairVars>>

\* Both serve loops test the context only between two accepts.
LoopTop(s) ==
    /\ pc[s] = "top"
    /\ Go(s, IF ctxDone THEN "ended" ELSE "accept")
    /\ UNCHANGED <<slots, closed, ctxDone, cur, snap, conns, active, streamVars>>

\* AcceptStream fails once the session has shut down.
AcceptError(s) ==
    /\ pc[s] = "accept"
    /\ s \in closed
    /\ Go(s, "ended")
    /\ UNCHANGED <<slots, closed, ctxDone, cur, snap, conns, active, streamVars>>

\* A service that runs the pairing loop for either role.
RunsServeProxyAlways(s) == TRUE

\* The switch of serveSession: ServeProxy for a proxy, ServeExit for an exit.
RunsServeProxy(s) == RoleOf[s] = "proxy"

(***************************************************************************)
(* A queued stream may still be handed out after the session has shut      *)
(* down: AcceptStream selects between its backlog and the shutdown.        *)
(***************************************************************************)
ServeProxyAccept(s, t) ==
    /\ pc[s] = "accept"
    /\ RunsServeProxy(s)
    /\ phase[t] = "queued"
    /\ home[t] = s
    /\ phase' = [phase EXCEPT ![t] = "accepted"]
    /\ cur' = [cur EXCEPT ![s] = t]
    /\ Go(s, "lookup")
    /\ UNCHANGED <<slots, closed, ctxDone, snap, home, id, pairVars>>

ServeExitReject(s, t) ==
    /\ pc[s] = "accept"
    /\ ~RunsServeProxy(s)
    /\ phase[t] = "queued"
    /\ home[t] = s
    /\ phase' = [phase EXCEPT ![t] = "closed"]
    /\ Go(s, "top")
    /\ UNCHANGED <<slots, closed, ctxDone, cur, snap, home, id, pairVars>>

\* ServeProxy gives up the stream in hand and goes round the loop.
DropStream(s) ==
    /\ phase' = [phase EXCEPT ![cur[s]] = "closed"]
    /\ cur' = [cur EXCEPT ![s] = NoStream]
    /\ snap' = [snap EXCEPT ![s] = NoSession]
    /\ Go(s, "top")
    /\ UNCHANGED <<home, id, pairVars>>

\* reg.Current(ModeExit): no exit closes the stream, never queues it.
LookupExit(s) ==
    /\ pc[s] = "lookup"
    /\ \/ /\ Current("exit-node") = NoSession
          /\ DropStream(s)
       \/ /\ Current("exit-node") # NoSession
          /\ snap' = [snap EXCEPT ![s] = Current("exit-node")]
          /\ Go(s, "open")
          /\ UNCHANGED <<cur, streamVars, conns, active>>
    /\ UNCHANGED <<slots, closed, ctxDone>>

\* exit.OpenStream fails, on a closed session certainly, on an open one maybe.
OpenExitFails(s) ==
    /\ pc[s] = "open"
    /\ DropStream(s)
    /\ UNCHANGED <<slots, closed, ctxDone>>

\* The ceiling tested as "more than" instead of "at least".
BelowLimitInclusive == conns <= MaxStreams

BelowLimit == conns < MaxStreams

(***************************************************************************)
(* exit.OpenStream succeeds and launch starts the pair.  Nothing another   *)
(* goroutine can see happens between the two, so they are one step.        *)
(***************************************************************************)
launch(s) ==
    /\ pc[s] = "open"
    /\ snap[s] \notin closed
    /\ BelowLimit
    /\ phase' = [phase EXCEPT ![cur[s]] = "copying"]
    /\ exitOf' = [exitOf EXCEPT ![cur[s]] = snap[s]]
    /\ watching' = watching \cup {cur[s]}
    /\ active' = active \cup {id[cur[s]]}
    /\ conns' = conns + 1
    /\ cur' = [cur EXCEPT ![s] = NoStream]
    /\ snap' = [snap EXCEPT ![s] = NoSession]
    /\ Go(s, "top")
    /\ UNCHANGED <<slots, closed, ctxDone, home, id, cancelled>>

\* launch at the ceiling closes both streams and starts nothing.
launchRejected(s) ==
    /\ pc[s] = "open"
    /\ snap[s] \notin closed
    /\ ~BelowLimit
    /\ DropStream(s)
    /\ UNCHANGED <<slots, closed, ctxDone>>

\* A watcher that only watches the proxy session.
PairOverMissingExit(t) == home[t] \in closed \/ t \in cancelled \/ ctxDone

\* One of the cases of the watcher's select is ready.
PairOver(t) ==
    home[t] \in closed \/ exitOf[t] \in closed \/ t \in cancelled \/ ctxDone

\* The watcher goroutine of launch: any of its three cases cancels the child.
Watcher(t) ==
    /\ t \in watching
    /\ PairOver(t)
    /\ watching' = watching \ {t}
    /\ cancelled' = cancelled \cup {t}
    /\ UNCHANGED <<slots, closed, ctxDone, pc, cur, snap, conns, active,
                   phase, home, id, exitOf>>

(***************************************************************************)
(* The copy goroutine's Duplex.Run returns: by itself at any time, and     *)
(* certainly once the child context is done (MustStop).  The deferred      *)
(* cancel follows at once.                                                 *)
(***************************************************************************)
MustStop(t) == t \in cancelled \/ ctxDone

CopyEnds(t) ==
    /\ phase[t] = "copying"
    /\ phase' = [phase EXCEPT ![t] = "joining"]
    /\ cancelled' = cancelled \cup {t}
    /\ UNCHANGED <<slots, closed, ctxDone, pc, cur, snap, conns, active,
                   home, id, exitOf, watching>>

\* The goroutine joins the watcher (<-watcherDone), then track releases.
track(t) ==
    /\ phase[t] = "joining"
    /\ t \notin watching
    /\ phase' = [phase EXCEPT ![t] = "closed"]
    /\ active' = active \ {id[t]}
    /\ conns' = conns - 1
    /\ UNCHANGED <<slots, closed, ctxDone, pc, cur, snap, home, id, exitOf,
                   watching, cancelled>>

\* One step of the loop of session s, and one step of the pair of stream t.
ServeStep(s) ==
    \/ LoopTop(s) \/ AcceptError(s)
    \/ \E t \in Streams : ServeProxyAccept(s, t) \/ ServeExitReject(s, t)
    \/ LookupExit(s) \/ OpenExitFails(s) \/ launch(s) \/ launchRejected(s)

PairStep(t) == Watcher(t) \/ (MustStop(t) /\ CopyEnds(t)) \/ track(t)
=============================================================================
