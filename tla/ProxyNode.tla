------------------------------ MODULE ProxyNode ------------------------------
(***************************************************************************)
(* internal/proxy/listener.go as runProxy (cmd/mhp/main.go) starts it: the *)
(* accept loop, one goroutine per browser connection, and the connector    *)
(* whose published link the requests ride.  The connector appears as its   *)
(* abstract promise LinkPublisher, which Connector implements; the copy of *)
(* payload appears as the promise Duplex keeps: it ends once its context   *)
(* is done.                                                                *)
(***************************************************************************)
EXTENDS LinkPublisher, FiniteSets

CONSTANTS Conns, MaxPending

ASSUME ProxyNodeAssumption == IsFiniteSet(Conns) /\ MaxPending \in Nat \ {0}

VARIABLES
    proc,       \* runProxy: in listener.Run, in wg.Wait, or returned
    lnClosed,   \* the listening socket is closed
    sem,        \* tokens in the admission semaphore
    conn,       \* per browser connection: where its goroutine is
    via         \* per browser connection: the link its request rides

listenVars == <<proc, lnClosed, sem, conn, via>>
proxyVars == <<pubVars, listenVars>>

ConnPCs == {"none", "queued", "new", "socks", "snapshot", "open", "greet",
            "copy", "release", "closed"}

Holders == {c \in Conns : conn[c] \notin {"none", "queued", "new", "closed"}}
Riders == {c \in Conns : conn[c] \in {"open", "greet", "copy"}}

New ==
    /\ proc = "listen"
    /\ lnClosed = FALSE
    /\ sem = 0
    /\ conn = [c \in Conns |-> "none"]
    /\ via = [c \in Conns |-> 0]

Goto(c, pc) == conn' = [conn EXCEPT ![c] = pc]

\* A step of c's goroutine that only moves it on.
Moves(c, from, to) ==
    /\ conn[c] = from
    /\ Goto(c, to)
    /\ UNCHANGED <<pubVars, proc, lnClosed, sem, via>>

-----------------------------------------------------------------------------
(* The accept loop and runProxy.                                           *)

\* External: a browser connects.
BrowserConnects(c) == ~lnClosed /\ Moves(c, "none", "queued")

Accept(c) == proc = "listen" /\ ~lnClosed /\ Moves(c, "queued", "new")

\* The goroutine Run starts to close the listener with the context.
CloseListener ==
    /\ stop
    /\ ~lnClosed
    /\ lnClosed' = TRUE
    /\ UNCHANGED <<pubVars, proc, sem, conn, via>>

\* Accept fails and Run returns: the listener was closed, or it broke.
AcceptFails ==
    /\ proc = "listen"
    /\ proc' = "join"
    /\ UNCHANGED <<pubVars, lnClosed, sem, conn, via>>

\* A runProxy that waits for its connections and not for the connector.
ConnsJoined == Holders = {}

ConnectorJoined == quit

\* wg.Wait, the deferred Close, and the end of the process, which takes the
\* connections nobody waited for with it.
RunProxyReturns ==
    /\ proc = "join"
    /\ ConnectorJoined
    /\ proc' = "exited"
    /\ lnClosed' = TRUE
    /\ sem' = 0
    /\ conn' = [c \in Conns |-> IF conn[c] = "none" THEN "none" ELSE "closed"]
    /\ UNCHANGED <<pubVars, via>>

-----------------------------------------------------------------------------
(* serve, with go-socks5's ServeConn reduced to the calls it makes.        *)

Room == sem < MaxPending

acquire(c) ==
    /\ conn[c] = "new"
    /\ Room
    /\ sem' = sem + 1
    /\ Goto(c, "socks")
    /\ UNCHANGED <<pubVars, proc, lnClosed, via>>

\* A serve that defers release before it knows whether acquire succeeded.
refuseReleasing(c) ==
    /\ conn[c] = "new"
    /\ ~Room
    /\ sem' = sem - 1
    /\ Goto(c, "closed")
    /\ UNCHANGED <<pubVars, proc, lnClosed, via>>

refuse(c) == ~Room /\ Moves(c, "new", "closed")

\* Greeting, authentication and request are read from the browser, with no
\* deadline.
Negotiated(c) == Moves(c, "socks", "snapshot")
NegotiationFails(c) == Moves(c, "socks", "release")

-----------------------------------------------------------------------------
(* bridge.                                                                 *)

\* A listener that keeps the link its first request was given.
KeptLink ==
    LET used == {via[c] : c \in Conns} \ {0}
    IN  IF used = {} THEN published ELSE CHOOSE n \in used : TRUE

\* The link Connector.Snapshot returns, asked anew for each request.
CurrentLink == published

NoLink(c) == CurrentLink = 0 /\ Moves(c, "snapshot", "release")

Snapshot(c) ==
    /\ CurrentLink # 0
    /\ conn[c] = "snapshot"
    /\ via' = [via EXCEPT ![c] = CurrentLink]
    /\ Goto(c, "open")
    /\ UNCHANGED <<pubVars, proc, lnClosed, sem>>

OpenStream(c) == via[c] \notin over /\ Moves(c, "open", "greet")
OpenStreamFails(c) == Moves(c, "open", "release")

\* forwardRequest: greeting, the exit's reply, the request; the reply is
\* awaited with no deadline and no context, the session's end apart.
forwardRequest(c) == via[c] \notin over /\ Moves(c, "greet", "copy")
forwardRequestFails(c) == Moves(c, "greet", "release")

\* A bridge that copies under the context of the process.
CopyUnderProcess(c) == stop

\* Duplex.Run(link.Ctx): the copy's context is done.
CopyCancelled(c) == CtxDone(via[c])

CopyEnds(c) == Moves(c, "copy", "release")

release(c) ==
    /\ conn[c] = "release"
    /\ sem' = IF sem > 0 THEN sem - 1 ELSE sem
    /\ Goto(c, "closed")
    /\ UNCHANGED <<pubVars, proc, lnClosed, via>>

-----------------------------------------------------------------------------
(* The specification.                                                      *)

\* The steps of c's goroutine that wait for nobody.
Unwaiting(c) ==
    \/ acquire(c) \/ refuse(c) \/ NoLink(c) \/ Snapshot(c)
    \/ OpenStream(c) \/ OpenStreamFails(c) \/ release(c)

ServeStep(c) ==
    \/ Unwaiting(c) \/ Negotiated(c) \/ NegotiationFails(c)
    \/ forwardRequest(c) \/ forwardRequestFails(c) \/ CopyEnds(c)

ProxyInit == PubInit /\ New

ProxyNext ==
    \/ PubNext /\ proc # "exited" /\ UNCHANGED listenVars
    \/ CloseListener \/ AcceptFails \/ RunProxyReturns
    \/ \E c \in Conns : BrowserConnects(c) \/ Accept(c) \/ ServeStep(c)

ProxySafety == ProxyInit /\ [][ProxyNext]_proxyVars

(***************************************************************************)
(* The connector keeps its promise and goroutines are scheduled.  A        *)
(* browser may stay silent for ever and an exit may never answer; but a    *)
(* dead session fails the read of its answer, opening a stream is bounded  *)
(* by yamux, a closed listener fails Accept, and Duplex ends with its      *)
(* context.                                                                *)
(***************************************************************************)
ProxySpec ==
    /\ ProxySafety
    /\ WF_proxyVars(Withdraw /\ UNCHANGED listenVars)
    /\ WF_proxyVars(Quit /\ UNCHANGED listenVars)
    /\ \A n \in Links : WF_proxyVars(~stop /\ CtxEnds(n) /\ UNCHANGED listenVars)
    /\ WF_proxyVars(CloseListener)
    /\ WF_proxyVars(lnClosed /\ AcceptFails)
    /\ WF_proxyVars(RunProxyReturns)
    /\ \A c \in Conns :
        /\ WF_proxyVars(Unwaiting(c))
        /\ WF_proxyVars(via[c] \in over /\ forwardRequestFails(c))
        /\ WF_proxyVars(CopyCancelled(c) /\ CopyEnds(c))

-----------------------------------------------------------------------------
(* Properties.                                                             *)

\* Every variable has its type.
ProxyTypeOK ==
    /\ proc \in {"listen", "join", "exited"}
    /\ lnClosed \in BOOLEAN
    /\ sem \in 0..MaxPending
    /\ conn \in [Conns -> ConnPCs]
    /\ via \in [Conns -> 0..count]

(***************************************************************************)
(* acquire and release pair up on every path through serve: the semaphore  *)
(* holds one token for each admitted connection and none other, and never  *)
(* more than MaxPending, although release does not block and so would      *)
(* swallow a token too many in silence.                                    *)
(***************************************************************************)
SlotsBalanced == sem = Cardinality(Holders) /\ sem <= MaxPending

(***************************************************************************)
(* A request that comes to bridge after a reconnection rides the new link: *)
(* whatever earlier requests still ride, and although the link is taken    *)
(* long after the connection was admitted (listener.go:96 against 78), no  *)
(* request starts on a link that has been replaced.                        *)
(***************************************************************************)
RequestsTakeNewest == [][\A c \in Riders' \ Riders : via'[c] = count']_proxyVars

(***************************************************************************)
(* A connection that rides a link whose session has ended is closed and    *)
(* gives its slot back, wherever bridge was when the session ended, and    *)
(* one that finds no link is closed too ("close new browser connections    *)
(* promptly when disconnected", spc/plan.md:99).                           *)
(***************************************************************************)
RidersEndWithLink ==
    \A c \in Conns :
        /\ (c \in Riders /\ via[c] \in over) ~> (conn[c] = "closed")
        /\ (conn[c] = "snapshot") ~> (conn[c] \in {"greet", "closed"})

(***************************************************************************)
(* runProxy returns after cancellation, whatever its browsers do and even  *)
(* if the listener had failed before and left runProxy waiting for the     *)
(* connector.                                                              *)
(***************************************************************************)
ProxyShutsDown == stop ~> (proc = "exited")
=============================================================================
