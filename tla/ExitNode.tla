------------------------------ MODULE ExitNode ------------------------------
(***************************************************************************)
(* internal/exit/broker.go composed with the connector: what runExit       *)
(* starts.  The broker polls the connector for the link it publishes,      *)
(* serves each link once, and feeds the streams the relay opens on it to   *)
(* one handler goroutine each, through an acceptor goroutine per link.     *)
(* What a handler does with its stream is left out here: it ends by itself *)
(* at any time, and certainly when the link's context is done.             *)
(***************************************************************************)
EXTENDS Connector, FiniteSets

CONSTANTS Streams, NoStream      \* streams the relay may ever open here

ASSUME ExitNodeAssumption == NoStream \notin Streams

VARIABLES
    broker,      \* where Broker.Run is
    last,        \* Broker.Run's last; the link serveSession serves
    acceptor,    \* per link: where its streamAcceptor is
    held,        \* per link: the stream its acceptor offers to feed
    stopped,     \* links whose stop channel is closed
    phase,       \* per stream: its life at the exit
    on           \* per stream: the session that carries it

streamVars == <<phase, on>>
brokerVars == <<broker, last, acceptor, held, stopped, streamVars>>
exitVars == <<connVars, brokerVars>>

BrokerPCs == {"top", "stall", "serving", "returned"}
AcceptorPCs == {"none", "top", "accept", "offer", "gone"}
StreamPhases == {"unopened", "queued", "held", "serving", "closed"}

NewBroker ==
    /\ broker = "top"
    /\ last = 0
    /\ acceptor = [n \in Links |-> "none"]
    /\ held = [n \in Links |-> NoStream]
    /\ stopped = {}
    /\ phase = [t \in Streams |-> "unopened"]
    /\ on = [t \in Streams |-> 0]

\* External: the relay opens a stream on an open session.
RelayOpensStream(n, t) ==
    /\ n \in 1..made
    /\ n \notin muxClosed
    /\ phase[t] = "unopened"
    /\ phase' = [phase EXCEPT ![t] = "queued"]
    /\ on' = [on EXCEPT ![t] = n]
    /\ UNCHANGED <<connVars, broker, last, acceptor, held, stopped>>

-----------------------------------------------------------------------------
(* Broker.Run and serveSession.                                            *)

\* The head of the loop: the context, then Connector.Snapshot; a link already
\* served is not served again.
BrokerTop ==
    /\ broker = "top"
    /\ \/ /\ parentDone
          /\ broker' = "returned"
          /\ UNCHANGED <<last, acceptor>>
       \/ /\ ~parentDone
          /\ current \in {0, last}
          /\ broker' = "stall"
          /\ UNCHANGED <<last, acceptor>>
       \/ /\ ~parentDone
          /\ current \notin {0, last}
          /\ last' = current
          /\ acceptor' = [acceptor EXCEPT ![current] = "top"]
          /\ broker' = "serving"
    /\ UNCHANGED <<connVars, held, stopped, streamVars>>

\* sleepUntil.
Stall ==
    /\ broker = "stall"
    /\ \/ broker' = "top"
       \/ parentDone /\ broker' = "returned"
    /\ UNCHANGED <<connVars, last, acceptor, held, stopped, streamVars>>

\* A serveSession that only watches the process context.
ProcessOver == parentDone

SessionOver == parentDone \/ last \in closing

\* A serveSession that returns without closing stop.
StopForgotten == stopped

CloseStop == stopped \cup {last}

\* serveSession ends with the context or the session: Session.Close, and the
\* deferred close(stop).
ServeSessionEnds ==
    /\ broker = "serving"
    /\ SessionOver
    /\ closing' = closing \cup {last}
    /\ muxClosed' = muxClosed \cup {last}
    /\ stopped' = CloseStop
    /\ broker' = "top"
    /\ UNCHANGED <<parentDone, run, backoff, made, current, healthy, mirroring,
                   linkCancelled, watching, done, last, acceptor, held, streamVars>>

\* A stream passes from the acceptor through feed to serveConn's goroutine.
serveConn ==
    /\ broker = "serving"
    /\ acceptor[last] = "offer"
    /\ phase' = [phase EXCEPT ![held[last]] = "serving"]
    /\ held' = [held EXCEPT ![last] = NoStream]
    /\ acceptor' = [acceptor EXCEPT ![last] = "top"]
    /\ UNCHANGED <<connVars, broker, last, stopped, on>>

BrokerStep == BrokerTop \/ Stall \/ ServeSessionEnds \/ serveConn

-----------------------------------------------------------------------------
(* streamAcceptor.                                                         *)

AcceptorTop(n) ==
    /\ acceptor[n] = "top"
    /\ acceptor' = [acceptor EXCEPT ![n] = IF n \in stopped THEN "gone" ELSE "accept"]
    /\ UNCHANGED <<connVars, broker, last, held, stopped, streamVars>>

AcceptorFails(n) ==
    /\ acceptor[n] = "accept"
    /\ n \in muxClosed
    /\ acceptor' = [acceptor EXCEPT ![n] = "gone"]
    /\ UNCHANGED <<connVars, broker, last, held, stopped, streamVars>>

AcceptorAccepts(n, t) ==
    /\ acceptor[n] = "accept"
    /\ phase[t] = "queued"
    /\ on[t] = n
    /\ phase' = [phase EXCEPT ![t] = "held"]
    /\ held' = [held EXCEPT ![n] = t]
    /\ acceptor' = [acceptor EXCEPT ![n] = "offer"]
    /\ UNCHANGED <<connVars, broker, last, stopped, on>>

\* A stream in hand when the server winds down, dropped without a close.
Forgotten(n) == phase

CloseHeld(n) == [phase EXCEPT ![held[n]] = "closed"]

AcceptorDrops(n) ==
    /\ acceptor[n] = "offer"
    /\ n \in stopped
    /\ phase' = CloseHeld(n)
    /\ held' = [held EXCEPT ![n] = NoStream]
    /\ acceptor' = [acceptor EXCEPT ![n] = "top"]
    /\ UNCHANGED <<connVars, broker, last, stopped, on>>

AcceptorStep(n) ==
    \/ AcceptorTop(n) \/ AcceptorFails(n) \/ AcceptorDrops(n)
    \/ \E t \in Streams : AcceptorAccepts(n, t)

\* Handler.ServeConn returns.
HandlerEnds(t) ==
    /\ phase[t] = "serving"
    /\ phase' = [phase EXCEPT ![t] = "closed"]
    /\ UNCHANGED <<connVars, broker, last, acceptor, held, stopped, on>>

-----------------------------------------------------------------------------
(* The specification.                                                      *)

ExitInit == ConnInit /\ NewBroker

ExitNext ==
    \/ ConnectorNext /\ UNCHANGED brokerVars
    \/ BrokerStep
    \/ \E n \in Links : AcceptorStep(n)
    \/ \E n \in Links, t \in Streams : RelayOpensStream(n, t)
    \/ \E t \in Streams : HandlerEnds(t)

ExitSpec == ExitInit /\ [][ExitNext]_exitVars

\* Goroutines are scheduled; a handler ends once its link's context is done;
\* a select with two ready cases does not always pick the same one.
ExitFairSpec ==
    /\ ExitSpec
    /\ WF_exitVars(ConnectorStep /\ UNCHANGED brokerVars)
    /\ SF_exitVars(WaitCancelled /\ UNCHANGED brokerVars)
    /\ \A n \in Links : /\ WF_exitVars(Mirror(n) /\ UNCHANGED brokerVars)
                        /\ WF_exitVars(Watch(n) /\ UNCHANGED brokerVars)
                        /\ WF_exitVars(AcceptorStep(n))
    /\ WF_exitVars(BrokerStep)
    /\ SF_exitVars(ServeSessionEnds)
    /\ \A t \in Streams : WF_exitVars(LinkDone(on[t]) /\ HandlerEnds(t))

-----------------------------------------------------------------------------
(* Properties.                                                             *)

\* Every variable has its type.
ExitTypeOK ==
    /\ ConnTypeOK
    /\ broker \in BrokerPCs
    /\ last \in 0..made
    /\ acceptor \in [Links -> AcceptorPCs]
    /\ held \in [Links -> Streams \cup {NoStream}]
    /\ stopped \subseteq 1..made
    /\ phase \in [Streams -> StreamPhases]
    /\ on \in [Streams -> 0..made]

(***************************************************************************)
(* Of all links, at most the one being served has an acceptor that was not *)
(* told to stop, and a stopped acceptor's session is closed: no acceptor   *)
(* can stay parked in AcceptStream.                                        *)
(***************************************************************************)
StoppedAcceptorsUnblocked ==
    \A n \in Links :
        acceptor[n] \in {"top", "accept", "offer"} =>
            \/ n = last /\ broker = "serving"
            \/ n \in stopped /\ n \in muxClosed

\* A stream the acceptor took from the session is served or closed, and one
\* that is served ends with its session.
StreamsResolved ==
    \A t \in Streams :
        /\ (phase[t] = "held") ~> (phase[t] \in {"serving", "closed"})
        /\ (phase[t] = "serving" /\ on[t] \in muxClosed) ~> (phase[t] = "closed")

(***************************************************************************)
(* "it grabs the next published session": a published link is served,      *)
(* unless it is withdrawn first or the exit is being stopped.              *)
(***************************************************************************)
BrokerFollows ==
    \A n \in Links :
        (current = n) ~> (last = n \/ current # n \/ parentDone)

\* runExit returns after cancellation: both the broker and the connector do.
ExitShutsDown == parentDone ~> (broker = "returned" /\ run = "returned")
=============================================================================
