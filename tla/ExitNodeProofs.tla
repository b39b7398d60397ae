--------------------------- MODULE ExitNodeProofs ---------------------------
(***************************************************************************)
(* Proofs about ExitNode.  The broker closes sessions under the reconnect  *)
(* loop; every step of the exit is therefore a step of the connector, of a *)
(* server on one of its sessions, or invisible to it, and what             *)
(* ConnectorProofs shows of such steps holds of the whole exit.            *)
(***************************************************************************)
EXTENDS ExitNode, ConnectorProofs

\* Which links the broker has come to: only published ones, in their order,
\* each with at most one acceptor.
BrokerInv ==
    /\ last \in 0..Stored
    /\ broker = "serving" => last # 0
    /\ \A n \in Links : acceptor[n] # "none" => n \in 1..last

\* An acceptor that offers a stream has one in hand.
OfferInv == \A n \in Links : acceptor[n] = "offer" => held[n] \in Streams

ExitInv ==
    /\ ConnInv
    /\ ExitTypeOK
    /\ BrokerInv
    /\ OfferInv
    /\ StoppedAcceptorsUnblocked

-----------------------------------------------------------------------------

\* What the connector sees of a step of the exit.
LEMMA ExitSharedStep ==
    ASSUME ConnInv, BrokerInv, [ExitNext]_exitVars
    PROVE  [SharedNext]_connVars
<1>1. CASE ServeSessionEnds
  <2>1. last \in 1..Stored /\ last \in Links
    BY <1>1, ConnectorAssumption
       DEF ServeSessionEnds, BrokerInv, ConnInv, ConnTypeOK, Stored, Links
  <2>2. ServerCloses(last)
    BY <1>1, <2>1 DEF ServeSessionEnds, ServerCloses
  <2> QED
    BY <2>1, <2>2 DEF SharedNext
<1>2. CASE BrokerTop \/ Stall \/ serveConn
  BY <1>2 DEF BrokerTop, Stall, serveConn
<1>3. ASSUME NEW n \in Links, AcceptorStep(n) PROVE UNCHANGED connVars
  BY <1>3 DEF AcceptorStep, AcceptorTop, AcceptorFails, AcceptorDrops, AcceptorAccepts
<1>4. ASSUME NEW n \in Links, NEW t \in Streams, RelayOpensStream(n, t)
      PROVE  UNCHANGED connVars
  BY <1>4 DEF RelayOpensStream
<1>5. ASSUME NEW t \in Streams, HandlerEnds(t) PROVE UNCHANGED connVars
  BY <1>5 DEF HandlerEnds
<1>6. CASE UNCHANGED exitVars
  BY <1>6 DEF exitVars
<1> QED
  BY <1>1, <1>2, <1>3, <1>4, <1>5, <1>6 DEF ExitNext, BrokerStep, SharedNext

\* The sessions already made only grow in number, and so do the stored ones.
LEMMA SessionsGrow ==
    ASSUME ConnInv, [SharedNext]_connVars
    PROVE  0..made \subseteq 0..made' /\ 1..made \subseteq 1..made'
           /\ 0..Stored \subseteq 0..Stored' /\ muxClosed \subseteq muxClosed'
<1> USE ConnectorAssumption DEF ConnInv, ConnTypeOK, linkVars, Stored, CurrentInv
<1>1. CASE ConnectorStep
  BY <1>1 DEF ConnectorStep, DialOK, ExchangeOK, ConnectFails, Store, ServeEnded,
              ServeCancelled, clearIf, WaitExpires, WaitCancelled
<1>2. CASE CancelParent \/ Matures
  BY <1>2 DEF CancelParent, Matures
<1>3. ASSUME NEW n \in Links, MuxDies(n) \/ Mirror(n) \/ Watch(n) \/ ServerCloses(n)
      PROVE  UNCHANGED <<made, run>> /\ muxClosed \subseteq muxClosed'
  BY <1>3 DEF MuxDies, Mirror, Watch, ServerCloses
<1>4. CASE UNCHANGED connVars
  BY <1>4 DEF connVars
<1> QED
  BY <1>1, <1>2, <1>3, <1>4 DEF SharedNext, ConnectorNext

\* ExitInv holds at the start of runExit.
LEMMA ExitInvInit == ExitInit => ExitInv
<1> SUFFICES ASSUME ExitInit PROVE ExitInv
  OBVIOUS
<1>1. ConnInv
  BY ConnInvInit DEF ExitInit
<1>2. ExitTypeOK
  <2>1. broker \in BrokerPCs /\ acceptor \in [Links -> AcceptorPCs]
        /\ held \in [Links -> Streams \cup {NoStream}] /\ stopped \subseteq 1..made
        /\ phase \in [Streams -> StreamPhases]
    BY DEF ExitInit, NewBroker, BrokerPCs, AcceptorPCs, StreamPhases
  <2>2. last \in 0..made /\ on \in [Streams -> 0..made]
    BY DEF ExitInit, NewBroker, ConnInit
  <2> QED
    BY <1>1, <2>1, <2>2, Zenon DEF ExitTypeOK, ConnInv
<1>3. BrokerInv /\ OfferInv /\ StoppedAcceptorsUnblocked
  BY DEF ExitInit, NewBroker, ConnInit, BrokerInv, OfferInv, StoppedAcceptorsUnblocked,
         Stored
<1> QED
  BY <1>1, <1>2, <1>3 DEF ExitInv

\* Every variable of the exit keeps its type.
LEMMA ExitTypes ==
    ASSUME ExitInv, [ExitNext]_exitVars
    PROVE  ExitTypeOK'
<1>0. /\ ConnInv /\ ConnInv'
      /\ 0..made \subseteq 0..made' /\ 1..made \subseteq 1..made'
  BY ExitSharedStep, ConnInvStep, SessionsGrow DEF ExitInv
<1>1. ConnTypeOK'
  BY <1>0 DEF ConnInv
<1> DEFINE BrokerTypes ==
             /\ broker \in BrokerPCs
             /\ last \in 0..made
             /\ acceptor \in [Links -> AcceptorPCs]
             /\ held \in [Links -> Streams \cup {NoStream}]
             /\ stopped \subseteq 1..made
             /\ phase \in [Streams -> StreamPhases]
             /\ on \in [Streams -> 0..made]
<1>2. BrokerTypes'
  <2> USE <1>0 DEF ExitInv, ExitTypeOK, BrokerPCs, AcceptorPCs, StreamPhases
  <2>1. CASE ConnectorNext /\ UNCHANGED brokerVars
    BY <2>1 DEF brokerVars, streamVars
  <2>2. CASE BrokerTop \/ Stall
    <3>1. last' \in 0..made' /\ UNCHANGED <<made, held, stopped, phase, on>>
      BY <2>2 DEF BrokerTop, Stall, connVars, streamVars, ConnInv, ConnTypeOK
    <3>2. broker' \in BrokerPCs /\ acceptor' \in [Links -> AcceptorPCs]
      BY <2>2 DEF BrokerTop, Stall
    <3>3. /\ held' \in [Links -> Streams \cup {NoStream}]
          /\ stopped' \subseteq 1..made'
          /\ phase' \in [Streams -> StreamPhases]
          /\ on' \in [Streams -> 0..made']
      BY <3>1, Zenon
    <3> QED
      BY <3>1, <3>2, <3>3, Zenon
  <2>3. CASE ServeSessionEnds
    BY <2>3, ConnectorAssumption
       DEF ServeSessionEnds, CloseStop, streamVars, BrokerInv, Stored, ConnInv, ConnTypeOK
  <2>4. CASE serveConn
    BY <2>4 DEF serveConn, connVars
  <2>5. ASSUME NEW n \in Links, AcceptorStep(n) PROVE BrokerTypes'
    <3>1. CASE AcceptorTop(n) \/ AcceptorFails(n)
      BY <3>1 DEF AcceptorTop, AcceptorFails, connVars, streamVars
    <3>2. CASE AcceptorDrops(n)
      BY <3>2 DEF AcceptorDrops, CloseHeld, connVars
    <3>3. ASSUME NEW t \in Streams, AcceptorAccepts(n, t) PROVE BrokerTypes'
      BY <3>3 DEF AcceptorAccepts, connVars
    <3> QED
      BY <2>5, <3>1, <3>2, <3>3 DEF AcceptorStep
  <2>6. ASSUME NEW n \in Links, NEW t \in Streams, RelayOpensStream(n, t) PROVE BrokerTypes'
    BY <2>6 DEF RelayOpensStream, connVars
  <2>7. ASSUME NEW t \in Streams, HandlerEnds(t) PROVE BrokerTypes'
    BY <2>7 DEF HandlerEnds, connVars
  <2>8. CASE UNCHANGED exitVars
    BY <2>8 DEF exitVars, brokerVars, streamVars
  <2> QED
    BY <2>1, <2>2, <2>3, <2>4, <2>5, <2>6, <2>7, <2>8 DEF ExitNext, BrokerStep
<1> QED
  BY <1>1, <1>2, Zenon DEF ExitTypeOK

\* Every step of the exit keeps ExitInv.
LEMMA ExitInvStep ==
    ASSUME ExitInv, [ExitNext]_exitVars
    PROVE  ExitInv'
<1>0. [SharedNext]_connVars
  BY ExitSharedStep DEF ExitInv
<1>1. ConnInv' /\ 0..Stored \subseteq 0..Stored' /\ muxClosed \subseteq muxClosed'
  BY <1>0, ConnInvStep, SessionsGrow DEF ExitInv
<1>2. ExitTypeOK'
  BY ExitTypes
<1>3. BrokerInv' /\ OfferInv' /\ StoppedAcceptorsUnblocked'
  <2> USE <1>1, <1>2, ConnectorAssumption
      DEF ExitInv, ExitTypeOK, BrokerInv, OfferInv, StoppedAcceptorsUnblocked
  <2>1. CASE (ConnectorNext /\ UNCHANGED brokerVars) \/ UNCHANGED exitVars
    BY <2>1 DEF exitVars, brokerVars, streamVars
  <2>2. CASE BrokerTop
    <3>1. current \notin {0, last} => current \in 1..Stored /\ current > last
      BY DEF ConnInv, ConnTypeOK, CurrentInv, Stored
    <3>2. Stored' = Stored /\ made' = made /\ current' = current /\ Stored \in 0..MaxLinks
      BY <2>2 DEF BrokerTop, connVars, Stored, ConnInv, ConnTypeOK, CurrentInv
    <3> QED
      BY <2>2, <3>1, <3>2 DEF BrokerTop, connVars, linkVars, streamVars, Links
  <2>3. CASE Stall
    BY <2>3 DEF Stall, connVars, linkVars, streamVars
  <2>4. CASE ServeSessionEnds
    BY <2>4 DEF ServeSessionEnds, CloseStop, streamVars
  <2>5. CASE serveConn
    BY <2>5 DEF serveConn, connVars, linkVars
  <2>6. ASSUME NEW n \in Links, AcceptorStep(n)
        PROVE  BrokerInv' /\ OfferInv' /\ StoppedAcceptorsUnblocked'
    BY <2>6 DEF AcceptorStep, AcceptorTop, AcceptorFails, AcceptorDrops, AcceptorAccepts,
                connVars, linkVars, streamVars
  <2>7. ASSUME NEW n \in Links, NEW t \in Streams, RelayOpensStream(n, t)
        PROVE  BrokerInv' /\ OfferInv' /\ StoppedAcceptorsUnblocked'
    BY <2>7 DEF RelayOpensStream, connVars, linkVars
  <2>8. ASSUME NEW t \in Streams, HandlerEnds(t)
        PROVE  BrokerInv' /\ OfferInv' /\ StoppedAcceptorsUnblocked'
    BY <2>8 DEF HandlerEnds, connVars, linkVars
  <2> QED
    BY <2>1, <2>2, <2>3, <2>4, <2>5, <2>6, <2>7, <2>8 DEF ExitNext, BrokerStep
<1> QED
  BY <1>1, <1>2, <1>3 DEF ExitInv

(***************************************************************************)
(* ExitInv is inductive for the whole exit: connector, broker, acceptors,  *)
(* streams and process context in any order.                               *)
(***************************************************************************)
THEOREM ExitInvariant == ExitSpec => []ExitInv
BY ExitInvInit, ExitInvStep, PTL DEF ExitSpec

\* Every variable of the exit has its type.
THEOREM ExitTypeTheorem == ExitSpec => []ExitTypeOK
<1>1. ExitInv => ExitTypeOK
  BY DEF ExitInv
<1> QED
  BY <1>1, ExitInvariant, PTL

(***************************************************************************)
(* The client of an exit never has two open sessions, although the broker  *)
(* too closes sessions and the loop learns of it through two goroutines.   *)
(***************************************************************************)
THEOREM OneOpenTheorem == ExitSpec => []OneOpenSession
<1>1. ExitInv => OneOpenSession
  BY ConnInvOneOpen DEF ExitInv
<1> QED
  BY <1>1, ExitInvariant, PTL

\* An acceptor still running serves the newest link, or has been told to stop
\* and its session is closed: none stays parked in AcceptStream.
THEOREM AcceptorsTheorem == ExitSpec => []StoppedAcceptorsUnblocked
<1>1. ExitInv => StoppedAcceptorsUnblocked
  BY DEF ExitInv
<1> QED
  BY <1>1, ExitInvariant, PTL

(***************************************************************************)
(* The exit, broker included, keeps the safety part of LinkPublisher's     *)
(* promise: closing a session in serveSession is for the abstract          *)
(* publisher the end of that session and nothing else.                     *)
(***************************************************************************)
THEOREM PublisherTheorem == ExitSpec => Publisher!PubSafety
<1>1. ExitInv /\ [ExitNext]_exitVars => [Publisher!PubNext]_(Publisher!pubVars)
  BY ExitSharedStep, PublisherStep DEF ExitInv
<1>2. ExitInit => Publisher!PubInit
  BY PublisherInit DEF ExitInit
<1> QED
  BY <1>1, <1>2, ExitInvariant, PTL DEF ExitSpec, Publisher!PubSafety
=============================================================================
