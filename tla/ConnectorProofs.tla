-------------------------- MODULE ConnectorProofs --------------------------
(***************************************************************************)
(* Proofs about Connector: ConnInv is inductive, also when a server closes *)
(* a published session under the reconnect loop; from it follow that a     *)
(* client never has two open sessions, and that the loop with its          *)
(* goroutines implements LinkPublisher.                                    *)
(***************************************************************************)
EXTENDS Connector, TLAPS

\* The order in which the end of a session travels: the mux, Session.Done, the
\* link's context, link.done; the end of the process may overtake it.
SignalInv ==
    /\ closing \subseteq muxClosed
    /\ linkCancelled \subseteq muxClosed
    /\ parentDone \/ done \subseteq linkCancelled

\* What Run knows of the sessions it has made.
SessionsInv ==
    /\ \A n \in 1..made : n < made => n \in muxClosed
    /\ run = "exchange" => made = 0 \/ made \in muxClosed
    /\ run \in {"dial", "wait"} => made = 0 \/ made \in muxClosed \/ parentDone
    /\ run = "clear" => made \in done

\* What is published, by where Run is.
CurrentInv ==
    /\ run \in {"dial", "exchange", "store", "wait"} => current = 0
    /\ run \in {"serve", "clear"} => current = made
    /\ run \in {"store", "serve", "clear"} => made # 0
    /\ current \in {0, made}

ConnInv == ConnTypeOK /\ SignalInv /\ SessionsInv /\ CurrentInv

\* A server closes a published session, as Broker.serveSession does.
ServerCloses(n) ==
    /\ n \in 1..Stored
    /\ closing' = closing \cup {n}
    /\ muxClosed' = muxClosed \cup {n}
    /\ UNCHANGED <<parentDone, run, backoff, made, current, healthy, mirroring,
                   linkCancelled, watching, done>>

\* A step of the connector, or of a server on one of its sessions.
SharedNext == ConnectorNext \/ \E n \in Links : ServerCloses(n)

-----------------------------------------------------------------------------

\* Every variable keeps its type, and the backoff its bounds.
LEMMA ConnTypes ==
    ASSUME ConnTypeOK, CurrentInv, [SharedNext]_connVars
    PROVE  ConnTypeOK'
<1> USE ConnectorAssumption DEF ConnTypeOK, ConnRunPCs, linkVars
<1>1. CASE CancelParent \/ Matures
  BY <1>1 DEF CancelParent, Matures
<1>2. ASSUME NEW n \in Links, MuxDies(n) \/ Mirror(n) \/ Watch(n)
      PROVE  ConnTypeOK'
  BY <1>2 DEF MuxDies, Mirror, Watch, cancel, CloseDone
<1>2a. ASSUME NEW n \in Links, ServerCloses(n) PROVE ConnTypeOK'
  <2>1. n \in 1..made
    BY <1>2a DEF ServerCloses, Stored
  <2> QED
    BY <1>2a, <2>1 DEF ServerCloses
<1>3. CASE DialOK \/ ConnectFails
  BY <1>3 DEF DialOK, ConnectFails
<1>4. CASE ExchangeOK
  <2>1. made' \in 1..MaxLinks /\ made' = made + 1
    BY <1>4 DEF ExchangeOK
  <2>2. 1..made \subseteq 1..made' /\ made' \in 1..made' /\ 0..made \subseteq 0..made'
    BY <2>1
  <2>3. mirroring' \subseteq 1..made' /\ watching' \subseteq 1..made'
    BY <1>4, <2>2 DEF ExchangeOK
  <2>4. /\ muxClosed' \subseteq 1..made' /\ closing' \subseteq 1..made'
        /\ linkCancelled' \subseteq 1..made' /\ done' \subseteq 1..made'
        /\ current' \in 0..made'
    BY <1>4, <2>2 DEF ExchangeOK
  <2>5. made' \in 0..MaxLinks
    BY <2>1
  <2>6. /\ run' \in ConnRunPCs
        /\ backoff' \in MinBackoff..MaxBackoff
        /\ parentDone' \in BOOLEAN
        /\ healthy' \in BOOLEAN
    BY <1>4, Zenon DEF ExchangeOK
  <2> QED
    BY <2>3, <2>4, <2>5, <2>6, Zenon
<1>5. CASE Store
  BY <1>5 DEF Store
<1>6. CASE ServeEnded
  BY <1>6 DEF ServeEnded
<1>7. CASE ServeCancelled
  BY <1>7 DEF ServeCancelled, cancel, CurrentInv
<1>8. CASE clearIf
  BY <1>8 DEF clearIf, Cleared
<1>9. CASE WaitExpires \/ WaitCancelled
  <2>1. Doubled \in MinBackoff..MaxBackoff
    BY DEF Doubled
  <2> QED
    BY <1>9, <2>1 DEF WaitExpires, WaitCancelled
<1>10. CASE UNCHANGED connVars
  BY <1>10 DEF connVars
<1> QED
  BY <1>1, <1>2, <1>2a, <1>3, <1>4, <1>5, <1>6, <1>7, <1>8, <1>9, <1>10
     DEF SharedNext, ConnectorNext, ConnectorStep

\* ConnInv holds when the connector is made.
LEMMA ConnInvInit == ConnInit => ConnInv
<1> SUFFICES ASSUME ConnInit PROVE ConnInv
  OBVIOUS
<1>1. ConnTypeOK
  <2>1. /\ backoff \in MinBackoff..MaxBackoff
        /\ made \in 0..MaxLinks
        /\ current \in 0..made
    BY ConnectorAssumption DEF ConnInit
  <2>2. run \in ConnRunPCs
    BY DEF ConnInit, ConnRunPCs
  <2> QED
    BY <2>1, <2>2, Zenon DEF ConnInit, ConnTypeOK
<1>2. SignalInv /\ SessionsInv /\ CurrentInv
  BY DEF ConnInit, SignalInv, SessionsInv, CurrentInv
<1> QED
  BY <1>1, <1>2 DEF ConnInv

\* Every step of the loop, of its goroutines or of a server keeps ConnInv.
LEMMA ConnInvStep ==
    ASSUME ConnInv, [SharedNext]_connVars
    PROVE  ConnInv'
<1>0. ConnTypeOK /\ ConnTypeOK'
  BY ConnTypes DEF ConnInv
<1> USE <1>0 DEF ConnInv, ConnTypeOK, SignalInv, SessionsInv, CurrentInv, linkVars
<1>1. CASE CancelParent \/ Matures
  BY <1>1 DEF CancelParent, Matures
<1>2. ASSUME NEW n \in Links, MuxDies(n) \/ Mirror(n) \/ ServerCloses(n)
      PROVE  ConnInv'
  BY <1>2 DEF MuxDies, Mirror, ServerCloses
<1>3. ASSUME NEW n \in Links, Watch(n) PROVE ConnInv'
  BY <1>3 DEF Watch, cancel, CloseDone, LinkDone
<1>4. CASE DialOK \/ ConnectFails
  BY <1>4 DEF DialOK, ConnectFails, MayDial
<1>5. CASE ExchangeOK
  BY <1>5 DEF ExchangeOK
<1>6. CASE Store
  BY <1>6 DEF Store
<1>7. CASE ServeEnded
  BY <1>7 DEF ServeEnded
<1>8. CASE ServeCancelled
  BY <1>8 DEF ServeCancelled, cancel
<1>9. CASE clearIf
  BY <1>9 DEF clearIf, Cleared
<1>10. CASE WaitExpires \/ WaitCancelled
  BY <1>10 DEF WaitExpires, WaitCancelled
<1>11. CASE UNCHANGED connVars
  BY <1>11 DEF connVars
<1> QED
  BY <1>1, <1>2, <1>3, <1>4, <1>5, <1>6, <1>7, <1>8, <1>9, <1>10, <1>11
     DEF SharedNext, ConnectorNext, ConnectorStep

(***************************************************************************)
(* ConnInv is inductive: the loop, the two goroutines of every session,    *)
(* the mux and the process context may act in any order.                   *)
(***************************************************************************)
THEOREM ConnectorInvariant == ConnectorSpec => []ConnInv
<1>1. ConnInv /\ [ConnectorNext]_connVars => ConnInv'
  BY ConnInvStep DEF SharedNext
<1> QED
  BY <1>1, ConnInvInit, PTL DEF ConnectorSpec

\* What ConnInv says of open sessions.
LEMMA ConnInvOneOpen == ConnInv => OneOpenSession
BY ConnectorAssumption DEF ConnInv, ConnTypeOK, SessionsInv, OneOpenSession

\* A client alone, without a server, never has two open sessions.
THEOREM OneOpenAlone == ConnectorSpec => []OneOpenSession
BY ConnectorInvariant, ConnInvOneOpen, PTL

-----------------------------------------------------------------------------
(* The refinement.                                                         *)

\* The connector starts as an abstract publisher does.
LEMMA PublisherInit == ConnInit => Publisher!PubInit
BY ConnectorAssumption DEF ConnInit, Publisher!PubInit, Stored

\* A step that leaves alone what the abstract publisher sees stutters.
LEMMA PublisherStutter ==
    ASSUME UNCHANGED <<current, Stored, muxClosed, linkCancelled, parentDone>>,
           run = "returned" <=> run' = "returned"
    PROVE  UNCHANGED Publisher!pubVars
BY DEF Publisher!pubVars

(***************************************************************************)
(* Every step of the loop, its goroutines or a server is a step of the     *)
(* abstract publisher, or one it does not see.                             *)
(***************************************************************************)
LEMMA PublisherStep ==
    ASSUME ConnInv, [SharedNext]_connVars
    PROVE  [Publisher!PubNext]_(Publisher!pubVars)
<1>0. ConnInv /\ ConnInv'
  BY ConnInvStep
<1> USE <1>0, ConnectorAssumption DEF ConnInv, ConnTypeOK, linkVars
<1>1. CASE CancelParent
  <2>1. Publisher!Stop
    BY <1>1 DEF CancelParent, Publisher!Stop, Stored
  <2> QED
    BY <2>1 DEF Publisher!PubNext
<1>2. CASE Matures \/ DialOK \/ ConnectFails \/ ServeEnded \/ WaitExpires
  BY <1>2, PublisherStutter
     DEF Matures, DialOK, ConnectFails, ServeEnded, WaitExpires, Stored
<1>3. CASE ExchangeOK
  <2>1. Stored' = Stored
    BY <1>3 DEF ExchangeOK, Stored
  <2> QED
    BY <1>3, <2>1, PublisherStutter DEF ExchangeOK
<1>4. CASE Store
  <2>1. /\ Stored' = made /\ Stored = made - 1 /\ Stored + 1 = made
        /\ made \in 1..MaxLinks /\ Stored < MaxLinks
    BY <1>4 DEF Store, Stored, CurrentInv
  <2>2. 1..made = (1..Stored) \cup {made} /\ made \notin 1..Stored
    BY <2>1
  <2>3. current = 0 /\ 1..Stored \subseteq muxClosed
    BY <1>4, <2>1 DEF Store, CurrentInv, SessionsInv
  <2>4. /\ (muxClosed \cap 1..Stored)' = muxClosed \cap 1..made
        /\ (linkCancelled \cap 1..Stored)' = linkCancelled \cap 1..made
    BY <1>4, <2>1 DEF Store
  <2>5. muxClosed \cap 1..made \in {muxClosed \cap 1..Stored,
                                    (muxClosed \cap 1..Stored) \cup {made}}
    BY <2>2
  <2>6. \/ linkCancelled \cap 1..made = linkCancelled \cap 1..Stored
        \/ /\ made \in muxClosed \cap 1..made
           /\ linkCancelled \cap 1..made = (linkCancelled \cap 1..Stored) \cup {made}
    BY <2>1, <2>2 DEF SignalInv
  <2>7. Publisher!EarlierOver
    BY <2>3 DEF Publisher!EarlierOver
  <2>8. Publisher!Publish
    BY <1>4, <2>1, <2>4, <2>5, <2>6, <2>7 DEF Store, Publisher!Publish
  <2> QED
    BY <2>8 DEF Publisher!PubNext
<1>5. CASE ServeCancelled
  <2>1. Stored = made /\ Stored' = made /\ current = made /\ made # 0 /\ made \in 1..made
    BY <1>5 DEF ServeCancelled, Stored, CurrentInv
  <2>2. /\ (muxClosed \cap 1..Stored)' = (muxClosed \cap 1..Stored) \cup {current}
        /\ (linkCancelled \cap 1..Stored)' = (linkCancelled \cap 1..Stored) \cup {current}
    BY <1>5, <2>1 DEF ServeCancelled, cancel
  <2>3. Publisher!Quit
    BY <1>5, <2>1, <2>2 DEF ServeCancelled, Publisher!Quit
  <2> QED
    BY <2>3 DEF Publisher!PubNext
<1>6. CASE clearIf
  <2>1. Stored = made /\ Stored' = made /\ current = made /\ made # 0 /\ current' = 0
    BY <1>6 DEF clearIf, Cleared, Stored, CurrentInv
  <2>2. Publisher!CtxDone(current)
    BY <1>6, <2>1 DEF clearIf, SessionsInv, SignalInv, Publisher!CtxDone
  <2>3. Publisher!Withdraw
    BY <1>6, <2>1, <2>2 DEF clearIf, Publisher!Withdraw
  <2> QED
    BY <2>3 DEF Publisher!PubNext
<1>7. CASE WaitCancelled
  <2>1. Publisher!Quit
    BY <1>7 DEF WaitCancelled, Publisher!Quit, Stored, CurrentInv
  <2> QED
    BY <2>1 DEF Publisher!PubNext
<1>8. ASSUME NEW n \in Links, MuxDies(n) \/ ServerCloses(n)
      PROVE  [Publisher!PubNext]_(Publisher!pubVars)
  <2>1. /\ UNCHANGED <<current, Stored, linkCancelled, parentDone, run>>
        /\ muxClosed' = muxClosed \cup {n}
    BY <1>8 DEF MuxDies, ServerCloses, Stored
  <2>2. CASE n \in 1..Stored /\ n \notin muxClosed
    <3>1. Publisher!SessionEnds(n)
      BY <2>1, <2>2 DEF Publisher!SessionEnds
    <3> QED
      BY <3>1 DEF Publisher!PubNext, Publisher!Links, Links
  <2>3. CASE n \notin 1..Stored \/ n \in muxClosed
    <3>1. (muxClosed \cap 1..Stored)' = muxClosed \cap 1..Stored
      BY <2>1, <2>3
    <3> QED
      BY <2>1, <3>1 DEF Publisher!pubVars
  <2> QED
    BY <2>2, <2>3
<1>9. ASSUME NEW n \in Links, Watch(n)
      PROVE  [Publisher!PubNext]_(Publisher!pubVars)
  <2>1. /\ UNCHANGED <<current, Stored, muxClosed, parentDone, run>>
        /\ linkCancelled' \in {linkCancelled, linkCancelled \cup {n}}
        /\ linkCancelled' # linkCancelled => n \in muxClosed
    BY <1>9 DEF Watch, cancel, Stored, SignalInv
  <2>2. CASE n \in 1..Stored /\ n \notin linkCancelled /\ linkCancelled' # linkCancelled
    <3>1. Publisher!CtxEnds(n)
      BY <2>1, <2>2 DEF Publisher!CtxEnds
    <3> QED
      BY <3>1 DEF Publisher!PubNext, Publisher!Links, Links
  <2>3. CASE n \notin 1..Stored \/ n \in linkCancelled \/ linkCancelled' = linkCancelled
    <3>1. (linkCancelled \cap 1..Stored)' = linkCancelled \cap 1..Stored
      BY <2>1, <2>3
    <3> QED
      BY <2>1, <3>1 DEF Publisher!pubVars
  <2> QED
    BY <2>2, <2>3
<1>10. ASSUME NEW n \in Links, Mirror(n)
       PROVE  [Publisher!PubNext]_(Publisher!pubVars)
  BY <1>10, PublisherStutter DEF Mirror, Stored
<1>11. CASE UNCHANGED connVars
  BY <1>11, PublisherStutter DEF connVars, Stored
<1> QED
  BY <1>1, <1>2, <1>3, <1>4, <1>5, <1>6, <1>7, <1>8, <1>9, <1>10, <1>11
     DEF SharedNext, ConnectorNext, ConnectorStep

(***************************************************************************)
(* The reconnect loop with its goroutines keeps the safety part of         *)
(* LinkPublisher's promise: one link at a time, each after every earlier   *)
(* session has ended, withdrawn only once its context is done.             *)
(***************************************************************************)
THEOREM PublisherAlone == ConnectorSpec => Publisher!PubSafety
<1>1. ConnInv /\ [ConnectorNext]_connVars => [Publisher!PubNext]_(Publisher!pubVars)
  BY PublisherStep DEF SharedNext
<1> QED
  BY <1>1, PublisherInit, ConnectorInvariant, PTL DEF ConnectorSpec, Publisher!PubSafety
=============================================================================
