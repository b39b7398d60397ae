--------------------------- MODULE ProxyNodeProofs ---------------------------
(***************************************************************************)
(* Proofs about ProxyNode: the admission semaphore is balanced on every    *)
(* path through serve, and every request starts on the newest link, for    *)
(* any number of browser connections, slots and links.                     *)
(***************************************************************************)
EXTENDS ProxyNode, FiniteSetTheorems, TLAPS

\* What the abstract publisher shows the listener.
PubInv ==
    /\ count \in 0..MaxLinks
    /\ published \in {0, count}
    /\ over \subseteq 1..count

ProxyInv ==
    /\ PubInv
    /\ ProxyTypeOK
    /\ SlotsBalanced

-----------------------------------------------------------------------------
(* How the set of admitted connections changes.                            *)

\* A connection that is not admitted and becomes so is one more.
LEMMA OneMoreHolder ==
    ASSUME NEW c \in Conns, conn \in [Conns -> ConnPCs],
           NEW pc \in ConnPCs \ {"none", "queued", "new", "closed"},
           c \notin Holders, Goto(c, pc)
    PROVE  Cardinality(Holders') = Cardinality(Holders) + 1
<1>1. IsFiniteSet(Holders)
  BY ProxyNodeAssumption, FS_Subset DEF Holders
<1>2. Holders' = Holders \cup {c}
  BY DEF Goto, Holders
<1> QED
  BY <1>1, <1>2, FS_AddElement

\* An admitted connection that ends is one less.
LEMMA OneHolderLess ==
    ASSUME NEW c \in Conns, conn \in [Conns -> ConnPCs],
           NEW pc \in {"none", "queued", "new", "closed"},
           c \in Holders, Goto(c, pc)
    PROVE  Cardinality(Holders') = Cardinality(Holders) - 1
<1>1. IsFiniteSet(Holders)
  BY ProxyNodeAssumption, FS_Subset DEF Holders
<1>2. Holders' = Holders \ {c}
  BY DEF Goto, Holders
<1> QED
  BY <1>1, <1>2, FS_RemoveElement

\* A connection that stays on its side of the admission changes nothing.
LEMMA SameHolders ==
    ASSUME NEW c \in Conns, conn \in [Conns -> ConnPCs], NEW pc \in ConnPCs, Goto(c, pc),
           c \in Holders <=> pc \notin {"none", "queued", "new", "closed"}
    PROVE  Holders' = Holders
BY DEF Goto, Holders

-----------------------------------------------------------------------------

\* ProxyInv holds at the start of runProxy.
LEMMA ProxyInvInit == ProxyInit => ProxyInv
<1> SUFFICES ASSUME ProxyInit PROVE ProxyInv
  OBVIOUS
<1> USE DEF ProxyInit, PubInit, New
<1>1. PubInv
  BY MaxLinksAssumption DEF PubInv
<1>2. ProxyTypeOK
  <2>1. sem \in 0..MaxPending /\ via \in [Conns -> 0..count]
    BY ProxyNodeAssumption
  <2>2. proc \in {"listen", "join", "exited"} /\ conn \in [Conns -> ConnPCs]
    BY DEF ConnPCs
  <2> QED
    BY <2>1, <2>2, Zenon DEF ProxyTypeOK
<1>3. Holders = {}
  BY DEF Holders
<1>4. SlotsBalanced
  BY <1>3, FS_EmptySet, ProxyNodeAssumption DEF SlotsBalanced
<1> QED
  BY <1>1, <1>2, <1>3, <1>4 DEF ProxyInv

\* A step of the publisher keeps PubInv, and links only grow.
LEMMA PubStep ==
    ASSUME PubInv, PubNext
    PROVE  /\ PubInv'
           /\ count' >= count
<1> USE MaxLinksAssumption DEF PubInv
<1>1. CASE Publish
  BY <1>1 DEF Publish, EarlierOver
<1>2. CASE Withdraw \/ Stop
  <2>1. UNCHANGED <<count, over>> /\ published' \in {0, published}
    BY <1>2, Zenon DEF Withdraw, Stop
  <2>2. count \in Int /\ count' >= count
    BY <2>1
  <2> QED
    BY <2>1, <2>2, Zenon
<1>2a. CASE Quit
  <2>1. UNCHANGED <<published, count>>
    BY <1>2a DEF Quit
  <2>2. over' = over \/ (published # 0 /\ over' = over \cup {published})
    BY <1>2a, Zenon DEF Quit
  <2>3. over' \subseteq 1..count
    <3>1. count # 0 => count \in 1..count
      OBVIOUS
    <3>2. published # 0 => published \in 1..count
      BY <3>1, Zenon
    <3>3. published # 0 /\ over' = over \cup {published} => over' \subseteq 1..count
      BY <3>2
    <3> QED
      BY <2>2, <3>3
  <2>4. count \in Int /\ count' >= count
    BY <2>1
  <2> QED
    BY <2>1, <2>3, <2>4, Zenon
<1>3. ASSUME NEW n \in Links, SessionEnds(n) \/ CtxEnds(n)
      PROVE  PubInv' /\ count' = count
  BY <1>3 DEF SessionEnds, CtxEnds
<1> QED
  BY <1>1, <1>2, <1>2a, <1>3 DEF PubNext

\* Every step of the proxy keeps ProxyInv.
LEMMA ProxyInvStep ==
    ASSUME ProxyInv, [ProxyNext]_proxyVars
    PROVE  ProxyInv'
<1> USE MaxLinksAssumption, ProxyNodeAssumption DEF ProxyInv
<1>1. CASE PubNext /\ UNCHANGED listenVars
  <2>1. PubInv' /\ count' >= count
    BY <1>1, PubStep
  <2>2. UNCHANGED <<proc, lnClosed, sem, conn, via, Holders>>
    BY <1>1 DEF listenVars, Holders
  <2>3. via' \in [Conns -> 0..count']
    BY <2>1, <2>2 DEF ProxyTypeOK, PubInv
  <2>4. ProxyTypeOK'
    BY <2>2, <2>3, Zenon DEF ProxyTypeOK
  <2>5. SlotsBalanced'
    BY <2>2 DEF SlotsBalanced
  <2> QED
    BY <2>1, <2>4, <2>5
<1>2. CASE CloseListener \/ AcceptFails
  <2>1. UNCHANGED <<pubVars, sem, conn, via, Holders>>
    BY <1>2 DEF CloseListener, AcceptFails, Holders
  <2>2. ProxyTypeOK'
    BY <1>2, <2>1, Zenon DEF CloseListener, AcceptFails, ProxyTypeOK, pubVars
  <2> QED
    BY <2>1, <2>2 DEF pubVars, PubInv, SlotsBalanced
<1>3. CASE RunProxyReturns
  <2>1. UNCHANGED <<pubVars, via>>
    BY <1>3 DEF RunProxyReturns
  <2>2. Holders' = {}
    BY <1>3 DEF RunProxyReturns, Holders
  <2>3. conn' \in [Conns -> ConnPCs] /\ sem' \in 0..MaxPending
    BY <1>3 DEF RunProxyReturns, ConnPCs
  <2>4. ProxyTypeOK'
    BY <1>3, <2>1, <2>3, Zenon DEF RunProxyReturns, ProxyTypeOK, pubVars
  <2>5. SlotsBalanced'
    BY <1>3, <2>2, FS_EmptySet DEF RunProxyReturns, SlotsBalanced
  <2> QED
    BY <2>1, <2>4, <2>5 DEF pubVars, PubInv
<1>4. ASSUME NEW c \in Conns, BrowserConnects(c) \/ Accept(c) \/ ServeStep(c)
      PROVE  ProxyInv'
  <2>0. UNCHANGED <<pubVars, proc, lnClosed>>
    BY <1>4 DEF BrowserConnects, Accept, ServeStep, Unwaiting, acquire, refuse, NoLink,
       Snapshot, OpenStream, OpenStreamFails, release, Negotiated, NegotiationFails,
       forwardRequest, forwardRequestFails, CopyEnds, Moves
  <2>1. PubInv'
    BY <2>0 DEF pubVars, PubInv
  <2>2. sem' = Cardinality(Holders') /\ sem' \in 0..MaxPending
    <3> USE DEF ProxyTypeOK, SlotsBalanced, ConnPCs
    <3>1. CASE acquire(c)
      <4>1. c \notin Holders
        BY <3>1 DEF acquire, Holders
      <4>2. Goto(c, "socks") /\ sem' = sem + 1 /\ sem < MaxPending
        BY <3>1 DEF acquire, Room
      <4>3. Cardinality(Holders') = Cardinality(Holders) + 1
        BY <4>1, <4>2, OneMoreHolder
      <4> QED
        BY <4>2, <4>3
    <3>2. CASE release(c)
      <4>1. c \in Holders
        BY <3>2 DEF release, Holders
      <4>2. Goto(c, "closed") /\ sem' = IF sem > 0 THEN sem - 1 ELSE sem
        BY <3>2 DEF release
      <4>3. Cardinality(Holders') = Cardinality(Holders) - 1
        BY <4>1, <4>2, OneHolderLess
      <4>4. sem > 0
        <5>1. IsFiniteSet(Holders)
          BY FS_Subset DEF Holders
        <5> QED
          BY <4>1, <5>1, FS_EmptySet
      <4> QED
        BY <4>2, <4>3, <4>4
    <3>3. ASSUME NEW pc \in ConnPCs, Goto(c, pc), sem' = sem,
                 c \in Holders <=> pc \notin {"none", "queued", "new", "closed"}
          PROVE  sem' = Cardinality(Holders') /\ sem' \in 0..MaxPending
      BY <3>3, SameHolders
    <3>4. CASE BrowserConnects(c) \/ Accept(c) \/ refuse(c) \/ Negotiated(c)
               \/ NegotiationFails(c) \/ NoLink(c) \/ Snapshot(c) \/ OpenStream(c)
               \/ OpenStreamFails(c) \/ forwardRequest(c) \/ forwardRequestFails(c)
               \/ CopyEnds(c)
      BY <3>3, <3>4 DEF BrowserConnects, Accept, refuse, Negotiated, NegotiationFails,
         NoLink, Snapshot, OpenStream, OpenStreamFails, forwardRequest,
         forwardRequestFails, CopyEnds, Moves, Holders
    <3> QED
      BY <1>4, <3>1, <3>2, <3>4 DEF ServeStep, Unwaiting
  <2>3. conn' \in [Conns -> ConnPCs] /\ via' \in [Conns -> 0..count']
    <3> USE DEF ProxyTypeOK, ConnPCs, PubInv, Goto, pubVars
    <3>1. CASE Snapshot(c)
      BY <2>0, <3>1 DEF Snapshot, CurrentLink
    <3>2. CASE BrowserConnects(c) \/ Accept(c) \/ acquire(c) \/ refuse(c) \/ release(c)
               \/ Negotiated(c) \/ NegotiationFails(c) \/ NoLink(c)
      BY <2>0, <3>2 DEF BrowserConnects, Accept, acquire, refuse, release, Negotiated,
         NegotiationFails, NoLink, Moves
    <3>3. CASE OpenStream(c) \/ OpenStreamFails(c) \/ forwardRequest(c)
               \/ forwardRequestFails(c) \/ CopyEnds(c)
      BY <2>0, <3>3 DEF OpenStream, OpenStreamFails, forwardRequest,
         forwardRequestFails, CopyEnds, Moves
    <3> QED
      BY <1>4, <3>1, <3>2, <3>3 DEF ServeStep, Unwaiting
  <2>5. ProxyTypeOK'
    BY <2>0, <2>2, <2>3, Zenon DEF ProxyTypeOK
  <2>6. SlotsBalanced'
    BY <2>2 DEF SlotsBalanced
  <2> QED
    BY <2>1, <2>5, <2>6
<1>5. CASE UNCHANGED proxyVars
  <2>1. UNCHANGED <<pubVars, proc, lnClosed, sem, conn, via, Holders>>
    BY <1>5 DEF proxyVars, listenVars, Holders
  <2>2. ProxyTypeOK'
    BY <2>1, Zenon DEF ProxyTypeOK, pubVars
  <2> QED
    BY <2>1, <2>2 DEF pubVars, PubInv, SlotsBalanced
<1> QED
  BY <1>1, <1>2, <1>3, <1>4, <1>5 DEF ProxyNext

(***************************************************************************)
(* ProxyInv is inductive: accept loop, connection goroutines, publisher    *)
(* and the end of the process in any order.                                *)
(***************************************************************************)
THEOREM ProxyInvariant == ProxySafety => []ProxyInv
BY ProxyInvInit, ProxyInvStep, PTL DEF ProxySafety

(***************************************************************************)
(* acquire and release pair up on every path through serve: one token for  *)
(* each admitted connection, and never more than MaxPending.               *)
(***************************************************************************)
THEOREM SlotsTheorem == ProxySafety => []SlotsBalanced
<1>1. ProxyInv => SlotsBalanced
  BY DEF ProxyInv
<1> QED
  BY <1>1, ProxyInvariant, PTL

(***************************************************************************)
(* No request starts on a link that has been replaced, whatever earlier    *)
(* requests still ride: bridge asks the connector for its link anew.       *)
(***************************************************************************)
THEOREM NewestTheorem == ProxySafety => RequestsTakeNewest
<1>1. ASSUME ProxyInv, [ProxyNext]_proxyVars
      PROVE  [\A c \in Riders' \ Riders : via'[c] = count']_proxyVars
  <2> USE DEF Riders
  <2>1. CASE \/ PubNext /\ UNCHANGED listenVars
             \/ CloseListener \/ AcceptFails \/ UNCHANGED proxyVars
    BY <2>1 DEF listenVars, CloseListener, AcceptFails, proxyVars
  <2>2. CASE RunProxyReturns
    BY <2>2 DEF RunProxyReturns
  <2>3. ASSUME NEW b \in Conns, Snapshot(b) PROVE \A c \in Riders' \ Riders : via'[c] = count'
    BY <1>1, <2>3 DEF Snapshot, CurrentLink, Goto, ProxyInv, PubInv, ProxyTypeOK, pubVars
  <2>4. ASSUME NEW b \in Conns,
               \/ BrowserConnects(b) \/ Accept(b) \/ acquire(b) \/ refuse(b) \/ release(b)
               \/ Negotiated(b) \/ NegotiationFails(b) \/ NoLink(b) \/ OpenStream(b)
               \/ OpenStreamFails(b) \/ forwardRequest(b) \/ forwardRequestFails(b)
               \/ CopyEnds(b)
        PROVE  Riders' \ Riders = {}
    BY <1>1, <2>4 DEF BrowserConnects, Accept, acquire, refuse, release, Negotiated,
       NegotiationFails, NoLink, OpenStream, OpenStreamFails, forwardRequest,
       forwardRequestFails, CopyEnds, Moves, Goto, ProxyInv, ProxyTypeOK
  <2> QED
    BY <1>1, <2>1, <2>2, <2>3, <2>4 DEF ProxyNext, ServeStep, Unwaiting
<1> QED
  BY <1>1, ProxyInvariant, PTL DEF ProxySafety, RequestsTakeNewest
=============================================================================
