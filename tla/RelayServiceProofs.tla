------------------------- MODULE RelayServiceProofs -------------------------
(***************************************************************************)
(* Proofs about RelayService: RelayInv is inductive, and the safety        *)
(* properties the runs check follow from it for any number of sessions,    *)
(* streams and any ceiling.                                                *)
(***************************************************************************)
EXTENDS RelayService, FiniteSetTheorems, TLAPS

-----------------------------------------------------------------------------
(* What a step of the serve loop, or of a pair, leaves alone.              *)

\* A step of ServeProxy or ServeExit moves one goroutine inside its loop and
\* touches neither the registry, nor a session, nor the context.
LEMMA ServeStepFrame ==
    ASSUME TypeOK, NEW s \in Sessions, ServeStep(s)
    PROVE  /\ UNCHANGED <<slots, closed, ctxDone, home, id>>
           /\ pc[s] \in {"top", "accept", "lookup", "open"}
           /\ pc'[s] \in {"top", "accept", "lookup", "open", "ended"}
           /\ pc' = [pc EXCEPT ![s] = pc'[s]]
<1>1. CASE LoopTop(s)
  BY <1>1 DEF TypeOK, LoopTop, Go, streamVars
<1>2. CASE AcceptError(s)
  BY <1>2 DEF TypeOK, AcceptError, Go, streamVars
<1>3. ASSUME NEW t \in Streams, ServeProxyAccept(s, t)
      PROVE  /\ UNCHANGED <<slots, closed, ctxDone, home, id>>
             /\ pc[s] \in {"top", "accept", "lookup", "open"}
             /\ pc'[s] \in {"top", "accept", "lookup", "open", "ended"}
             /\ pc' = [pc EXCEPT ![s] = pc'[s]]
  BY <1>3 DEF TypeOK, ServeProxyAccept, Go, pairVars, RunsServeProxy
<1>4. ASSUME NEW t \in Streams, ServeExitReject(s, t)
      PROVE  /\ UNCHANGED <<slots, closed, ctxDone, home, id>>
             /\ pc[s] \in {"top", "accept", "lookup", "open"}
             /\ pc'[s] \in {"top", "accept", "lookup", "open", "ended"}
             /\ pc' = [pc EXCEPT ![s] = pc'[s]]
  BY <1>4 DEF TypeOK, ServeExitReject, Go, pairVars, RunsServeProxy
<1>5. CASE LookupExit(s)
  BY <1>5 DEF TypeOK, LookupExit, DropStream, Go, pairVars, streamVars
<1>6. CASE OpenExitFails(s)
  BY <1>6 DEF TypeOK, OpenExitFails, DropStream, Go, pairVars
<1>7. CASE launch(s)
  BY <1>7 DEF TypeOK, launch, Go, BelowLimit
<1>8. CASE launchRejected(s)
  BY <1>8 DEF TypeOK, launchRejected, DropStream, Go, pairVars, BelowLimit
<1> QED
  BY <1>1, <1>2, <1>3, <1>4, <1>5, <1>6, <1>7, <1>8 DEF ServeStep

\* A step of a pair's goroutines, or the natural end of its copy, touches only
\* the pair and the bridge's bookkeeping.
LEMMA PairFrame ==
    ASSUME NEW t \in Streams, PairStep(t) \/ CopyEnds(t)
    PROVE  UNCHANGED <<slots, closed, ctxDone, pc, cur, snap, home, id, exitOf>>
BY DEF PairStep, Watcher, CopyEnds, track, PairOver

-----------------------------------------------------------------------------
(* Types.                                                                  *)

\* The relay starts with every variable in its type.
LEMMA InitType == NewService => TypeOK
<1> SUFFICES ASSUME NewService PROVE TypeOK
  OBVIOUS
<1>1. RegistryTypeOK
  BY DEF NewService, NewRegistry, RegistryTypeOK
<1>2. /\ pc \in [Sessions -> SessionPCs]
      /\ dial \in [Sessions -> DialStates]
      /\ phase \in [Streams -> Phases]
      /\ run \in RunPCs
  BY DEF NewService, NewBridge, SessionPCs, Phases, DialStates, RunPCs
<1>3. /\ cur \in [Sessions -> Streams \cup {NoStream}]
      /\ snap \in [Sessions -> Sessions \cup {NoSession}]
      /\ home \in [Streams -> Sessions \cup {NoSession}]
      /\ id \in [Streams -> Nat]
      /\ exitOf \in [Streams -> Sessions \cup {NoSession}]
      /\ gen \in [Sessions -> Nat]
      /\ prev \in [Sessions -> Sessions \cup {NoSession}]
      /\ conns \in Int
  BY DEF NewService, NewBridge
<1>4. /\ closed = {} /\ active = {} /\ sessions = {} /\ watching = {} /\ cancelled = {}
      /\ ctxDone = FALSE /\ listening = TRUE /\ accDone = FALSE /\ parentDone = FALSE
  BY DEF NewService, NewBridge
<1> QED
  BY <1>1, <1>2, <1>3, <1>4, Zenon DEF TypeOK

\* Steps of the serve loop keep the types.
LEMMA ServeStepType ==
    ASSUME TypeOK, StreamInv, NEW s \in Sessions, ServeStep(s), UNCHANGED svcVars
    PROVE  TypeOK'
<1> USE DEF TypeOK, RegistryTypeOK, svcVars, acceptVars, serveVars, Phases
<1>0. /\ UNCHANGED <<slots, closed, ctxDone, home, id>>
      /\ pc' = [pc EXCEPT ![s] = pc'[s]]
      /\ pc'[s] \in SessionPCs
  BY ServeStepFrame DEF SessionPCs, ServePCs
<1>1. CASE LoopTop(s)
  BY <1>0, <1>1 DEF LoopTop, streamVars
<1>2. CASE AcceptError(s)
  BY <1>0, <1>2 DEF AcceptError, streamVars
<1>3. ASSUME NEW t \in Streams, ServeProxyAccept(s, t) PROVE TypeOK'
  BY <1>0, <1>3 DEF ServeProxyAccept, pairVars, RunsServeProxy
<1>4. ASSUME NEW t \in Streams, ServeExitReject(s, t) PROVE TypeOK'
  BY <1>0, <1>4 DEF ServeExitReject, pairVars, RunsServeProxy
<1>5. CASE LookupExit(s)
  <2>1. CASE DropStream(s)
    BY <1>0, <2>1 DEF DropStream, pairVars
  <2>2. CASE ~DropStream(s)
    BY <1>0, <1>5, <2>2 DEF LookupExit, Current, streamVars, Roles
  <2> QED BY <2>1, <2>2
<1>6. CASE OpenExitFails(s)
  BY <1>0, <1>6 DEF OpenExitFails, DropStream, pairVars
<1>7. CASE launch(s)
  <2>1. id[cur[s]] \in Nat
    BY <1>7 DEF launch, StreamInv, BelowLimit
  <2>2. cur[s] \in Streams
    BY <1>7 DEF launch, StreamInv, BelowLimit
  <2>3. phase' \in [Streams -> Phases]
    BY <1>7 DEF launch, BelowLimit
  <2>4. exitOf' \in [Streams -> Sessions \cup {NoSession}]
    BY <1>7 DEF launch, BelowLimit
  <2>5. /\ active' \subseteq Nat
        /\ watching' \subseteq Streams
    BY <1>7, <2>1, <2>2 DEF launch, BelowLimit
  <2>6. conns' \in Int
    BY <1>7 DEF launch, BelowLimit
  <2>7. cur' \in [Sessions -> Streams \cup {NoStream}]
    BY <1>7 DEF launch, BelowLimit
  <2>8. snap' \in [Sessions -> Sessions \cup {NoSession}]
    BY <1>7 DEF launch, BelowLimit
  <2> QED
    BY <1>0, <1>7, <2>3, <2>4, <2>5, <2>6, <2>7, <2>8 DEF launch, BelowLimit
<1>8. CASE launchRejected(s)
  BY <1>0, <1>8 DEF launchRejected, DropStream, pairVars, BelowLimit
<1> QED
  BY <1>1, <1>2, <1>3, <1>4, <1>5, <1>6, <1>7, <1>8 DEF ServeStep

\* Steps of a pair keep the types.
LEMMA PairType ==
    ASSUME TypeOK, NEW t \in Streams, PairStep(t) \/ CopyEnds(t), UNCHANGED svcVars
    PROVE  TypeOK'
<1>1. /\ UNCHANGED <<slots, closed, ctxDone, pc, cur, snap, home, id, exitOf>>
      /\ UNCHANGED svcVars
  BY PairFrame
<1>2. phase' \in [Streams -> Phases]
  BY DEF TypeOK, PairStep, Watcher, CopyEnds, track, Phases, PairOver
<1>3. conns' \in Int
  BY DEF TypeOK, PairStep, Watcher, CopyEnds, track, PairOver
<1>4. active' \subseteq Nat
  BY DEF TypeOK, PairStep, Watcher, CopyEnds, track, PairOver
<1>5. watching' \subseteq Streams /\ cancelled' \subseteq Streams
  BY DEF TypeOK, PairStep, Watcher, CopyEnds, track, PairOver
<1> QED
  BY <1>1, <1>2, <1>3, <1>4, <1>5
  DEF TypeOK, RegistryTypeOK, svcVars, acceptVars, serveVars

\* Steps of the accept goroutine keep the types.
LEMMA AcceptType ==
    ASSUME TypeOK, AcceptStep
    PROVE  TypeOK'
<1> USE DEF TypeOK, RegistryTypeOK, bridgeVars, streamVars, serveVars
<1>1. CASE AcceptFails
  BY <1>1 DEF AcceptFails
<1>2. ASSUME NEW s \in Sessions, Accept(s) \/ TLSDone(s) \/ HandshakeFails(s)
      PROVE  TypeOK'
  BY <1>2 DEF Accept, TLSDone, HandshakeFails, DialStates
<1>3. ASSUME NEW s \in Sessions, Authenticated(s)
      PROVE  TypeOK'
  <2>1. Cardinality(Spawned) \in Nat
    BY BridgeAssumption, FS_Subset, FS_CardinalityType DEF Spawned
  <2> QED
    BY <1>3, <2>1 DEF Authenticated, Go, DialStates, SessionPCs, register
<1> QED
  BY <1>1, <1>2, <1>3 DEF AcceptStep

\* The clients and the caller keep the types.
LEMMA EnvironmentType ==
    ASSUME TypeOK, Environment
    PROVE  TypeOK'
<1>1. CASE CancelParent
  BY <1>1 DEF TypeOK, RegistryTypeOK, CancelParent, streamVars, acceptVars, serveVars
<1>2. ASSUME NEW s \in Sessions, Dial(s) PROVE TypeOK'
  BY <1>2 DEF TypeOK, RegistryTypeOK, Dial, DialStates, bridgeVars, streamVars, serveVars
<1>3. ASSUME NEW s \in Sessions, SessionDies(s) PROVE TypeOK'
  BY <1>3 DEF TypeOK, RegistryTypeOK, SessionDies, streamVars, svcVars, acceptVars, serveVars
<1>4. ASSUME NEW s \in Sessions, NEW t \in Streams, PeerOpensStream(s, t), UNCHANGED svcVars
      PROVE  TypeOK'
  <2>1. Cardinality({u \in Streams : home[u] = s}) \in Nat
    BY BridgeAssumption, FS_Subset, FS_CardinalityType
  <2> QED
    BY <1>4, <2>1 DEF TypeOK, RegistryTypeOK, PeerOpensStream, Phases, pairVars,
                      svcVars, acceptVars, serveVars
<1>5. ASSUME NEW t \in Streams, CopyEnds(t), UNCHANGED svcVars PROVE TypeOK'
  BY <1>5, PairType
<1> QED
  BY <1>1, <1>2, <1>3, <1>4, <1>5 DEF Environment

\* Steps of serveSession keep the types.
LEMMA SessionStepType ==
    ASSUME TypeOK, SessionInv, StreamInv, NEW s \in Sessions, SessionStep(s)
    PROVE  TypeOK'
<1> USE DEF streamVars, svcVars, acceptVars, serveVars, Go, SessionPCs, ServePCs
<1>0. RoleOf[s] \in Roles
  BY BridgeAssumption
<1>1. CASE RegisterSession(s)
  BY <1>0, <1>1 DEF TypeOK, RegistryTypeOK, RegisterSession, Register, NextGen, Previous, Replaces
<1>2. CASE ClosePrevious(s)
  BY <1>2 DEF TypeOK, RegistryTypeOK, SessionInv, ClosePrevious, ClosedPrev
<1>3. CASE ServeStep(s) /\ UNCHANGED svcVars
  BY <1>3, ServeStepType
<1>4. CASE CloseSession(s)
  BY <1>4 DEF TypeOK, RegistryTypeOK, CloseSession
<1>5. CASE VacateSession(s)
  BY <1>0, <1>5 DEF TypeOK, RegistryTypeOK, VacateSession, Vacate, NextGen, Holds
<1>6. CASE Unlist(s)
  BY <1>6 DEF TypeOK, RegistryTypeOK, Unlist
<1> QED
  BY <1>1, <1>2, <1>3, <1>4, <1>5, <1>6 DEF SessionStep

\* Steps of Service.Run keep the types.
LEMMA RunStepType ==
    ASSUME TypeOK, RunStep
    PROVE  TypeOK'
BY DEF TypeOK, RegistryTypeOK, RunStep, SelectWakes, AcceptLoopJoined, closeAll,
       closeAllDone, Cancel, Return, RunPCs, bridgeVars, streamVars, svcVars,
       acceptVars, serveVars, AcceptJoined, Waited

\* Every step of the relay keeps the types.
LEMMA NextType ==
    ASSUME TypeOK, SessionInv, StreamInv, [Next]_vars
    PROVE  TypeOK'
<1>1. CASE UNCHANGED vars
  BY <1>1 DEF TypeOK, RegistryTypeOK, vars, bridgeVars, streamVars, svcVars,
              acceptVars, serveVars
<1> QED
  BY <1>1, EnvironmentType, AcceptType, SessionStepType, PairType, RunStepType DEF Next

-----------------------------------------------------------------------------
(* Registrations.                                                          *)

\* A step that moves no serveSession goroutine and leaves the registrations
\* alone; it may close a session.
Quiet ==
    /\ UNCHANGED <<slots, pc, gen, prev, sessions>>
    /\ closed' = closed \/ \E s \in Sessions : closed' = closed \cup {s}
    /\ \A s \in Sessions : (dial'[s] = "session") <=> (dial[s] = "session")

\* Every step is quiet or is a step of the goroutine of one session, its
\* start included.
LEMMA StepKinds ==
    ASSUME TypeOK, [Next]_vars
    PROVE  \/ Quiet
           \/ \E s \in Sessions : Authenticated(s) \/ SessionStep(s)
<1> USE DEF bridgeVars, streamVars, svcVars, acceptVars, serveVars
<1>1. CASE UNCHANGED vars
  BY <1>1 DEF vars, Quiet
<1>2. CASE Environment
  <2>1. CASE CancelParent
    BY <2>1 DEF CancelParent, Quiet
  <2>2. ASSUME NEW s \in Sessions, Dial(s) PROVE Quiet
    BY <2>2 DEF TypeOK, Dial, Quiet
  <2>3. ASSUME NEW s \in Sessions, SessionDies(s) PROVE Quiet
    BY <2>3 DEF SessionDies, Quiet
  <2>4. ASSUME NEW s \in Sessions, NEW t \in Streams, PeerOpensStream(s, t), UNCHANGED svcVars
        PROVE  Quiet
    BY <2>4 DEF PeerOpensStream, Quiet
  <2>5. ASSUME NEW t \in Streams, CopyEnds(t), UNCHANGED svcVars PROVE Quiet
    BY <2>5 DEF CopyEnds, Quiet
  <2> QED
    BY <1>2, <2>1, <2>2, <2>3, <2>4, <2>5 DEF Environment
<1>3. CASE AcceptStep
  <2>1. CASE AcceptFails
    BY <2>1 DEF AcceptFails, Quiet
  <2>2. ASSUME NEW s \in Sessions, Accept(s) \/ TLSDone(s) \/ HandshakeFails(s)
        PROVE  Quiet
    BY <2>2 DEF TypeOK, Accept, TLSDone, HandshakeFails, Quiet
  <2> QED
    BY <1>3, <2>1, <2>2 DEF AcceptStep
<1>4. ASSUME NEW t \in Streams, PairStep(t), UNCHANGED svcVars PROVE Quiet
  BY <1>4, PairFrame DEF Quiet
<1>5. CASE RunStep
  BY <1>5 DEF RunStep, SelectWakes, AcceptLoopJoined, closeAll, closeAllDone,
              Cancel, Return, Quiet, AcceptJoined, Waited
<1> QED
  BY <1>1, <1>2, <1>3, <1>4, <1>5 DEF Next

\* SessionInv is preserved.
LEMMA SessionInvStep ==
    ASSUME TypeOK, SessionInv, [Next]_vars
    PROVE  SessionInv'
<1> USE DEF TypeOK, SessionInv, streamVars, svcVars, acceptVars, serveVars, Go
<1>1. CASE Quiet
  BY <1>1 DEF Quiet
<1>2. ASSUME NEW s \in Sessions, Authenticated(s) PROVE SessionInv'
  BY <1>2 DEF Authenticated, register
<1>3. ASSUME NEW s \in Sessions, RegisterSession(s) PROVE SessionInv'
  <2>1. slots[RoleOf[s]].gen \in Nat /\ Previous(RoleOf[s]) \in Sessions \cup {NoSession}
    BY BridgeAssumption DEF RegistryTypeOK, Previous
  <2> QED
    BY <1>3, <2>1 DEF RegisterSession, NextGen, Replaces
<1>4. ASSUME NEW s \in Sessions, ClosePrevious(s) PROVE SessionInv'
  BY <1>4 DEF ClosePrevious, ClosedPrev
<1>5. ASSUME NEW s \in Sessions, ServeStep(s), UNCHANGED svcVars PROVE SessionInv'
  BY <1>5, ServeStepFrame
<1>6. ASSUME NEW s \in Sessions, CloseSession(s) PROVE SessionInv'
  BY <1>6 DEF CloseSession
<1>7. ASSUME NEW s \in Sessions, VacateSession(s) PROVE SessionInv'
  BY <1>7 DEF VacateSession
<1>8. ASSUME NEW s \in Sessions, Unlist(s) PROVE SessionInv'
  BY <1>8 DEF Unlist
<1> QED
  BY <1>1, <1>2, <1>3, <1>4, <1>5, <1>6, <1>7, <1>8, StepKinds DEF SessionStep

\* SlotInv is preserved.
LEMMA SlotInvStep ==
    ASSUME TypeOK, SessionInv, SlotInv, GenerationsIdentify, [Next]_vars
    PROVE  SlotInv'
<1> USE BridgeAssumption, NoSessionAssumption
<1> USE DEF TypeOK, RegistryTypeOK, SlotInv, streamVars, svcVars, acceptVars, serveVars, Go
<1>1. CASE Quiet
  BY <1>1 DEF Quiet
<1>2. ASSUME NEW s \in Sessions, Authenticated(s) PROVE SlotInv'
  BY <1>2 DEF Authenticated, SessionInv, register
<1>3. ASSUME NEW s \in Sessions, RegisterSession(s) PROVE SlotInv'
  BY <1>3 DEF RegisterSession, Register, NextGen, Previous, Replaces
<1>4. ASSUME NEW s \in Sessions, ClosePrevious(s) PROVE SlotInv'
  BY <1>4 DEF ClosePrevious, ClosedPrev
<1>5. ASSUME NEW s \in Sessions, ServeStep(s), UNCHANGED svcVars PROVE SlotInv'
  BY <1>5, ServeStepFrame
<1>6. ASSUME NEW s \in Sessions, CloseSession(s) PROVE SlotInv'
  BY <1>6 DEF CloseSession
<1>7. ASSUME NEW s \in Sessions, VacateSession(s) PROVE SlotInv'
  <2>1. slots[RoleOf[s]].mux = s => slots'[RoleOf[s]].mux = NoSession
    BY <1>7 DEF VacateSession, Vacate, GenerationsIdentify, SessionInv, Holds
  <2>2. \A r \in Roles : slots'[r].mux \in {NoSession, slots[r].mux}
    BY <1>7 DEF VacateSession, Vacate, Holds
  <2> QED
    BY <1>7, <2>1, <2>2 DEF VacateSession
<1>8. ASSUME NEW s \in Sessions, Unlist(s) PROVE SlotInv'
  BY <1>8 DEF Unlist
<1> QED
  BY <1>1, <1>2, <1>3, <1>4, <1>5, <1>6, <1>7, <1>8, StepKinds DEF SessionStep

\* GenerationsIdentify is preserved.
LEMMA GenerationsStep ==
    ASSUME TypeOK, SessionInv, SlotInv, GenerationsIdentify, [Next]_vars
    PROVE  GenerationsIdentify'
<1> USE BridgeAssumption, NoSessionAssumption
<1> USE DEF TypeOK, RegistryTypeOK, GenerationsIdentify, streamVars, svcVars,
            acceptVars, serveVars
<1>1. CASE UNCHANGED <<slots, gen>>
  BY <1>1
<1>2. ASSUME NEW s \in Sessions, RegisterSession(s) PROVE GenerationsIdentify'
  <2>1. gen[s] = 0
    BY <1>2 DEF RegisterSession, SessionInv, Replaces
  <2>2. /\ slots' = [slots EXCEPT ![RoleOf[s]] = [mux |-> s, gen |-> slots[RoleOf[s]].gen + 1]]
        /\ gen' = [gen EXCEPT ![s] = slots[RoleOf[s]].gen + 1]
    BY <1>2 DEF RegisterSession, Register, NextGen, Replaces
  <2>3. TAKE u \in Sessions
  <2>4. CASE u = s
    BY <2>2, <2>4
  <2>5. CASE u # s /\ RoleOf[u] = RoleOf[s]
    BY <2>2, <2>5
  <2>6. CASE RoleOf[u] # RoleOf[s]
    BY <2>2, <2>6
  <2> QED
    BY <2>4, <2>5, <2>6
<1>3. ASSUME NEW s \in Sessions, VacateSession(s) PROVE GenerationsIdentify'
  <2>1. /\ slots' = IF slots[RoleOf[s]].gen = gen[s]
                    THEN [slots EXCEPT ![RoleOf[s]] =
                             [mux |-> NoSession, gen |-> slots[RoleOf[s]].gen + 1]]
                    ELSE slots
        /\ gen' = gen
    BY <1>3 DEF VacateSession, Vacate, NextGen, Holds
  <2>2. TAKE u \in Sessions
  <2>3. CASE RoleOf[u] = RoleOf[s]
    BY <2>1, <2>3
  <2>4. CASE RoleOf[u] # RoleOf[s]
    BY <2>1, <2>4
  <2> QED
    BY <2>3, <2>4
<1>4. CASE Quiet
  BY <1>1, <1>4 DEF Quiet
<1>5. ASSUME NEW s \in Sessions,
             \/ Authenticated(s) \/ ClosePrevious(s) \/ CloseSession(s) \/ Unlist(s)
             \/ ServeStep(s) /\ UNCHANGED svcVars
      PROVE  UNCHANGED <<slots, gen>>
  BY <1>5, ServeStepFrame DEF Authenticated, ClosePrevious, CloseSession, Unlist, ClosedPrev, register
<1> QED
  BY <1>1, <1>2, <1>3, <1>4, <1>5, StepKinds DEF SessionStep

\* NoOrphanedSession is preserved.
LEMMA NoOrphanStep ==
    ASSUME TypeOK, SessionInv, SlotInv, GenerationsIdentify, NoOrphanedSession,
           [Next]_vars
    PROVE  NoOrphanedSession'
<1> USE BridgeAssumption, NoSessionAssumption
<1> USE DEF TypeOK, RegistryTypeOK, NoOrphanedSession, streamVars, svcVars,
            acceptVars, serveVars, Go
<1>1. CASE Quiet
  BY <1>1 DEF Quiet
<1>2. ASSUME NEW s \in Sessions, Authenticated(s) PROVE NoOrphanedSession'
  BY <1>2 DEF Authenticated, SessionInv, register
<1>3. ASSUME NEW s \in Sessions, RegisterSession(s) PROVE NoOrphanedSession'
  <2> DEFINE p == slots[RoleOf[s]].mux
  <2>1. /\ slots' = [slots EXCEPT ![RoleOf[s]] = [mux |-> s, gen |-> slots[RoleOf[s]].gen + 1]]
        /\ gen' = [gen EXCEPT ![s] = slots[RoleOf[s]].gen + 1]
        /\ prev' = [prev EXCEPT ![s] = p]
        /\ pc' = [pc EXCEPT ![s] = IF p = NoSession THEN "top" ELSE "replace"]
        /\ pc[s] = "register"
        /\ closed' = closed
    BY <1>3 DEF RegisterSession, Register, NextGen, Previous, Replaces
  <2>2. SUFFICES ASSUME NEW u \in Sessions, gen'[u] # 0, slots'[RoleOf[u]].mux # u,
                        u \notin closed
                 PROVE  \E w \in Sessions : pc'[w] = "replace" /\ prev'[w] = u
    BY <2>1
  <2>3. u # s /\ gen[u] # 0
    BY <2>1, <2>2
  <2>4. CASE p = u
    BY <2>1, <2>3, <2>4
  <2>5. CASE p # u
    <3>1. slots[RoleOf[u]].mux # u
      BY <2>1, <2>2, <2>5
    <3>2. PICK w \in Sessions : pc[w] = "replace" /\ prev[w] = u
      BY <2>2, <2>3, <3>1
    <3> QED
      BY <2>1, <3>2
  <2> QED
    BY <2>4, <2>5
<1>4. ASSUME NEW s \in Sessions, ClosePrevious(s) PROVE NoOrphanedSession'
  BY <1>4 DEF ClosePrevious, ClosedPrev
<1>5. ASSUME NEW s \in Sessions, ServeStep(s), UNCHANGED svcVars PROVE NoOrphanedSession'
  BY <1>5, ServeStepFrame
<1>6. ASSUME NEW s \in Sessions, CloseSession(s) PROVE NoOrphanedSession'
  BY <1>6 DEF CloseSession
<1>7. ASSUME NEW s \in Sessions, VacateSession(s) PROVE NoOrphanedSession'
  <2>1. /\ \A r \in Roles : slots'[r].mux = slots[r].mux \/ slots[r].mux = s
        /\ s \in closed
        /\ UNCHANGED <<gen, prev, closed>>
        /\ pc' = [pc EXCEPT ![s] = "unlist"]
        /\ pc[s] = "vacate"
    BY <1>7 DEF VacateSession, Vacate, GenerationsIdentify, SessionInv, Holds
  <2> QED
    BY <2>1
<1>8. ASSUME NEW s \in Sessions, Unlist(s) PROVE NoOrphanedSession'
  BY <1>8 DEF Unlist
<1> QED
  BY <1>1, <1>2, <1>3, <1>4, <1>5, <1>6, <1>7, <1>8, StepKinds DEF SessionStep

-----------------------------------------------------------------------------
(* Shutdown.                                                               *)

\* AcceptInv is preserved.
LEMMA AcceptInvStep ==
    ASSUME TypeOK, AcceptInv, [Next]_vars
    PROVE  AcceptInv'
<1> USE DEF TypeOK, AcceptInv, Handshaking, bridgeVars, streamVars, svcVars,
            acceptVars, serveVars
<1>1. CASE UNCHANGED <<dial, accDone, run>>
  BY <1>1
<1>2. CASE Environment
  BY <1>1, <1>2 DEF Environment, CancelParent, Dial, SessionDies
<1>3. CASE AcceptStep
  BY <1>3 DEF AcceptStep, AcceptFails, Accept, TLSDone, HandshakeFails, Authenticated, register
<1>4. ASSUME NEW s \in Sessions, SessionStep(s) PROVE UNCHANGED <<dial, accDone, run>>
  BY <1>4 DEF SessionStep, RegisterSession, ClosePrevious, CloseSession,
              VacateSession, Unlist, ClosedPrev, Replaces
<1>5. CASE RunStep
  BY <1>5 DEF RunStep, SelectWakes, AcceptLoopJoined, closeAll, closeAllDone, Cancel, Return, AcceptJoined, Waited
<1>6. CASE UNCHANGED vars
  BY <1>1, <1>6 DEF vars
<1>7. ASSUME NEW t \in Streams, UNCHANGED svcVars PROVE UNCHANGED <<dial, accDone, run>>
  BY <1>7
<1> QED
  BY <1>1, <1>2, <1>3, <1>4, <1>5, <1>6, <1>7 DEF Next

\* SweepIsComplete is preserved.
LEMMA SweepStep ==
    ASSUME TypeOK, SessionInv, AcceptInv, SweepIsComplete, [Next]_vars
    PROVE  SweepIsComplete'
<1> USE DEF TypeOK, SweepIsComplete, Spawned, streamVars, svcVars, acceptVars, serveVars
<1>1. CASE Quiet /\ run' = run
  BY <1>1 DEF Quiet
<1>2. ASSUME NEW s \in Sessions, Authenticated(s) PROVE SweepIsComplete'
  BY <1>2 DEF Authenticated, AcceptInv, Handshaking, RunPCs, register
<1>3. ASSUME NEW s \in Sessions, SessionStep(s) PROVE SweepIsComplete'
  <2>1. /\ pc[s] # "none" /\ run' = run /\ closed \subseteq closed'
        /\ \A u \in Sessions \ {s} : pc'[u] = pc[u]
    BY <1>3, ServeStepFrame
    DEF SessionStep, RegisterSession, ClosePrevious, CloseSession, VacateSession, Unlist, Go, ClosedPrev, Replaces
  <2> QED
    BY <2>1
<1>4. CASE RunStep
  BY <1>4 DEF RunStep, SelectWakes, AcceptLoopJoined, closeAll, closeAllDone,
              Cancel, Return, SessionInv, bridgeVars, AcceptJoined, Waited
<1>5. CASE run' = run
  BY <1>1, <1>2, <1>3, <1>5, StepKinds
<1>6. CASE run' # run
  <2>1. RunStep
    BY <1>6 DEF Next, Environment, CancelParent, Dial, SessionDies, AcceptStep,
                AcceptFails, Accept, TLSDone, HandshakeFails, Authenticated,
                SessionStep, RegisterSession, ClosePrevious, CloseSession,
                VacateSession, Unlist, vars, ClosedPrev, Replaces, register
  <2> QED
    BY <1>4, <2>1
<1> QED
  BY <1>5, <1>6

\* ShutdownReleases is preserved: it holds when Run returns, and no goroutine
\* can start after that.
LEMMA ShutdownStep ==
    ASSUME TypeOK, TypeOK', SessionInv', SlotInv', AcceptInv, ShutdownReleases,
           [Next]_vars
    PROVE  ShutdownReleases'
<1> USE DEF TypeOK, Serving, streamVars, svcVars, acceptVars, serveVars
<1> SUFFICES ASSUME run' = "returned" PROVE Serving' = {}
  <2>1. Serving' = {} => sessions' = {} /\ \A r \in Roles : Current(r)' = NoSession
    BY DEF RegistryTypeOK, SessionInv, SlotInv, Current
  <2> QED
    BY <2>1 DEF ShutdownReleases
<1>1. CASE run = "returned"
  <2>1. Serving = {} /\ accDone
    BY <1>1 DEF ShutdownReleases, AcceptInv
  <2>2. CASE Quiet
    BY <2>1, <2>2 DEF Quiet
  <2>3. ASSUME NEW s \in Sessions PROVE ~Authenticated(s)
    BY <2>1 DEF Authenticated, AcceptInv, Handshaking, register
  <2>4. ASSUME NEW s \in Sessions PROVE ~SessionStep(s)
    BY <2>1, ServeStepFrame DEF SessionStep, RegisterSession, ClosePrevious,
                                CloseSession, VacateSession, Unlist, ClosedPrev, Replaces
  <2> QED
    BY <2>2, <2>3, <2>4, StepKinds
<1>2. CASE run # "returned"
  <2>1. Return
    BY <1>2 DEF Next, Environment, CancelParent, Dial, SessionDies, AcceptStep,
                AcceptFails, Accept, TLSDone, HandshakeFails, Authenticated,
                SessionStep, RegisterSession, ClosePrevious, CloseSession,
                VacateSession, Unlist, RunStep, SelectWakes, AcceptLoopJoined,
                closeAll, closeAllDone, Cancel, vars, AcceptJoined, ClosedPrev, Replaces, register
  <2> QED
    BY <2>1 DEF Return, bridgeVars, Waited
<1> QED
  BY <1>1, <1>2

-----------------------------------------------------------------------------
(* Streams and pairs.                                                      *)

\* The steps that are not about streams leave them alone, move no goroutine
\* into the pairing, and unregister nobody.
LEMMA OtherStepFrame ==
    ASSUME TypeOK, SessionInv,
           \/ UNCHANGED vars
           \/ CancelParent \/ AcceptStep \/ RunStep
           \/ \E s \in Sessions :
                 \/ Dial(s) \/ SessionDies(s) \/ RegisterSession(s) \/ ClosePrevious(s)
                 \/ CloseSession(s) \/ VacateSession(s) \/ Unlist(s)
    PROVE  /\ UNCHANGED <<cur, snap, phase, home, exitOf, conns>>
           /\ \A s \in Sessions : pc'[s] \in {"lookup", "open"} => pc'[s] = pc[s]
           /\ \A s \in Sessions : gen[s] # 0 => gen'[s] # 0
<1> USE DEF TypeOK, bridgeVars, streamVars, svcVars, acceptVars, serveVars, Go
<1>1. CASE UNCHANGED vars \/ CancelParent \/ RunStep
  BY <1>1 DEF vars, CancelParent, RunStep, SelectWakes, AcceptLoopJoined, closeAll,
              closeAllDone, Cancel, Return, AcceptJoined, Waited
<1>2. CASE AcceptStep
  BY <1>2 DEF AcceptStep, AcceptFails, Accept, TLSDone, HandshakeFails, Authenticated, register
<1>3. ASSUME NEW s \in Sessions, Dial(s) \/ SessionDies(s) \/ ClosePrevious(s)
                    \/ CloseSession(s) \/ VacateSession(s) \/ Unlist(s)
      PROVE  /\ UNCHANGED <<cur, snap, phase, home, exitOf, conns, gen>>
             /\ \A u \in Sessions : pc'[u] \in {"lookup", "open"} => pc'[u] = pc[u]
  BY <1>3 DEF Dial, SessionDies, ClosePrevious, CloseSession, VacateSession, Unlist, ClosedPrev
<1>4. ASSUME NEW s \in Sessions, RegisterSession(s)
      PROVE  /\ UNCHANGED <<cur, snap, phase, home, exitOf, conns>>
             /\ \A u \in Sessions : pc'[u] \in {"lookup", "open"} => pc'[u] = pc[u]
             /\ \A u \in Sessions : gen[u] # 0 => gen'[u] # 0
  BY <1>4 DEF RegisterSession, SessionInv, Replaces
<1> QED
  BY <1>1, <1>2, <1>3, <1>4

\* Every step is one of those, or a step of a stream.
LEMMA StreamStepKinds ==
    ASSUME [Next]_vars
    PROVE  \/ UNCHANGED vars
           \/ CancelParent \/ AcceptStep \/ RunStep
           \/ \E s \in Sessions :
                 \/ Dial(s) \/ SessionDies(s) \/ RegisterSession(s) \/ ClosePrevious(s)
                 \/ CloseSession(s) \/ VacateSession(s) \/ Unlist(s)
           \/ \E s \in Sessions : ServeStep(s) /\ UNCHANGED svcVars
           \/ \E s \in Sessions, t \in Streams : PeerOpensStream(s, t) /\ UNCHANGED svcVars
           \/ \E t \in Streams : (PairStep(t) \/ CopyEnds(t)) /\ UNCHANGED svcVars
BY DEF Next, Environment, SessionStep

\* StreamInv is preserved.
LEMMA StreamInvStep ==
    ASSUME TypeOK, SessionInv, SlotInv, StreamInv, [Next]_vars
    PROVE  StreamInv'
<1> USE DEF TypeOK, StreamInv, svcVars, serveVars
<1>1. CASE /\ UNCHANGED <<cur, snap, phase, home, exitOf, conns>>
           /\ \A s \in Sessions : pc'[s] \in {"lookup", "open"} => pc'[s] = pc[s]
           /\ \A s \in Sessions : gen[s] # 0 => gen'[s] # 0
  BY <1>1
<1>2. ASSUME NEW s \in Sessions, ServeStep(s), UNCHANGED svcVars PROVE StreamInv'
  <2> USE DEF Go, pairVars, streamVars
  <2>1. CASE LoopTop(s) \/ AcceptError(s)
    BY <1>2, <2>1 DEF LoopTop, AcceptError
  <2>2. ASSUME NEW t \in Streams, ServeProxyAccept(s, t) PROVE StreamInv'
    BY <1>2, <2>2 DEF ServeProxyAccept, RunsServeProxy
  <2>3. ASSUME NEW t \in Streams, ServeExitReject(s, t) PROVE StreamInv'
    BY <1>2, <2>3 DEF ServeExitReject, RunsServeProxy
  <2>4. ASSUME pc[s] \in {"lookup", "open"}, DropStream(s) PROVE StreamInv'
    BY <1>2, <2>4 DEF DropStream
  <2>5. CASE LookupExit(s) /\ ~DropStream(s)
    <3>1. LET e == slots["exit-node"].mux
          IN  /\ e \in Sessions
              /\ RoleOf[e] = "exit-node"
              /\ gen[e] # 0
              /\ snap' = [snap EXCEPT ![s] = e]
      BY <2>5 DEF LookupExit, Current, SlotInv, SessionInv, RegistryTypeOK, Roles
    <3> QED
      BY <1>2, <2>5, <3>1 DEF LookupExit
  <2>6. CASE launch(s)
    BY <1>2, <2>6 DEF launch, BelowLimit
  <2>7. CASE OpenExitFails(s) \/ launchRejected(s)
    BY <2>4, <2>7 DEF OpenExitFails, launchRejected, BelowLimit
  <2>8. CASE LookupExit(s) /\ DropStream(s)
    BY <2>4, <2>8 DEF LookupExit
  <2> QED
    BY <1>2, <2>1, <2>2, <2>3, <2>5, <2>6, <2>7, <2>8 DEF ServeStep
<1>3. ASSUME NEW s \in Sessions, NEW t \in Streams, PeerOpensStream(s, t), UNCHANGED svcVars
      PROVE  StreamInv'
  BY <1>3 DEF PeerOpensStream, pairVars
<1>4. ASSUME NEW t \in Streams, PairStep(t) \/ CopyEnds(t), UNCHANGED svcVars
      PROVE  StreamInv'
  <2>1. /\ UNCHANGED <<pc, cur, snap, home, exitOf, gen>>
        /\ \A u \in Streams :
              \/ phase'[u] = phase[u]
              \/ /\ phase[u] \in {"copying", "joining"}
                 /\ phase'[u] \in {"joining", "closed"}
    BY <1>4, PairFrame DEF PairStep, Watcher, CopyEnds, track, PairOver
  <2> QED
    BY <2>1
<1> QED
  BY <1>1, <1>2, <1>3, <1>4, StreamStepKinds, OtherStepFrame

\* ConnsExact is preserved.
LEMMA ConnsStep ==
    ASSUME TypeOK, SessionInv, StreamInv, ConnsExact, [Next]_vars
    PROVE  ConnsExact'
<1>0. IsFiniteSet(LivePairs) /\ Cardinality(LivePairs) \in Nat
  BY BridgeAssumption, FS_Subset, FS_CardinalityType DEF LivePairs
<1>1. CASE conns' = conns /\ LivePairs' = LivePairs
  BY <1>1 DEF ConnsExact
<1>2. ASSUME NEW s \in Sessions, launch(s) PROVE ConnsExact'
  <2>1. cur[s] \in Streams /\ phase[cur[s]] = "accepted"
    BY <1>2 DEF launch, StreamInv, BelowLimit
  <2>2. LivePairs' = LivePairs \cup {cur[s]} /\ cur[s] \notin LivePairs
    BY <1>2, <2>1 DEF launch, LivePairs, TypeOK, BelowLimit
  <2>3. Cardinality(LivePairs') = Cardinality(LivePairs) + 1
    BY <1>0, <2>2, FS_AddElement
  <2>4. conns' = conns + 1 /\ conns < MaxStreams
    BY <1>2 DEF launch, BelowLimit
  <2> QED
    BY <1>0, <2>3, <2>4, BridgeAssumption DEF ConnsExact
<1>3. ASSUME NEW t \in Streams, track(t) PROVE ConnsExact'
  <2>1. LivePairs' = LivePairs \ {t} /\ t \in LivePairs
    BY <1>3 DEF track, LivePairs, TypeOK
  <2>2. Cardinality(LivePairs') = Cardinality(LivePairs) - 1
    BY <1>0, <2>1, FS_RemoveElement
  <2>3. conns' = conns - 1
    BY <1>3 DEF track
  <2> QED
    BY <1>0, <2>2, <2>3, BridgeAssumption DEF ConnsExact
<1>4. ASSUME NEW s \in Sessions, ServeStep(s), ~launch(s)
      PROVE  conns' = conns /\ LivePairs' = LivePairs
  <2> USE DEF TypeOK, LivePairs, pairVars, streamVars
  <2>1. CASE LoopTop(s) \/ AcceptError(s)
    BY <2>1 DEF LoopTop, AcceptError
  <2>2. ASSUME NEW t \in Streams, ServeProxyAccept(s, t) \/ ServeExitReject(s, t)
        PROVE  conns' = conns /\ LivePairs' = LivePairs
    BY <2>2 DEF ServeProxyAccept, ServeExitReject, RunsServeProxy
  <2>3. CASE LookupExit(s) \/ OpenExitFails(s) \/ launchRejected(s)
    BY <2>3 DEF LookupExit, OpenExitFails, launchRejected, DropStream, StreamInv, BelowLimit
  <2> QED
    BY <1>4, <2>1, <2>2, <2>3 DEF ServeStep
<1>5. ASSUME NEW s \in Sessions, NEW t \in Streams, PeerOpensStream(s, t)
      PROVE  conns' = conns /\ LivePairs' = LivePairs
  BY <1>5 DEF PeerOpensStream, pairVars, LivePairs, TypeOK
<1>6. ASSUME NEW t \in Streams, Watcher(t) \/ CopyEnds(t)
      PROVE  conns' = conns /\ LivePairs' = LivePairs
  BY <1>6 DEF Watcher, CopyEnds, LivePairs, TypeOK, PairOver
<1>7. CASE UNCHANGED <<cur, snap, phase, home, exitOf, conns>>
  BY <1>1, <1>7 DEF LivePairs
<1> QED
  BY <1>1, <1>2, <1>3, <1>4, <1>5, <1>6, <1>7, StreamStepKinds, OtherStepFrame DEF PairStep

-----------------------------------------------------------------------------
(* The theorems.                                                           *)

\* The relay starts in RelayInv.
LEMMA InitInv == NewService => RelayInv
<1> SUFFICES ASSUME NewService PROVE RelayInv
  OBVIOUS
<1> USE NoSessionAssumption, BridgeAssumption
<1> USE DEF NewService, NewRegistry, NewBridge
<1>1. TypeOK
  BY InitType
<1>2. SessionInv
  BY DEF SessionInv
<1>3. SlotInv /\ GenerationsIdentify /\ NoOrphanedSession
  BY DEF SlotInv, GenerationsIdentify, NoOrphanedSession
<1>4. AcceptInv /\ SweepIsComplete /\ ShutdownReleases
  BY DEF AcceptInv, SweepIsComplete, ShutdownReleases, Handshaking
<1>5. StreamInv
  BY DEF StreamInv
<1>6. ConnsExact
  <2>1. LivePairs = {} /\ conns = 0
    BY DEF LivePairs
  <2> QED
    BY <2>1, FS_EmptySet DEF ConnsExact
<1> QED
  BY <1>1, <1>2, <1>3, <1>4, <1>5, <1>6 DEF RelayInv

\* RelayInv is an invariant of the relay, whatever the numbers of sessions and
\* streams and whatever the ceiling.
THEOREM RelayInvariant == Spec => []RelayInv
<1>1. RelayInv /\ [Next]_vars => RelayInv'
  <2> SUFFICES ASSUME RelayInv, [Next]_vars PROVE RelayInv'
    OBVIOUS
  <2>1. TypeOK'
    BY NextType DEF RelayInv
  <2>2. SessionInv'
    BY SessionInvStep DEF RelayInv
  <2>3. SlotInv'
    BY SlotInvStep DEF RelayInv
  <2>4. GenerationsIdentify'
    BY GenerationsStep DEF RelayInv
  <2>5. NoOrphanedSession'
    BY NoOrphanStep DEF RelayInv
  <2>6. AcceptInv'
    BY AcceptInvStep DEF RelayInv
  <2>7. SweepIsComplete'
    BY SweepStep DEF RelayInv
  <2>8. ShutdownReleases'
    BY <2>1, <2>2, <2>3, ShutdownStep DEF RelayInv
  <2>9. StreamInv'
    BY StreamInvStep DEF RelayInv
  <2>10. ConnsExact'
    BY ConnsStep DEF RelayInv
  <2> QED
    BY <2>1, <2>2, <2>3, <2>4, <2>5, <2>6, <2>7, <2>8, <2>9, <2>10 DEF RelayInv
<1> QED
  BY <1>1, InitInv, PTL DEF Spec

\* Every variable of the relay keeps its type.
THEOREM RelayTypes == Spec => []TypeOK
<1>1. RelayInv => TypeOK
  BY DEF RelayInv
<1> QED
  BY <1>1, RelayInvariant, PTL

\* registry.go: a generation belongs to the slot exactly while its session
\* does, so a late Vacate never clears a successor.
THEOREM GenerationsTheorem == Spec => []GenerationsIdentify
<1>1. RelayInv => GenerationsIdentify
  BY DEF RelayInv
<1> QED
  BY <1>1, RelayInvariant, PTL

\* serveSession: a session that lost its role is closed or about to be.
THEOREM NoOrphanTheorem == Spec => []NoOrphanedSession
<1>1. RelayInv => NoOrphanedSession
  BY DEF RelayInv
<1> QED
  BY <1>1, RelayInvariant, PTL

\* launch and track: the counter is exact and the ceiling is kept.
THEOREM ConnsTheorem == Spec => []ConnsExact
<1>1. RelayInv => ConnsExact
  BY DEF RelayInv
<1> QED
  BY <1>1, RelayInvariant, PTL

\* ServeProxy and ServeExit: pairs only ever run from a proxy to an exit.
THEOREM PairingTheorem == Spec => []PairsRunProxyToExit
<1>1. RelayInv => PairsRunProxyToExit
  BY DEF RelayInv, StreamInv, PairsRunProxyToExit, LivePairs
<1> QED
  BY <1>1, RelayInvariant, PTL

\* ServeProxy: a pair on an exit that lost its role is on a session that is
\* closed or about to be.
THEOREM StalePairsTheorem == Spec => []StalePairsDoomed
<1>1. RelayInv => StalePairsDoomed
  BY DEF RelayInv, StreamInv, NoOrphanedSession, StalePairsDoomed, LivePairs, Current
<1> QED
  BY <1>1, RelayInvariant, PTL

\* Service.Run: no session slips in behind closeAll's sweep.
THEOREM SweepTheorem == Spec => []SweepIsComplete
<1>1. RelayInv => SweepIsComplete
  BY DEF RelayInv
<1> QED
  BY <1>1, RelayInvariant, PTL

\* Service.Run: when it has returned, every role and every session is released.
THEOREM ShutdownTheorem == Spec => []ShutdownReleases
<1>1. RelayInv => ShutdownReleases
  BY DEF RelayInv
<1> QED
  BY <1>1, RelayInvariant, PTL

-----------------------------------------------------------------------------
(* Refinement.                                                             *)

\* Closing one session is an End of the abstract specification, or nothing.
LEMMA ClosingRefines ==
    ASSUME NEW s \in Sessions, closed' = closed \cup {s}, UNCHANGED <<slots, gen>>
    PROVE  [Ownership!OwnNext]_(Ownership!ownVars)
BY DEF Ownership!OwnNext, Ownership!End, Ownership!ownVars

\* A step that closes nobody and registers nobody is a stutter.
LEMMA StutterRefines ==
    ASSUME UNCHANGED <<slots, gen, closed>>
    PROVE  [Ownership!OwnNext]_(Ownership!ownVars)
BY DEF Ownership!ownVars

(***************************************************************************)
(* The relay implements the safety part of RoleOwnership: Register is a    *)
(* Claim, a Vacate that finds its generation is a Release, one that does   *)
(* not is a stutter, and every close is an End.                            *)
(***************************************************************************)
THEOREM OwnershipRefinement == Spec => Ownership!OwnSafety
<1>1. NewService => Ownership!OwnInit
  BY DEF NewService, NewRegistry, NewBridge, Ownership!OwnInit
<1>2. RelayInv /\ [Next]_vars => [Ownership!OwnNext]_(Ownership!ownVars)
  <2> SUFFICES ASSUME RelayInv, [Next]_vars
               PROVE  [Ownership!OwnNext]_(Ownership!ownVars)
    OBVIOUS
  <2> USE BridgeAssumption, NoSessionAssumption
  <2> USE DEF svcVars, acceptVars, serveVars, streamVars
  <2>0. TypeOK /\ SessionInv /\ GenerationsIdentify
    BY DEF RelayInv
  <2>1. CASE Quiet
    BY <2>1, ClosingRefines, StutterRefines DEF Quiet
  <2>2. ASSUME NEW s \in Sessions, RegisterSession(s)
        PROVE  [Ownership!OwnNext]_(Ownership!ownVars)
    <3>1. gen[s] = 0 /\ gen \in [Sessions -> Nat] /\ slots[RoleOf[s]].gen \in Nat
      BY <2>0, <2>2 DEF RegisterSession, SessionInv, TypeOK, RegistryTypeOK, Replaces
    <3>2. /\ slots' = [slots EXCEPT ![RoleOf[s]] = [mux |-> s, gen |-> slots[RoleOf[s]].gen + 1]]
          /\ gen' = [gen EXCEPT ![s] = slots[RoleOf[s]].gen + 1]
          /\ closed' = closed
      BY <2>2 DEF RegisterSession, Register, NextGen, Replaces
    <3>3. {u \in Sessions : gen'[u] # 0} = {u \in Sessions : gen[u] # 0} \cup {s}
      BY <3>1, <3>2
    <3>4. [r \in Roles |-> slots'[r].mux]
            = [[r \in Roles |-> slots[r].mux] EXCEPT ![RoleOf[s]] = s]
      BY <2>0, <3>2 DEF TypeOK, RegistryTypeOK
    <3>5. Ownership!Claim(s)
      BY <3>1, <3>2, <3>3, <3>4 DEF Ownership!Claim
    <3> QED
      BY <3>5 DEF Ownership!OwnNext
  <2>3. ASSUME NEW s \in Sessions, ClosePrevious(s)
        PROVE  [Ownership!OwnNext]_(Ownership!ownVars)
    BY <2>0, <2>3, ClosingRefines DEF ClosePrevious, SessionInv, ClosedPrev
  <2>4. ASSUME NEW s \in Sessions, CloseSession(s)
        PROVE  [Ownership!OwnNext]_(Ownership!ownVars)
    BY <2>4, ClosingRefines DEF CloseSession
  <2>5. ASSUME NEW s \in Sessions, VacateSession(s)
        PROVE  [Ownership!OwnNext]_(Ownership!ownVars)
    <3>1. UNCHANGED <<gen, closed>> /\ gen[s] # 0 /\ s \in closed
      BY <2>0, <2>5 DEF VacateSession, SessionInv
    <3>2. CASE slots[RoleOf[s]].gen # gen[s]
      BY <2>5, <3>1, <3>2, StutterRefines DEF VacateSession, Vacate, Holds
    <3>3. CASE slots[RoleOf[s]].gen = gen[s]
      <4>1. slots[RoleOf[s]].mux = s
        BY <2>0, <3>1, <3>3 DEF GenerationsIdentify
      <4>2. [r \in Roles |-> slots'[r].mux]
              = [[r \in Roles |-> slots[r].mux] EXCEPT ![RoleOf[s]] = NoSession]
        BY <2>0, <2>5, <3>3 DEF VacateSession, Vacate, TypeOK, RegistryTypeOK, Holds
      <4>3. Ownership!Release(s)
        BY <3>1, <4>1, <4>2 DEF Ownership!Release
      <4> QED
        BY <4>3 DEF Ownership!OwnNext
    <3> QED
      BY <3>2, <3>3
  <2>6. ASSUME NEW s \in Sessions,
               Authenticated(s) \/ Unlist(s) \/ (ServeStep(s) /\ UNCHANGED svcVars)
        PROVE  [Ownership!OwnNext]_(Ownership!ownVars)
    BY <2>0, <2>6, ServeStepFrame, StutterRefines DEF Authenticated, Unlist, register
  <2> QED
    BY <2>0, <2>1, <2>2, <2>3, <2>4, <2>5, <2>6, StepKinds DEF SessionStep
<1> QED
  BY <1>1, <1>2, RelayInvariant, PTL DEF Spec, Ownership!OwnSafety
=============================================================================
