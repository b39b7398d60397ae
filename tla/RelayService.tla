---------------------------- MODULE RelayService ----------------------------
(***************************************************************************)
(* internal/relay/service.go composed with the registry and the bridge,    *)
(* and with the relay side of internal/transport/handshake.go as far as    *)
(* the service sees it.  The goroutines are:                               *)
(*   - Service.Run itself (run);                                           *)
(*   - the accept goroutine, which handles one connection at a time from   *)
(*     Accept to the end of its handshake (dial, accDone);                 *)
(*   - one serveSession goroutine per authenticated session (pc);          *)
(*   - the watcher and the copy goroutine of each pair (Bridge).           *)
(* A member of Sessions is one connection of a client, with the session it *)
(* becomes once it is authenticated.                                       *)
(***************************************************************************)
EXTENDS Bridge

VARIABLES
    dial,        \* per connection: its way to becoming a session
    listening,   \* the net.Listener is open
    accDone,     \* the channel accDone is closed
    parentDone,  \* the context given to Run is done
    run,         \* where Service.Run is
    sessions,    \* Service.sessions
    gen,         \* per session: the generation Register returned, 0 before
    prev         \* per session: the holder Register returned

acceptVars == <<dial, listening, accDone>>
serveVars == <<sessions, gen, prev>>
svcVars == <<acceptVars, parentDone, run, serveVars>>
vars == <<slots, bridgeVars, svcVars>>

DialStates == {"new", "backlog", "tls", "hello", "dropped", "session"}
RunPCs == {"select", "join", "closing", "cancel", "wait", "returned"}
SessionPCs == {"none", "register", "replace"} \cup ServePCs
                  \cup {"vacate", "unlist", "done"}

\* An accept loop that does not come back from a failed handshake.
HandshakingAfterFailure ==
    \E s \in Sessions : dial[s] \in {"tls", "hello", "dropped"}

\* The accept goroutine has a connection in hand.
Handshaking == \E s \in Sessions : dial[s] \in {"tls", "hello"}

\* The sessions whose serveSession goroutine has been started, and the ones
\* serveWG still counts.
Spawned == {s \in Sessions : pc[s] # "none"}
Serving == {s \in Sessions : pc[s] \notin {"none", "done"}}

NewService ==
    /\ NewRegistry
    /\ NewBridge
    /\ pc = [s \in Sessions |-> "none"]
    /\ dial = [s \in Sessions |-> "new"]
    /\ listening = TRUE
    /\ accDone = FALSE
    /\ parentDone = FALSE
    /\ run = "select"
    /\ sessions = {}
    /\ gen = [s \in Sessions |-> 0]
    /\ prev = [s \in Sessions |-> NoSession]

-----------------------------------------------------------------------------
(* The accept goroutine: Handshake.Run and the loop around it.             *)

\* External: a client connects; the kernel queues the connection.
Dial(s) ==
    /\ dial[s] = "new"
    /\ listening
    /\ dial' = [dial EXCEPT ![s] = "backlog"]
    /\ UNCHANGED <<slots, bridgeVars, listening, accDone, parentDone, run, serveVars>>

\* ln.Accept returns a connection, and listenTLS starts on it.
Accept(s) ==
    /\ dial[s] = "backlog"
    /\ listening
    /\ ~accDone
    /\ ~Handshaking
    /\ dial' = [dial EXCEPT ![s] = "tls"]
    /\ UNCHANGED <<slots, bridgeVars, listening, accDone, parentDone, run, serveVars>>

\* ln.Accept fails, on a closed listener certainly, on an open one maybe: the
\* accept goroutine ends for good.
AcceptFails ==
    /\ ~accDone
    /\ ~Handshaking
    /\ accDone' = TRUE
    /\ UNCHANGED <<slots, bridgeVars, dial, listening, parentDone, run, serveVars>>

\* The TLS handshake completes; listenTLS clears the deadline.
TLSDone(s) ==
    /\ dial[s] = "tls"
    /\ dial' = [dial EXCEPT ![s] = "hello"]
    /\ UNCHANGED <<slots, bridgeVars, listening, accDone, parentDone, run, serveVars>>

\* The handshake fails and the connection is closed: a TLS error, its deadline
\* or the context at "tls"; an unreadable, invalid or refused hello, or a
\* failed write of the response, at "hello".
HandshakeFails(s) ==
    /\ dial[s] \in {"tls", "hello"}
    /\ dial' = [dial EXCEPT ![s] = "dropped"]
    /\ UNCHANGED <<slots, bridgeVars, listening, accDone, parentDone, run, serveVars>>

\* A service that does not record the session it starts.
registerForgotten(s) == sessions

register(s) == sessions \cup {s}

\* A valid hello: the response is sent, the yamux session starts, register
\* records the session, and its serveSession goroutine is started.
Authenticated(s) ==
    /\ dial[s] = "hello"
    /\ dial' = [dial EXCEPT ![s] = "session"]
    /\ sessions' = register(s)
    /\ Go(s, "register")
    /\ UNCHANGED <<slots, closed, ctxDone, cur, snap, conns, active, streamVars,
                   listening, accDone, parentDone, run, gen, prev>>

-----------------------------------------------------------------------------
(* serveSession.                                                           *)

\* A registration that does not test for a previous holder.
ReplacesAlways(r) == TRUE

Replaces(r) == Previous(r) # NoSession

\* Registry.Register, then prev.Close only when there was a holder.
RegisterSession(s) ==
    /\ pc[s] = "register"
    /\ Register(RoleOf[s], s)
    /\ gen' = [gen EXCEPT ![s] = NextGen(RoleOf[s])]
    /\ prev' = [prev EXCEPT ![s] = Previous(RoleOf[s])]
    /\ Go(s, IF Replaces(RoleOf[s]) THEN "replace" ELSE "top")
    /\ UNCHANGED <<closed, ctxDone, cur, snap, conns, active, streamVars,
                   acceptVars, parentDone, run, sessions>>

\* A replacement that leaves the previous holder running.
ClosedPrevForgotten(s) == closed

ClosedPrev(s) == closed \cup {prev[s]}

\* prev.Close, outside the registry's lock.
ClosePrevious(s) ==
    /\ pc[s] = "replace"
    /\ closed' = ClosedPrev(s)
    /\ Go(s, "top")
    /\ UNCHANGED <<slots, ctxDone, cur, snap, conns, active, streamVars, svcVars>>

\* session.Close after the serve loop has returned.
CloseSession(s) ==
    /\ pc[s] = "ended"
    /\ closed' = closed \cup {s}
    /\ Go(s, "vacate")
    /\ UNCHANGED <<slots, ctxDone, cur, snap, conns, active, streamVars, svcVars>>

\* The deferred reg.Vacate with the generation of this registration.
VacateSession(s) ==
    /\ pc[s] = "vacate"
    /\ Vacate(RoleOf[s], gen[s])
    /\ Go(s, "unlist")
    /\ UNCHANGED <<closed, ctxDone, cur, snap, conns, active, streamVars, svcVars>>

\* The deferred delete, under Service.mu, which closeAll holds throughout;
\* then serveWG.Done.
Unlist(s) ==
    /\ pc[s] = "unlist"
    /\ run # "closing"
    /\ sessions' = sessions \ {s}
    /\ Go(s, "done")
    /\ UNCHANGED <<slots, closed, ctxDone, cur, snap, conns, active, streamVars,
                   acceptVars, parentDone, run, gen, prev>>

SessionStep(s) ==
    \/ RegisterSession(s) \/ ClosePrevious(s)
    \/ ServeStep(s) /\ UNCHANGED svcVars
    \/ CloseSession(s) \/ VacateSession(s) \/ Unlist(s)

-----------------------------------------------------------------------------
(* Service.Run, and what happens around it.                                *)

\* The caller cancels Run's context, and with it the derived service context.
CancelParent ==
    /\ ~parentDone
    /\ parentDone' = TRUE
    /\ ctxDone' = TRUE
    /\ UNCHANGED <<slots, closed, pc, cur, snap, conns, active, streamVars,
                   acceptVars, run, serveVars>>

\* External: the peer, its network or the keepalive ends a yamux session.
SessionDies(s) ==
    /\ s \in Spawned
    /\ s \notin closed
    /\ closed' = closed \cup {s}
    /\ UNCHANGED <<slots, ctxDone, pc, cur, snap, conns, active, streamVars, svcVars>>

\* The select of Run, then ln.Close.
SelectWakes ==
    /\ run = "select"
    /\ parentDone \/ accDone
    /\ run' = "join"
    /\ listening' = FALSE
    /\ UNCHANGED <<slots, bridgeVars, dial, accDone, parentDone, serveVars>>

\* A shutdown that sweeps the sessions without waiting for the accept loop.
AcceptUnjoined == TRUE

AcceptJoined == accDone

\* <-accDone, then closeAll takes Service.mu.
AcceptLoopJoined ==
    /\ run = "join"
    /\ AcceptJoined
    /\ run' = "closing"
    /\ UNCHANGED <<slots, bridgeVars, acceptVars, parentDone, serveVars>>

\* closeAll, one session at a time.
closeAll(s) ==
    /\ run = "closing"
    /\ s \in sessions \ closed
    /\ closed' = closed \cup {s}
    /\ UNCHANGED <<slots, ctxDone, pc, cur, snap, conns, active, streamVars, svcVars>>

closeAllDone ==
    /\ run = "closing"
    /\ sessions \subseteq closed
    /\ run' = "cancel"
    /\ UNCHANGED <<slots, bridgeVars, acceptVars, parentDone, serveVars>>

Cancel ==
    /\ run = "cancel"
    /\ ctxDone' = TRUE
    /\ run' = "wait"
    /\ UNCHANGED <<slots, closed, pc, cur, snap, conns, active, streamVars,
                   acceptVars, parentDone, serveVars>>

\* A Run that returns without serveWG.Wait.
NotWaited == TRUE

\* serveWG.Wait returns.
Waited == Serving = {}

\* Run returns ctx.Err().
Return ==
    /\ run = "wait"
    /\ Waited
    /\ run' = "returned"
    /\ UNCHANGED <<slots, bridgeVars, acceptVars, parentDone, serveVars>>

RunStep ==
    \/ SelectWakes \/ AcceptLoopJoined
    \/ \E s \in Sessions : closeAll(s)
    \/ closeAllDone \/ Cancel \/ Return

-----------------------------------------------------------------------------
(* The specification.                                                      *)

Environment ==
    \/ CancelParent
    \/ \E s \in Sessions : Dial(s) \/ SessionDies(s)
    \/ \E s \in Sessions, t \in Streams : PeerOpensStream(s, t) /\ UNCHANGED svcVars
    \/ \E t \in Streams : CopyEnds(t) /\ UNCHANGED svcVars

AcceptStep ==
    \/ AcceptFails
    \/ \E s \in Sessions :
          Accept(s) \/ TLSDone(s) \/ HandshakeFails(s) \/ Authenticated(s)

Next ==
    \/ Environment
    \/ AcceptStep
    \/ \E s \in Sessions : SessionStep(s)
    \/ \E t \in Streams : PairStep(t) /\ UNCHANGED svcVars
    \/ RunStep

Spec == NewService /\ [][Next]_vars

(***************************************************************************)
(* Fairness the code gives by itself.  Goroutines are scheduled; Accept    *)
(* returns when a connection is queued or the listener is closed; the TLS  *)
(* handshake has a deadline.  Nothing bounds the wait for the hello, so    *)
(* "hello" is not here.                                                    *)
(***************************************************************************)
CodeFairness ==
    /\ WF_vars(\E s \in Sessions : Accept(s))
    /\ WF_vars(~listening /\ AcceptFails)
    /\ \A s \in Sessions :
          /\ WF_vars(TLSDone(s) \/ (dial[s] = "tls" /\ HandshakeFails(s)))
          /\ WF_vars(SessionStep(s))
    /\ \A t \in Streams : WF_vars(PairStep(t) /\ UNCHANGED svcVars)
    /\ WF_vars(RunStep)

\* What the code leaves to its peers: a client that completed TLS sends a
\* hello, or its connection breaks.
PeerFairness ==
    \A s \in Sessions :
        WF_vars(Authenticated(s) \/ (dial[s] = "hello" /\ HandshakeFails(s)))

FairSpec == Spec /\ CodeFairness
LiveSpec == FairSpec /\ PeerFairness

-----------------------------------------------------------------------------
(* Properties.                                                             *)

\* Every variable has its type.
TypeOK ==
    /\ RegistryTypeOK
    /\ closed \subseteq Sessions
    /\ ctxDone \in BOOLEAN
    /\ pc \in [Sessions -> SessionPCs]
    /\ cur \in [Sessions -> Streams \cup {NoStream}]
    /\ snap \in [Sessions -> Sessions \cup {NoSession}]
    /\ conns \in Int
    /\ active \subseteq Nat
    /\ phase \in [Streams -> Phases]
    /\ home \in [Streams -> Sessions \cup {NoSession}]
    /\ id \in [Streams -> Nat]
    /\ exitOf \in [Streams -> Sessions \cup {NoSession}]
    /\ watching \subseteq Streams
    /\ cancelled \subseteq Streams
    /\ dial \in [Sessions -> DialStates]
    /\ listening \in BOOLEAN
    /\ accDone \in BOOLEAN
    /\ parentDone \in BOOLEAN
    /\ run \in RunPCs
    /\ sessions \subseteq Sessions
    /\ gen \in [Sessions -> Nat]
    /\ prev \in [Sessions -> Sessions \cup {NoSession}]

(***************************************************************************)
(* registry.go's generations identify registrations: a session's           *)
(* generation is the slot's exactly while the session holds the slot, so   *)
(* its deferred Vacate can neither clear a successor's registration nor    *)
(* miss its own.                                                           *)
(***************************************************************************)
GenerationsIdentify ==
    \A s \in Sessions :
        /\ gen[s] <= slots[RoleOf[s]].gen
        /\ (slots[RoleOf[s]].mux = s)
              <=> (gen[s] # 0 /\ gen[s] = slots[RoleOf[s]].gen)

(***************************************************************************)
(* serveSession: a session that registered and no longer holds its role is *)
(* closed, or its successor is about to close it (line 122).  Nobody loses *)
(* the role and stays connected.                                           *)
(***************************************************************************)
NoOrphanedSession ==
    \A s \in Sessions :
        gen[s] # 0 /\ slots[RoleOf[s]].mux # s
            => \/ s \in closed
               \/ \E u \in Sessions : pc[u] = "replace" /\ prev[u] = s

(***************************************************************************)
(* Bridge.conns is the number of pairs that are copying or being joined,   *)
(* and never exceeds the ceiling, whatever the order of launch and track   *)
(* on several sessions.                                                    *)
(***************************************************************************)
ConnsExact ==
    /\ conns = Cardinality(LivePairs)
    /\ conns <= MaxStreams

(***************************************************************************)
(* A pair joins a proxy's stream to an exit (ServeExit: an exit's own      *)
(* stream is never paired).                                                *)
(***************************************************************************)
PairsRunProxyToExit ==
    \A t \in LivePairs : /\ RoleOf[home[t]] = "proxy"
                         /\ RoleOf[exitOf[t]] = "exit-node"

(***************************************************************************)
(* ServeProxy looks the exit up and opens the stream in two steps.  A pair *)
(* whose exit is not the registered one, because it was replaced between   *)
(* the two or later, is on a session that is closed or that the successor  *)
(* is about to close: no pair outlives its exit's registration unnoticed.  *)
(***************************************************************************)
StalePairsDoomed ==
    \A t \in LivePairs :
        \/ Current("exit-node") = exitOf[t]
        \/ exitOf[t] \in closed
        \/ \E u \in Sessions : pc[u] = "replace" /\ prev[u] = exitOf[t]

(***************************************************************************)
(* Service.Run, lines 93-97: once closeAll has swept, every yamux session  *)
(* ever started is closed, so no session slips in behind the sweep and no  *)
(* serve loop stays parked in AcceptStream.                                *)
(***************************************************************************)
SweepIsComplete ==
    run \in {"cancel", "wait", "returned"} => Spawned \subseteq closed

(***************************************************************************)
(* When Run has returned the relay has let go of everything it kept per    *)
(* session: no serve goroutine, no registered role, no recorded session.   *)
(***************************************************************************)
ShutdownReleases ==
    run = "returned" =>
        /\ Serving = {}
        /\ sessions = {}
        /\ \A r \in Roles : Current(r) = NoSession

(***************************************************************************)
(* Refinement: the registry, the serveSession goroutines and the shutdown  *)
(* together implement RoleOwnership, its fairness included.                *)
(***************************************************************************)
Ownership == INSTANCE RoleOwnership
    WITH owner <- [r \in Roles |-> slots[r].mux],
         claimed <- {s \in Sessions : gen[s] # 0},
         ended <- closed

ImplementsOwnership == Ownership!OwnSpec

\* launch's watcher: a pair one of whose sessions ended, or whose service is
\* shutting down, is torn down and gives its slot back.
PairsTornDown ==
    \A t \in Streams :
        (phase[t] = "copying"
            /\ (home[t] \in closed \/ exitOf[t] \in closed \/ ctxDone))
        ~> phase[t] = "closed"

\* Run returns after its context is cancelled, if no client stays silent
\* after TLS.
ShutdownCompletes == parentDone ~> (run = "returned")

\* Every client whose connection is queued gets an answer or its connection
\* closed while the relay listens, if no client stays silent after TLS.
ClientsAnswered ==
    \A s \in Sessions :
        (dial[s] = "backlog") ~> (dial[s] \in {"dropped", "session"} \/ ~listening \/ accDone)
-----------------------------------------------------------------------------
(* The inductive invariant behind the safety properties above.             *)

(***************************************************************************)
(* What serveSession's program counter says about the rest of the state:   *)
(* a generation exists exactly after Register, a replacement has someone   *)
(* to close, and the deferred calls run on a closed session.               *)
(***************************************************************************)
SessionInv ==
    \A s \in Sessions :
        /\ gen[s] = 0 <=> pc[s] \in {"none", "register"}
        /\ pc[s] = "replace" => prev[s] \in Sessions
        /\ pc[s] \in {"vacate", "unlist", "done"} => s \in closed
        /\ pc[s] # "none" <=> dial[s] = "session"
        /\ s \in sessions <=> pc[s] \notin {"none", "done"}

\* A slot's session has the slot's role, and its goroutine has yet to vacate.
SlotInv ==
    \A r \in Roles :
        slots[r].mux # NoSession =>
            /\ RoleOf[slots[r].mux] = r
            /\ pc[slots[r].mux] \notin {"none", "register", "unlist", "done"}

\* The accept goroutine is over before closeAll starts, and holds nothing then.
AcceptInv ==
    /\ accDone => ~Handshaking
    /\ run \notin {"select", "join"} => accDone

(***************************************************************************)
(* The stream ServeProxy has in hand is its own and in no pair; the exit   *)
(* it looked up, and the exit of every pair, has been registered.          *)
(***************************************************************************)
StreamInv ==
    /\ \A s \in Sessions :
          /\ pc[s] \in {"lookup", "open"} =>
                /\ RoleOf[s] = "proxy"
                /\ cur[s] \in Streams
                /\ phase[cur[s]] = "accepted"
                /\ home[cur[s]] = s
          /\ pc[s] = "open" =>
                /\ snap[s] \in Sessions
                /\ RoleOf[snap[s]] = "exit-node"
                /\ gen[snap[s]] # 0
    /\ \A t \in Streams :
          phase[t] \in {"copying", "joining"} =>
                /\ home[t] \in Sessions
                /\ RoleOf[home[t]] = "proxy"
                /\ exitOf[t] \in Sessions
                /\ RoleOf[exitOf[t]] = "exit-node"
                /\ gen[exitOf[t]] # 0

\* The conjunction that the steps of the relay preserve.
RelayInv ==
    /\ TypeOK
    /\ SessionInv
    /\ SlotInv
    /\ GenerationsIdentify
    /\ NoOrphanedSession
    /\ AcceptInv
    /\ SweepIsComplete
    /\ ShutdownReleases
    /\ StreamInv
    /\ ConnsExact

=============================================================================
