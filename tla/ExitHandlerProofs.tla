-------------------------- MODULE ExitHandlerProofs --------------------------
(***************************************************************************)
(* Proofs about ExitHandler: for any number of streams, any set of         *)
(* addresses and any bound on lookups, the exit dials the address its      *)
(* policy let through and no other, payload is never under the setup       *)
(* deadline, and a handler that has ended has cleaned up behind it,        *)
(* whichever of its paths it took and whatever its watcher did meanwhile.  *)
(***************************************************************************)
EXTENDS ExitHandler, TLAPS

\* The kinds of addresses no case of policy.allowed refuses.
LetThrough == {"global", "special"}

\* The destination on its way to the dial: what follows the rule is an address,
\* what follows the policy one it let through; nothing is dialled before.
PolicyInv ==
    \A t \in Streams :
        /\ pc[t] = "rule" => dest[t] \in Addrs \cup {"notConnect"}
        /\ pc[t] = "connect" => dest[t] \in Addrs
        /\ pc[t] = "dial" => dest[t] \in LetThrough \cap Addrs
        /\ pc[t] \in {"idle", "negotiate", "resolve", "lookup", "rule", "connect", "dial"}
              => dialed[t] = "none"

\* A resolver has a lookup in flight exactly while its handler waits for it.
LimiterInv ==
    \A t \in Streams : limiter[t] = IF pc[t] = "lookup" THEN 1 ELSE 0

\* A target is open between the dial and the deferred close.
TargetInv ==
    \A t \in Streams :
        target[t] = "open" => pc[t] \in {"reply", "clear", "forward", "unwind"}

\* What has been done when the deferred calls are over.
EndInv ==
    \A t \in Streams :
        /\ pc[t] \in {"join", "done"} => t \in finned
        /\ pc[t] = "done" => watcher[t] = "gone"

HandlerInv ==
    /\ HandlerTypeOK
    /\ PolicyInv
    /\ DialedAllowed
    /\ PayloadUntimed
    /\ LimiterInv
    /\ TargetInv
    /\ EndInv

-----------------------------------------------------------------------------

\* What the policy lets through: public addresses and those it has no case for.
LEMMA AllowedKinds ==
    ASSUME NEW a \in Addrs, allowed(a)
    PROVE  a \in LetThrough
BY ExitHandlerAssumption DEF AddrKinds, allowed, LetThrough

\* HandlerInv holds before the first stream is served.
LEMMA HandlerInvInit == HandlerInit => HandlerInv
<1> SUFFICES ASSUME HandlerInit PROVE HandlerInv
  OBVIOUS
<1> USE DEF HandlerInit
<1>1. HandlerTypeOK
  <2>1. limiter \in [Streams -> 0..ResolveBound]
    BY ExitHandlerAssumption
  <2>2. /\ pc \in [Streams -> ServePCs]
        /\ expired \subseteq Streams
        /\ deadline \in [Streams -> {"none", "setup", "past"}]
        /\ finned \subseteq Streams
        /\ dest \in [Streams -> Requests \cup {"none"}]
        /\ dialed \in [Streams -> Addrs \cup {"none"}]
        /\ target \in [Streams -> {"none", "open", "closed"}]
        /\ watcher \in [Streams -> {"none", "watch", "close", "gone"}]
    BY DEF ServePCs
  <2> QED
    BY <2>1, <2>2, Zenon DEF HandlerTypeOK
<1>2. PolicyInv /\ DialedAllowed /\ PayloadUntimed /\ LimiterInv /\ TargetInv /\ EndInv
  BY DEF PolicyInv, DialedAllowed, PayloadUntimed, LimiterInv, TargetInv, EndInv
<1> QED
  BY <1>1, <1>2 DEF HandlerInv

\* Every step of a handler, a watcher, the clock or the session keeps HandlerInv.
LEMMA HandlerInvStep ==
    ASSUME HandlerInv, [HandlerNext]_handlerVars
    PROVE  HandlerInv'
<1> USE ExitHandlerAssumption
    DEF HandlerInv, HandlerTypeOK, PolicyInv, DialedAllowed, PayloadUntimed, LimiterInv,
        TargetInv, EndInv, ServePCs, SetupPCs, Goto
<1>1. CASE SessionEnds
  BY <1>1 DEF SessionEnds, serveVars
<1>2. ASSUME NEW t \in Streams, BudgetElapses(t) PROVE HandlerInv'
  BY <1>2 DEF BudgetElapses
<1>3. ASSUME NEW t \in Streams, WatcherInterrupts(t) PROVE HandlerInv'
  BY <1>3 DEF WatcherInterrupts
<1>4. ASSUME NEW t \in Streams, WatcherCloses(t) \/ WatcherStopped(t) PROVE HandlerInv'
  BY <1>4 DEF WatcherCloses, WatcherStopped, serveVars
<1>5. ASSUME NEW t \in Streams, ServeConn(t) PROVE HandlerInv'
  BY <1>5 DEF ServeConn, SetupBudget
<1>6. ASSUME NEW t \in Streams, Negotiated(t) PROVE HandlerInv'
  BY <1>6 DEF Negotiated, Requests
<1>7. ASSUME NEW t \in Streams, Resolve(t) PROVE HandlerInv'
  BY <1>7 DEF Resolve
<1>8. ASSUME NEW t \in Streams, lookup(t) PROVE HandlerInv'
  BY <1>8 DEF lookup, Requests
<1>9. ASSUME NEW t \in Streams, connectOnlyRule(t) PROVE HandlerInv'
  BY <1>9 DEF connectOnlyRule, Moves
<1>10. ASSUME NEW t \in Streams, CheckPolicy(t) PROVE HandlerInv'
  <2>1. CASE allowed(dest[t]) /\ Moves(t, "connect", "dial")
    <3>1. dest[t] \in LetThrough \cap Addrs
      BY <2>1, AllowedKinds DEF Moves
    <3> QED
      BY <2>1, <3>1 DEF Moves
  <2>2. CASE Moves(t, "connect", "refuse")
    BY <2>2 DEF Moves
  <2> QED
    BY <1>10, <2>1, <2>2 DEF CheckPolicy
<1>11. ASSUME NEW t \in Streams, DialOK(t) PROVE HandlerInv'
  <2>1. dest[t] \in {"global", "special"} /\ dest[t] \in Addrs
    BY <1>11 DEF DialOK, LetThrough
  <2> QED
    BY <1>11, <2>1 DEF DialOK, DialAddr
<1>12. ASSUME NEW t \in Streams, ClearDeadline(t) PROVE HandlerInv'
  BY <1>12 DEF ClearDeadline, BudgetDropped
<1>13. ASSUME NEW t \in Streams, forward(t) PROVE HandlerInv'
  BY <1>13 DEF forward
<1>14. ASSUME NEW t \in Streams, Unwind(t) PROVE HandlerInv'
  BY <1>14 DEF Unwind, TargetClosed
<1>15. ASSUME NEW t \in Streams,
              ResolveCancelled(t) \/ DialFails(t) \/ SendReply(t) \/ Failing(t) \/ Join(t)
       PROVE  HandlerInv'
  BY <1>15 DEF ResolveCancelled, DialFails, SendReply, Failing, NegotiationFails,
     SendReplyFails, Refused, Join, Moves
<1>16. CASE UNCHANGED handlerVars
  BY <1>16 DEF handlerVars, serveVars
<1> QED
  BY <1>1, <1>2, <1>3, <1>4, <1>5, <1>6, <1>7, <1>8, <1>9, <1>10, <1>11, <1>12, <1>13,
     <1>14, <1>15, <1>16
     DEF HandlerNext, ServeStep, Unwaiting, Watch

(***************************************************************************)
(* HandlerInv is inductive: handlers, watchers, timers and the session in  *)
(* any order.                                                              *)
(***************************************************************************)
THEOREM HandlerInvariant == HandlerSafety => []HandlerInv
BY HandlerInvInit, HandlerInvStep, PTL DEF HandlerSafety

(***************************************************************************)
(* The exit connects only to what policy.allowed lets through, whatever    *)
(* the resolver answers: handleConnect dials the address its policy        *)
(* judged.  The kinds let through include some that are not public.        *)
(***************************************************************************)
THEOREM DialTheorem == HandlerSafety => []DialedAllowed
<1>1. HandlerInv => DialedAllowed
  BY DEF HandlerInv
<1> QED
  BY <1>1, HandlerInvariant, PTL

\* Payload is copied under a deadline only once the session is over.
THEOREM PayloadTheorem == HandlerSafety => []PayloadUntimed
<1>1. HandlerInv => PayloadUntimed
  BY DEF HandlerInv
<1> QED
  BY <1>1, HandlerInvariant, PTL

\* However ServeConn ends: target closed, FIN sent, resolver idle, watcher gone.
THEOREM CleanupTheorem == HandlerSafety => []NothingLeftBehind
<1>1. HandlerInv => NothingLeftBehind
  BY DEF HandlerInv, TargetInv, LimiterInv, EndInv, NothingLeftBehind
<1> QED
  BY <1>1, HandlerInvariant, PTL
=============================================================================
