----------------------------- MODULE ExitHandler -----------------------------
(***************************************************************************)
(* internal/exit/handler.go with resolver.go and access.go: the goroutine  *)
(* that serves one stream of the relay at the exit, from the SOCKS         *)
(* negotiation over lookup, policy and dial to the copy of the payload,    *)
(* and the goroutine that watches the session for it.  go-socks5's         *)
(* ServeConn is reduced to the calls it makes, in their order; the copy is *)
(* the promise Duplex keeps.                                               *)
(*                                                                         *)
(* All streams ride one session.  A stream's deadline and the setup        *)
(* context, armed one after the other with the same duration, expire       *)
(* together.                                                               *)
(***************************************************************************)
EXTENDS Naturals, FiniteSets

CONSTANTS
    Streams,        \* streams the broker serves
    Addrs,          \* the kinds of addresses a request or a resolver may name
    ResolveBound    \* Options.ResolveBound

\* The kinds policy.allowed tells apart, and one more that it does not: "special"
\* is an address outside the public Internet that no case of it names (100.64/10,
\* the rest of 0/8, 192.0.2/24, 240/4, NAT64 and the like).
AddrKinds == {"global", "special", "loopback", "private", "linkLocal", "linkLocalMulticast",
              "interfaceLocalMulticast", "multicast", "unspecified", "broadcast"}

ASSUME ExitHandlerAssumption == Addrs \subseteq AddrKinds /\ ResolveBound \in Nat \ {0}

VARIABLES
    over,       \* sessionCtx is done
    pc,         \* per stream: where ServeConn is
    expired,    \* streams whose setup budget has elapsed
    deadline,   \* per stream: the deadline on the relay's stream
    finned,     \* streams on which Close, a write-side FIN, was called
    limiter,    \* per stream: lookups its own resolver has in flight
    dest,       \* per stream: the destination asked for, then its address
    dialed,     \* per stream: the address the target was dialled at
    target,     \* per stream: the destination socket
    watcher     \* per stream: the goroutine that watches sessionCtx

serveVars == <<pc, expired, deadline, finned, limiter, dest, dialed, target>>
handlerVars == <<over, serveVars, watcher>>

SetupPCs == {"negotiate", "resolve", "lookup", "rule", "connect", "dial", "reply",
             "refuse", "clear"}
ServePCs == SetupPCs \cup {"idle", "forward", "unwind", "join", "done"}

\* Beside addresses, a request may carry a name, another command, or both.
Requests == Addrs \cup {"name", "notConnect", "notConnectName"}

HandlerInit ==
    /\ over = FALSE
    /\ pc = [t \in Streams |-> "idle"]
    /\ expired = {}
    /\ deadline = [t \in Streams |-> "none"]
    /\ finned = {}
    /\ limiter = [t \in Streams |-> 0]
    /\ dest = [t \in Streams |-> "none"]
    /\ dialed = [t \in Streams |-> "none"]
    /\ target = [t \in Streams |-> "none"]
    /\ watcher = [t \in Streams |-> "none"]

\* setupCtx, which derives from sessionCtx.
SetupOver(t) == t \in expired \/ over

\* A read or a write on the relay's stream returns with an error.
Interrupted(t) == deadline[t] = "past" \/ (deadline[t] = "setup" /\ t \in expired)

Goto(t, to) == pc' = [pc EXCEPT ![t] = to]

\* A step of ServeConn that only moves it on.
Moves(t, from, to) ==
    /\ pc[t] = from
    /\ Goto(t, to)
    /\ UNCHANGED <<over, expired, deadline, finned, limiter, dest, dialed, target, watcher>>

-----------------------------------------------------------------------------
(* The session, the clock and the watcher.                                 *)

SessionEnds ==
    /\ ~over
    /\ over' = TRUE
    /\ UNCHANGED <<serveVars, watcher>>

BudgetElapses(t) ==
    /\ pc[t] \notin {"idle", "done"}
    /\ t \notin expired
    /\ expired' = expired \cup {t}
    /\ UNCHANGED <<over, pc, deadline, finned, limiter, dest, dialed, target, watcher>>

\* The past deadline that unblocks reads, which Close does not.
WatcherInterrupts(t) ==
    /\ watcher[t] = "watch"
    /\ over
    /\ deadline' = [deadline EXCEPT ![t] = "past"]
    /\ watcher' = [watcher EXCEPT ![t] = "close"]
    /\ UNCHANGED <<over, pc, expired, finned, limiter, dest, dialed, target>>

WatcherCloses(t) ==
    /\ watcher[t] = "close"
    /\ finned' = finned \cup {t}
    /\ watcher' = [watcher EXCEPT ![t] = "gone"]
    /\ UNCHANGED <<over, pc, expired, deadline, limiter, dest, dialed, target>>

\* ServeConn closed the stop channel.
WatcherStopped(t) ==
    /\ watcher[t] = "watch"
    /\ pc[t] = "join"
    /\ watcher' = [watcher EXCEPT ![t] = "gone"]
    /\ UNCHANGED <<over, serveVars>>

Watch(t) == WatcherInterrupts(t) \/ WatcherCloses(t) \/ WatcherStopped(t)

-----------------------------------------------------------------------------
(* ServeConn up to the connect handler.                                    *)

\* A handler that bounds its own calls and not the client's bytes.
NoBudget == "none"

SetupBudget == "setup"

ServeConn(t) ==
    /\ pc[t] = "idle"
    /\ deadline' = [deadline EXCEPT ![t] = SetupBudget]
    /\ watcher' = [watcher EXCEPT ![t] = "watch"]
    /\ Goto(t, "negotiate")
    /\ UNCHANGED <<over, expired, finned, limiter, dest, dialed, target>>

\* External: go-socks5 reads the greeting and the request, and resolves a name
\* whatever the command.
Negotiated(t) ==
    /\ pc[t] = "negotiate"
    /\ ~Interrupted(t)
    /\ \E r \in Requests :
        /\ dest' = [dest EXCEPT ![t] = r]
        /\ Goto(t, IF r \in {"name", "notConnectName"} THEN "resolve" ELSE "rule")
    /\ UNCHANGED <<over, expired, deadline, finned, limiter, dialed, target, watcher>>

NegotiationFails(t) == Moves(t, "negotiate", "unwind")

\* Resolve: the check of the base context, then the limiter, which belongs to
\* this stream's resolver.
Resolve(t) ==
    /\ pc[t] = "resolve"
    /\ ~SetupOver(t)
    /\ limiter[t] < ResolveBound
    /\ limiter' = [limiter EXCEPT ![t] = @ + 1]
    /\ Goto(t, "lookup")
    /\ UNCHANGED <<over, expired, deadline, finned, dest, dialed, target, watcher>>

ResolveCancelled(t) == SetupOver(t) /\ Moves(t, "resolve", "refuse")

\* LookupIPAddr under the lookup's timeout: an address, or an error.
lookup(t) ==
    /\ pc[t] = "lookup"
    /\ limiter' = [limiter EXCEPT ![t] = @ - 1]
    /\ \/ /\ \E a \in Addrs :
                dest' = [dest EXCEPT ![t] = IF @ = "name" THEN a ELSE "notConnect"]
          /\ Goto(t, "rule")
       \/ /\ Goto(t, "refuse")
          /\ UNCHANGED dest
    /\ UNCHANGED <<over, expired, deadline, finned, dialed, target, watcher>>

connectOnlyRule(t) ==
    \/ dest[t] = "notConnect" /\ Moves(t, "rule", "refuse")
    \/ dest[t] # "notConnect" /\ Moves(t, "rule", "connect")

\* SendReply of a refusal ends, written or not.
Refused(t) == Moves(t, "refuse", "unwind")

-----------------------------------------------------------------------------
(* handleConnect.                                                          *)

\* policy.allowed on the kind of the address, an IPv4-mapped one having that of
\* its IPv4 address; allowLoopback is for tests.
allowed(a) ==
    a \notin {"loopback", "private", "linkLocal", "linkLocalMulticast",
              "interfaceLocalMulticast", "multicast", "unspecified", "broadcast"}

CheckPolicy(t) ==
    \/ allowed(dest[t]) /\ Moves(t, "connect", "dial")
    \/ ~allowed(dest[t]) /\ Moves(t, "connect", "refuse")

\* A dial by name, which resolves again.
DialName(t) == Addrs

\* The address that DialContext is given.
DialAddr(t) == {dest[t]}

DialOK(t) ==
    /\ pc[t] = "dial"
    /\ \E a \in DialAddr(t) : dialed' = [dialed EXCEPT ![t] = a]
    /\ target' = [target EXCEPT ![t] = "open"]
    /\ Goto(t, "reply")
    /\ UNCHANGED <<over, expired, deadline, finned, limiter, dest, watcher>>

\* The dial's own timeout, the setup context or the network.
DialFails(t) == Moves(t, "dial", "refuse")

SendReply(t) == ~Interrupted(t) /\ Moves(t, "reply", "clear")
SendReplyFails(t) == Moves(t, "reply", "unwind")

\* A handler that leaves the setup deadline on the stream.
BudgetKept(t) == deadline[t]

BudgetDropped(t) == "none"

\* SetDeadline(time.Time{}), perhaps on top of the watcher's past deadline.  It
\* does not fail on a yamux stream.
ClearDeadline(t) ==
    /\ pc[t] = "clear"
    /\ deadline' = [deadline EXCEPT ![t] = BudgetDropped(t)]
    /\ Goto(t, "forward")
    /\ UNCHANGED <<over, expired, finned, limiter, dest, dialed, target, watcher>>

\* A copy that relies on the watcher and its deadline alone.
CopyUnderDeadline(t) == Interrupted(t)

\* The context Duplex.Run is given is done.
CopyCancelled(t) == over

\* forward returns; Duplex has closed both ends.
forward(t) ==
    /\ pc[t] = "forward"
    /\ deadline' = [deadline EXCEPT ![t] = "past"]
    /\ finned' = finned \cup {t}
    /\ target' = [target EXCEPT ![t] = "closed"]
    /\ Goto(t, "unwind")
    /\ UNCHANGED <<over, expired, limiter, dest, dialed, watcher>>

\* A handler that closes its target after forward only.
TargetLeft(t) == target

\* The deferred target.Close of handleConnect.
TargetClosed(t) ==
    [target EXCEPT ![t] = IF @ = "open" THEN "closed" ELSE @]

\* The deferred calls: target.Close, go-socks5's conn.Close, close(stop).
Unwind(t) ==
    /\ pc[t] = "unwind"
    /\ target' = TargetClosed(t)
    /\ finned' = finned \cup {t}
    /\ Goto(t, "join")
    /\ UNCHANGED <<over, expired, deadline, limiter, dest, dialed, watcher>>

Join(t) == watcher[t] = "gone" /\ Moves(t, "join", "done")

-----------------------------------------------------------------------------
(* The specification.                                                      *)

\* The steps that wait for nobody, or not past a timeout of their own.
Unwaiting(t) ==
    \/ Resolve(t) \/ ResolveCancelled(t) \/ lookup(t) \/ connectOnlyRule(t)
    \/ CheckPolicy(t) \/ DialOK(t) \/ DialFails(t) \/ ClearDeadline(t)
    \/ Unwind(t) \/ Join(t)

\* The steps a read or a write error lets through.
Failing(t) == NegotiationFails(t) \/ SendReplyFails(t) \/ Refused(t)

ServeStep(t) ==
    \/ ServeConn(t) \/ Negotiated(t) \/ SendReply(t) \/ forward(t)
    \/ Unwaiting(t) \/ Failing(t)

HandlerNext ==
    \/ SessionEnds
    \/ \E t \in Streams : ServeStep(t) \/ Watch(t) \/ BudgetElapses(t)

HandlerSafety == HandlerInit /\ [][HandlerNext]_handlerVars

\* Goroutines are scheduled and time passes.  The relay's side may stay silent
\* for ever, and the session may last for ever.
HandlerSpec ==
    /\ HandlerSafety
    /\ \A t \in Streams :
        /\ WF_handlerVars(Unwaiting(t))
        /\ WF_handlerVars(Watch(t))
        /\ WF_handlerVars(BudgetElapses(t))
        /\ WF_handlerVars(Interrupted(t) /\ Failing(t))
        /\ WF_handlerVars(CopyCancelled(t) /\ forward(t))

-----------------------------------------------------------------------------
(* Properties.                                                             *)

\* Every variable has its type.
HandlerTypeOK ==
    /\ over \in BOOLEAN
    /\ pc \in [Streams -> ServePCs]
    /\ expired \subseteq Streams
    /\ deadline \in [Streams -> {"none", "setup", "past"}]
    /\ finned \subseteq Streams
    /\ limiter \in [Streams -> 0..ResolveBound]
    /\ dest \in [Streams -> Requests \cup {"none"}]
    /\ dialed \in [Streams -> Addrs \cup {"none"}]
    /\ target \in [Streams -> {"none", "open", "closed"}]
    /\ watcher \in [Streams -> {"none", "watch", "close", "gone"}]

(***************************************************************************)
(* What the exit connects to is an address that policy.allowed has let     *)
(* through, not a second answer of the resolver: never one of the kinds    *)
(* access.go:6-7 says it refuses ("Resolve once and validate the actual IP *)
(* before dialing", spc/plan.md:190).  That only public addresses are      *)
(* dialled does not hold: "special" ones are.                              *)
(***************************************************************************)
DialedAllowed ==
    \A t \in Streams :
        dialed[t] # "none" => dialed[t] = dest[t] /\ dialed[t] \in {"global", "special"}

(***************************************************************************)
(* "it is never truncated by a short setup deadline" (handler.go:198): the *)
(* stream carries payload under a deadline only once the session is over.  *)
(***************************************************************************)
PayloadUntimed ==
    \A t \in Streams : pc[t] = "forward" /\ deadline[t] # "none" => over

(***************************************************************************)
(* Whatever way ServeConn ends, its target is closed, its stream has got   *)
(* its FIN, its resolver is idle and its watcher is gone.                  *)
(***************************************************************************)
NothingLeftBehind ==
    \A t \in Streams : pc[t] = "done" =>
        /\ target[t] # "open"
        /\ t \in finned
        /\ limiter[t] = 0
        /\ watcher[t] = "gone"

(***************************************************************************)
(* "SetupTimeout bounds the whole SOCKS setup" (handler.go:28): from every *)
(* step of it the handler comes to the payload or to its end, whatever the *)
(* client, the resolver and the destination do.                            *)
(***************************************************************************)
SetupBounded ==
    \A t \in Streams : (pc[t] \in SetupPCs) ~> (pc[t] \in {"forward", "done"})

(***************************************************************************)
(* A handler ends after its session, also when the end comes between the   *)
(* dial and the lifting of the deadline, which erases the deadline with    *)
(* which the watcher meant to interrupt the stream.  This is the fairness  *)
(* ExitNode assumes of HandlerEnds.                                        *)
(***************************************************************************)
HandlersEndWithSession ==
    \A t \in Streams : (over /\ pc[t] # "idle") ~> (pc[t] = "done")

-----------------------------------------------------------------------------
(* What the documentation says and the code does not guarantee.            *)

\* "ResolveBound caps concurrent lookups" (handler.go:36).
LookupsBounded == Cardinality({t \in Streams : pc[t] = "lookup"}) <= ResolveBound
=============================================================================
