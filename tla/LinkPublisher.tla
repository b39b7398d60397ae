---------------------------- MODULE LinkPublisher ----------------------------
(***************************************************************************)
(* What a Connector promises the servers that ride it (the proxy listener, *)
(* the exit broker), without dialling, backoff or goroutines: it publishes *)
(* one link at a time, each only after every earlier session has ended;    *)
(* the end of a session ends the link's context; a link is withdrawn once  *)
(* its context is done; and it stops when it is told to.                   *)
(***************************************************************************)
EXTENDS Naturals

CONSTANT MaxLinks     \* bound: links published in a behaviour

ASSUME MaxLinksAssumption == MaxLinks \in Nat

Links == 1..MaxLinks

VARIABLES
    published,   \* the link Snapshot returns, 0 for none
    count,       \* links published so far
    over,        \* links whose session has ended
    ctxOver,     \* links whose own context has been cancelled
    stop,        \* the process context is done
    quit         \* Connector.Run has returned

pubVars == <<published, count, over, ctxOver, stop, quit>>

\* LinkedSession.Ctx, which derives from the process context.
CtxDone(n) == n \in ctxOver \/ stop

PubInit ==
    /\ published = 0
    /\ count = 0
    /\ over = {}
    /\ ctxOver = {}
    /\ stop = FALSE
    /\ quit = FALSE

EarlierOver == published = 0 /\ 1..count \subseteq over

\* A session may already have ended, and even its context, when it is published.
Publish ==
    /\ ~quit
    /\ EarlierOver
    /\ count < MaxLinks
    /\ count' = count + 1
    /\ published' = count'
    /\ over' \in {over, over \cup {count'}}
    /\ ctxOver' \in {ctxOver} \cup (IF count' \in over' THEN {ctxOver \cup {count'}} ELSE {})
    /\ UNCHANGED <<stop, quit>>

SessionEnds(n) ==
    /\ n \in 1..count \ over
    /\ over' = over \cup {n}
    /\ UNCHANGED <<published, count, ctxOver, stop, quit>>

CtxEnds(n) ==
    /\ n \in over \ ctxOver
    /\ ctxOver' = ctxOver \cup {n}
    /\ UNCHANGED <<published, count, over, stop, quit>>

Withdraw ==
    /\ ~quit
    /\ published # 0
    /\ CtxDone(published)
    /\ published' = 0
    /\ UNCHANGED <<count, over, ctxOver, stop, quit>>

Stop ==
    /\ ~stop
    /\ stop' = TRUE
    /\ UNCHANGED <<published, count, over, ctxOver, quit>>

\* Run returns: out of a wait, or out of a session it closes first, which then
\* stays published.
Quit ==
    /\ stop
    /\ ~quit
    /\ quit' = TRUE
    /\ \/ published = 0 /\ UNCHANGED <<over, ctxOver>>
       \/ /\ published # 0
          /\ over' = over \cup {published}
          /\ ctxOver' = ctxOver \cup {published}
    /\ UNCHANGED <<published, count, stop>>

PubNext ==
    \/ Publish \/ Withdraw \/ Stop \/ Quit
    \/ \E n \in Links : SessionEnds(n) \/ CtxEnds(n)

PubSafety == PubInit /\ [][PubNext]_pubVars

\* Nothing promises another link: the relay may refuse for ever.  Once the
\* process is stopped every link's context is done anyway.
PubFairness ==
    /\ WF_pubVars(Withdraw)
    /\ WF_pubVars(Quit)
    /\ \A n \in Links : WF_pubVars(~stop /\ CtxEnds(n))

PubSpec == PubSafety /\ PubFairness
=============================================================================
