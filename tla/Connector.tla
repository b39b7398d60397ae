------------------------------ MODULE Connector ------------------------------
(***************************************************************************)
(* internal/transport/connector.go with the parts of session.go and        *)
(* authenticator.go it drives: the reconnect loop of a client, the session *)
(* it publishes, and the two goroutines every session brings, one that     *)
(* mirrors the end of the yamux session into Session.Done (newSession) and *)
(* one that turns Session.Done into the end of the link (connect).         *)
(*                                                                         *)
(* Sessions and their links are numbered in the order they are made; 0 is  *)
(* the nil link.  Durations are numbers; the time a wait takes is left     *)
(* open.                                                                   *)
(***************************************************************************)
EXTENDS Naturals

CONSTANTS
    MaxLinks,      \* bound: sessions the relay grants in a behaviour
    MinBackoff,    \* Timing.MinBackoff
    MaxBackoff     \* Timing.MaxBackoff

\* Timing.validate: positive, and the floor at or below the ceiling.
ASSUME ConnectorAssumption ==
    /\ MaxLinks \in Nat
    /\ MinBackoff \in Nat \ {0}
    /\ MaxBackoff \in Nat
    /\ MinBackoff <= MaxBackoff

Links == 1..MaxLinks

VARIABLES
    parentDone,    \* the context given to Run is done
    run,           \* where Run is
    backoff,       \* Run's backoff
    made,          \* the number of the newest session; the link in Run's hand
    current,       \* Connector.current
    healthy,       \* the newest session has been up for HealthyWindow
    muxClosed,     \* sessions whose yamux session has shut down (CloseChan)
    closing,       \* sessions whose Done channel is closed
    mirroring,     \* sessions whose newSession goroutine runs
    linkCancelled, \* links on which cancel has been called
    watching,      \* links whose connect goroutine runs
    done           \* links whose done channel is closed

linkVars == <<muxClosed, closing, mirroring, linkCancelled, watching, done>>
connVars == <<parentDone, run, backoff, made, current, healthy, linkVars>>

ConnRunPCs == {"dial", "exchange", "store", "serve", "clear", "wait", "returned"}

\* LinkedSession.Ctx, derived from the parent, is done.
LinkDone(n) == n \in linkCancelled \/ parentDone

ConnInit ==
    /\ parentDone = FALSE
    /\ run = "dial"
    /\ backoff = MinBackoff
    /\ made = 0
    /\ current = 0
    /\ healthy = FALSE
    /\ muxClosed = {}
    /\ closing = {}
    /\ mirroring = {}
    /\ linkCancelled = {}
    /\ watching = {}
    /\ done = {}

-----------------------------------------------------------------------------
(* The caller, the relay and time.                                         *)

CancelParent ==
    /\ ~parentDone
    /\ parentDone' = TRUE
    /\ UNCHANGED <<run, backoff, made, current, healthy, linkVars>>

\* External: the peer, the network or the keepalive ends the yamux session.
MuxDies(n) ==
    /\ n \in 1..made
    /\ n \notin muxClosed
    /\ muxClosed' = muxClosed \cup {n}
    /\ UNCHANGED <<parentDone, run, backoff, made, current, healthy, closing,
                   mirroring, linkCancelled, watching, done>>

\* HealthySince becomes true of the newest session.
Matures ==
    /\ run \in {"store", "serve", "clear"}
    /\ ~healthy
    /\ healthy' = TRUE
    /\ UNCHANGED <<parentDone, run, backoff, made, current, linkVars>>

-----------------------------------------------------------------------------
(* The goroutines of a session.                                            *)

\* newSession: CloseChan closes Done.
Mirror(n) ==
    /\ n \in mirroring
    /\ n \in muxClosed
    /\ mirroring' = mirroring \ {n}
    /\ closing' = closing \cup {n}
    /\ UNCHANGED <<parentDone, run, backoff, made, current, healthy, muxClosed,
                   linkCancelled, watching, done>>

\* A watcher that forgets to cancel the link.
CancelForgotten(n) == linkCancelled

cancel(n) == linkCancelled \cup {n}

CloseDone(n) == done \cup {n}

\* connect: Done cancels the link's context, and either closes done.
Watch(n) ==
    /\ n \in watching
    /\ \/ n \in closing /\ linkCancelled' = cancel(n)
       \/ LinkDone(n) /\ UNCHANGED linkCancelled
    /\ watching' = watching \ {n}
    /\ done' = CloseDone(n)
    /\ UNCHANGED <<parentDone, run, backoff, made, current, healthy, muxClosed,
                   closing, mirroring>>

-----------------------------------------------------------------------------
(* Connector.Run.                                                          *)

\* A dial that does not look at the context.
DialDeaf == TRUE

MayDial == ~parentDone

\* dialTLS succeeds; it runs under the parent context.
DialOK ==
    /\ run = "dial"
    /\ MayDial
    /\ run' = "exchange"
    /\ UNCHANGED <<parentDone, backoff, made, current, healthy, linkVars>>

\* exchange, which ignores the context, succeeds; the mux, the session and
\* the link are made, with their goroutines.
ExchangeOK ==
    /\ run = "exchange"
    /\ made < MaxLinks
    /\ made' = made + 1
    /\ healthy' = FALSE
    /\ mirroring' = mirroring \cup {made'}
    /\ watching' = watching \cup {made'}
    /\ run' = "store"
    /\ UNCHANGED <<parentDone, backoff, current, muxClosed, closing,
                   linkCancelled, done>>

\* authenticate fails.  No failure it returns wraps context.Canceled, so a
\* cancelled dial goes through waitBackoff like any other.
ConnectFails ==
    /\ run \in {"dial", "exchange"}
    /\ run' = "wait"
    /\ UNCHANGED <<parentDone, backoff, made, current, healthy, linkVars>>

Store ==
    /\ run = "store"
    /\ current' = made
    /\ run' = "serve"
    /\ UNCHANGED <<parentDone, backoff, made, healthy, linkVars>>

\* serve returns nil.
ServeEnded ==
    /\ run = "serve"
    /\ made \in done
    /\ run' = "clear"
    /\ UNCHANGED <<parentDone, backoff, made, current, healthy, linkVars>>

\* serve sees the parent done: Session.Close, link.cancel, and Run returns.
ServeCancelled ==
    /\ run = "serve"
    /\ parentDone
    /\ closing' = closing \cup {made}
    /\ muxClosed' = muxClosed \cup {made}
    /\ linkCancelled' = cancel(made)
    /\ run' = "returned"
    /\ UNCHANGED <<parentDone, backoff, made, current, healthy, mirroring,
                   watching, done>>

Cleared == IF current = made THEN 0 ELSE current

\* clearIf(link), then the reset of the backoff after a healthy session.
clearIf ==
    /\ run = "clear"
    /\ current' = Cleared
    /\ backoff' = IF healthy THEN MinBackoff ELSE backoff
    /\ run' = "dial"
    /\ UNCHANGED <<parentDone, made, healthy, linkVars>>

\* A backoff that doubles past its ceiling.
DoubledUncapped == backoff * 2

Doubled == IF backoff * 2 < MaxBackoff THEN backoff * 2 ELSE MaxBackoff

\* waitBackoff's timer fires; the backoff doubles up to the ceiling.
WaitExpires ==
    /\ run = "wait"
    /\ backoff' = Doubled
    /\ run' = "dial"
    /\ UNCHANGED <<parentDone, made, current, healthy, linkVars>>

\* waitBackoff without its context: a cancelled wait goes on.
WaitDeaf == FALSE

\* waitBackoff sees the parent done.
WaitCancelled ==
    /\ run = "wait"
    /\ parentDone
    /\ run' = "returned"
    /\ UNCHANGED <<parentDone, backoff, made, current, healthy, linkVars>>

ConnectorStep ==
    \/ DialOK \/ ExchangeOK \/ ConnectFails \/ Store
    \/ ServeEnded \/ ServeCancelled \/ clearIf \/ WaitExpires \/ WaitCancelled

ConnectorNext ==
    \/ CancelParent \/ Matures \/ ConnectorStep
    \/ \E n \in Links : MuxDies(n) \/ Mirror(n) \/ Watch(n)

ConnectorSpec == ConnInit /\ [][ConnectorNext]_connVars

(***************************************************************************)
(* Goroutines are scheduled, a dial or an exchange ends one way or the     *)
(* other, timers fire.  A wait that can be cancelled is cancelled at the   *)
(* latest when it comes round again: Go's select picks a ready case at     *)
(* random, so it does not pick the timer for ever (strong fairness).       *)
(***************************************************************************)
ConnectorFairness ==
    /\ WF_connVars(ConnectorStep)
    /\ SF_connVars(WaitCancelled)
    /\ \A n \in Links : WF_connVars(Mirror(n)) /\ WF_connVars(Watch(n))

ConnectorFairSpec == ConnectorSpec /\ ConnectorFairness

-----------------------------------------------------------------------------
(* Properties.                                                             *)

\* Every variable has its type; the backoff stays between floor and ceiling.
ConnTypeOK ==
    /\ parentDone \in BOOLEAN
    /\ run \in ConnRunPCs
    /\ backoff \in MinBackoff..MaxBackoff
    /\ made \in 0..MaxLinks
    /\ current \in 0..made
    /\ healthy \in BOOLEAN
    /\ muxClosed \subseteq 1..made
    /\ closing \subseteq 1..made
    /\ mirroring \subseteq 1..made
    /\ linkCancelled \subseteq 1..made
    /\ watching \subseteq 1..made
    /\ done \subseteq 1..made

(***************************************************************************)
(* A client never has two open sessions: when a session is made, every     *)
(* earlier one has shut down, although the loop learns of the end of a     *)
(* session through two other goroutines and their channels.                *)
(***************************************************************************)
OneOpenSession == \A n \in 1..made : n \notin muxClosed => n = made

-----------------------------------------------------------------------------
(* The abstract promise.                                                   *)

\* A link counts from the moment it is stored, not from its handshake.
Stored == IF run = "store" THEN made - 1 ELSE made

Publisher == INSTANCE LinkPublisher WITH
    published <- current,
    count <- Stored,
    over <- muxClosed \cap 1..Stored,
    ctxOver <- linkCancelled \cap 1..Stored,
    stop <- parentDone,
    quit <- run = "returned"

(***************************************************************************)
(* The reconnect loop and its goroutines, with whatever the servers do to  *)
(* the sessions, keep the promise of LinkPublisher, its liveness included. *)
(***************************************************************************)
ImplementsPublisher == Publisher!PubSpec
=============================================================================
