------------------------------ MODULE Handshake ------------------------------
(***************************************************************************)
(* One connection from TLS to yamux, both ends of it: the client's dialTLS *)
(* and exchange (authenticator.go), the relay's listenTLS, handshake and   *)
(* verify (handshake.go), with the frames of framing.go and the records of *)
(* records.go.  TLS and TCP are external: two ordered channels of cells, a *)
(* cell being a frame's header, a frame's body or a piece of the mux's     *)
(* traffic.                                                                *)
(*                                                                         *)
(* An end may be another program, say of another version of the protocol:  *)
(* it writes one frame, perhaps one this program would not write, or the   *)
(* header alone, and hangs up.                                             *)
(***************************************************************************)
EXTENDS Naturals, Sequences

CONSTANTS
    Bearers,     \* contents a token file may have, but for the empty one
    Long,        \* bearers whose hello is longer than maxFrameBytes
    Carried,     \* what json.Marshal and Unmarshal make of a bearer, as a function
    MaxMux       \* bound: cells of mux traffic each end sends

ASSUME HandshakeAssumption ==
    Long \subseteq Bearers /\ Carried \in [Bearers -> Bearers] /\ MaxMux \in Nat

Tokens == Bearers \cup {"empty"}
Roles == {"exit", "proxy"}
helloVersion == 1

Hello(v, r, t) == [kind |-> "body", what |-> "hello", version |-> v, role |-> r, token |-> t]
Response(v, s) == [kind |-> "body", what |-> "response", version |-> v, status |-> s]
Garbage == [kind |-> "body", what |-> "garbage"]
Header(fits) == [kind |-> "header", fits |-> fits]
MuxCell == [kind |-> "mux"]

\* What another program may send for a record.
OtherHellos == {Garbage, Hello(2, "exit", "empty"), Hello(1, "relay", "empty")}
OtherResponses == {Garbage, Response(2, "ok"), Response(1, "maybe")} \cup
                  {Response(1, s) : s \in {"ok", "error"}}

VARIABLES
    expected,    \* Verifier.ExpectedExits
    me,          \* the role and the token of the client
    other,       \* the ends that are other programs, at most one
    client,      \* where the client's authenticate is
    relay,       \* where the relay's handshake is
    failure,     \* the error the client's exchange returned
    verdict,     \* the status of the response the relay writes
    clientTimer, \* a deadline is armed on the client's connection
    relayTimer,  \* a deadline is armed on the relay's connection
    toRelay,     \* cells on the way to the relay
    toClient,    \* cells on the way to the client
    hungUp,      \* the ends that closed the connection
    muxSent,     \* per end: cells of mux traffic it has sent
    disturbed    \* a timeout or a failure of the network has struck

handVars == <<expected, me, other, client, relay, failure, verdict, clientTimer,
              relayTimer, toRelay, toClient, hungUp, muxSent, disturbed>>

Ends == {"client", "relay"}
ClientPCs == {"tls", "sendHeader", "sendBody", "readHeader", "readBody", "judge", "mux",
              "failed"}
RelayPCs == {"tls", "readHeader", "readBody", "replyHeader", "replyBody", "mux",
             "failed"}

HandInit ==
    /\ expected \in [Roles -> Tokens]
    /\ me \in [role : Roles, token : Tokens]
    /\ other \in {{}, {"client"}, {"relay"}}
    /\ client = "tls"
    /\ relay = "tls"
    /\ failure = "none"
    /\ verdict = "none"
    /\ clientTimer = TRUE
    /\ relayTimer = TRUE
    /\ toRelay = <<>>
    /\ toClient = <<>>
    /\ hungUp = {}
    /\ muxSent = [e \in Ends |-> 0]
    /\ disturbed = FALSE

fixed == <<expected, me, other>>

\* validateHello: the version and the role of a record that parsed.
validateHello(h) ==
    /\ h.what = "hello"
    /\ h.version = helloVersion
    /\ h.role \in Roles

\* A verifier that compares and nothing more.
verifyByComparison(r, t) == t = expected[r]

\* Verifier.verify: a known role, a bearer that is not empty and is the right one.
verify(r, t) == r \in DOMAIN expected /\ t # "empty" /\ t = expected[r]

\* validateResponse.
validateResponse(r) ==
    /\ r.what = "response"
    /\ r.version = helloVersion
    /\ r.status \in {"ok", "error"}

-----------------------------------------------------------------------------
(* TLS.                                                                    *)

\* External: the TLS handshake completes; each end clears its deadline.
TLSDone ==
    /\ client = "tls" /\ relay = "tls"
    /\ client' = "sendHeader" /\ relay' = "readHeader"
    /\ clientTimer' = FALSE
    /\ relayTimer' = FALSE
    /\ UNCHANGED <<fixed, failure, verdict, toRelay, toClient, hungUp, muxSent, disturbed>>

-----------------------------------------------------------------------------
(* The client: exchange and authenticate.                                  *)

clientOnly == <<fixed, relay, verdict, relayTimer, muxSent>>

\* An exchange that trusts its context to end it.
NoSetupDeadline == FALSE

SetupDeadline == TRUE

\* The client's hello is within the limit, which its reader applies.
Fits == me.token \notin Long

\* The client's bearer as JSON carries it: bytes that are not UTF-8 do not
\* arrive as they were.
Presented == IF me.token \in Bearers THEN Carried[me.token] ELSE me.token

\* The setup deadline, then writeFrame's header: any length is written.
SendHeader ==
    /\ client = "sendHeader"
    /\ "client" \notin other
    /\ clientTimer' = SetupDeadline
    /\ toRelay' = Append(toRelay, Header(Fits))
    /\ client' = "sendBody"
    /\ UNCHANGED <<clientOnly, failure, toClient, hungUp, disturbed>>

SendBody ==
    /\ client = "sendBody"
    /\ toRelay' = Append(toRelay, Hello(helloVersion, me.role, Presented))
    /\ client' = "readHeader"
    /\ UNCHANGED <<clientOnly, failure, clientTimer, toClient, hungUp, disturbed>>

\* authenticate closes the connection on whatever error exchange returns.
Fails(error) ==
    /\ client' = "failed"
    /\ failure' = error
    /\ hungUp' = hungUp \cup {"client"}

ReadHeader ==
    /\ client = "readHeader"
    /\ toClient # <<>>
    /\ toClient' = Tail(toClient)
    /\ \/ /\ Head(toClient) = Header(TRUE)
          /\ client' = "readBody"
          /\ UNCHANGED <<failure, hungUp>>
       \/ /\ Head(toClient) # Header(TRUE)
          /\ Fails("exchange")
    /\ UNCHANGED <<clientOnly, clientTimer, toRelay, disturbed>>

\* A reader with a buffer of its own: what follows the frame is read with it.
ReadAhead == <<>>

\* io.ReadFull: what follows the frame stays in the connection.
AfterFrame == Tail(toClient)

\* readJSON and validateResponse, then the status.
ReadBody ==
    /\ client = "readBody"
    /\ toClient # <<>>
    /\ toClient' = AfterFrame
    /\ LET r == Head(toClient) IN
        \/ /\ validateResponse(r)
           /\ r.status = "ok"
           /\ client' = "judge"
           /\ UNCHANGED <<failure, hungUp>>
        \/ /\ validateResponse(r)
           /\ r.status = "error"
           /\ Fails("authentication")
        \/ /\ ~validateResponse(r)
           /\ Fails("response")
    /\ UNCHANGED <<clientOnly, clientTimer, toRelay, disturbed>>

\* The deadline is lifted and yamux starts.
StartClientMux ==
    /\ client = "judge"
    /\ clientTimer' = FALSE
    /\ client' = "mux"
    /\ UNCHANGED <<clientOnly, failure, toRelay, toClient, hungUp, disturbed>>

\* The relay hung up and everything it sent is read.
ClientEOF ==
    /\ client \in {"readHeader", "readBody"}
    /\ toClient = <<>>
    /\ "relay" \in hungUp
    /\ Fails("exchange")
    /\ UNCHANGED <<clientOnly, clientTimer, toRelay, toClient, disturbed>>

\* The network fails, or the deadline that is armed passes.
ClientDisturbed ==
    /\ client \notin {"mux", "failed"}
    /\ Fails("transport")
    /\ disturbed' = TRUE
    /\ UNCHANGED <<clientOnly, clientTimer, toRelay, toClient>>

-----------------------------------------------------------------------------
(* The relay: handshake.                                                   *)

relayOnly == <<fixed, client, failure, clientTimer, relayTimer, muxSent>>

\* An error of handshake: Run closes the connection.
Drops ==
    /\ relay' = "failed"
    /\ hungUp' = hungUp \cup {"relay"}

\* readFrame, the header: a length beyond maxFrameBytes is refused.
ReadHelloHeader ==
    /\ relay = "readHeader"
    /\ "relay" \notin other
    /\ toRelay # <<>>
    /\ toRelay' = Tail(toRelay)
    /\ \/ Head(toRelay) = Header(TRUE) /\ relay' = "readBody" /\ UNCHANGED hungUp
       \/ Head(toRelay) # Header(TRUE) /\ Drops
    /\ UNCHANGED <<relayOnly, verdict, toClient, disturbed>>

\* readFrame, the body; readJSON; validateHello, whose refusal goes unanswered;
\* verify, whose refusal is answered.
ReadHello ==
    /\ relay = "readBody"
    /\ toRelay # <<>>
    /\ toRelay' = Tail(toRelay)
    /\ LET h == Head(toRelay) IN
        \/ /\ validateHello(h)
           /\ verdict' = IF verify(h.role, h.token) THEN "ok" ELSE "error"
           /\ relay' = "replyHeader"
           /\ UNCHANGED hungUp
        \/ /\ ~validateHello(h)
           /\ Drops
           /\ UNCHANGED verdict
    /\ UNCHANGED <<relayOnly, toClient, disturbed>>

WriteVerdictHeader ==
    /\ relay = "replyHeader"
    /\ toClient' = Append(toClient, Header(TRUE))
    /\ relay' = "replyBody"
    /\ UNCHANGED <<relayOnly, verdict, toRelay, hungUp, disturbed>>

\* A refusal without its verdict.
DropSilently ==
    IF verdict = "error" THEN toClient ELSE Append(toClient, Response(helloVersion, verdict))

Answer == Append(toClient, Response(helloVersion, verdict))

\* The verdict is written; yamux starts after ok, the connection is closed
\* after error.
WriteVerdict ==
    /\ relay = "replyBody"
    /\ toClient' = Answer
    /\ \/ verdict = "ok" /\ relay' = "mux" /\ UNCHANGED hungUp
       \/ verdict = "error" /\ Drops
    /\ UNCHANGED <<relayOnly, verdict, toRelay, disturbed>>

RelayEOF ==
    /\ relay \in {"readHeader", "readBody"}
    /\ "relay" \notin other
    /\ toRelay = <<>>
    /\ "client" \in hungUp
    /\ Drops
    /\ UNCHANGED <<relayOnly, verdict, toRelay, toClient, disturbed>>

\* The network fails, the TLS deadline passes, or a write meets a closed
\* connection.
RelayDisturbed ==
    /\ relay \notin {"mux", "failed"}
    /\ Drops
    /\ disturbed' = TRUE
    /\ UNCHANGED <<relayOnly, verdict, toRelay, toClient>>

-----------------------------------------------------------------------------
(* The mux, and other programs.                                            *)

\* External: yamux sends traffic of its own as soon as it runs.
MuxTraffic(e) ==
    /\ muxSent[e] < MaxMux
    /\ muxSent' = [muxSent EXCEPT ![e] = @ + 1]
    /\ \/ e = "client" /\ client = "mux" /\ toRelay' = Append(toRelay, MuxCell)
          /\ UNCHANGED toClient
       \/ e = "relay" /\ relay = "mux" /\ toClient' = Append(toClient, MuxCell)
          /\ UNCHANGED toRelay
    /\ UNCHANGED <<fixed, client, relay, failure, verdict, clientTimer, relayTimer, hungUp,
                   disturbed>>

\* External: another program as the client, or as the relay.
OtherClient ==
    /\ "client" \in other
    /\ client = "sendHeader"
    /\ client' = "failed"
    /\ hungUp' = hungUp \cup {"client"}
    /\ \/ \E f \in BOOLEAN : toRelay' = <<Header(f)>>
       \/ \E h \in OtherHellos : toRelay' = <<Header(TRUE), h>>
    /\ UNCHANGED <<clientOnly, failure, clientTimer, toClient, disturbed>>

OtherRelay ==
    /\ "relay" \in other
    /\ relay = "readHeader"
    /\ Drops
    /\ \/ \E f \in BOOLEAN : toClient' = <<Header(f)>>
       \/ \E r \in OtherResponses : toClient' = <<Header(TRUE), r>>
    /\ UNCHANGED <<relayOnly, verdict, toRelay, disturbed>>

ClientStep == SendHeader \/ SendBody \/ ReadHeader \/ ReadBody \/ StartClientMux \/ ClientEOF

RelayStep == ReadHelloHeader \/ ReadHello \/ WriteVerdictHeader \/ WriteVerdict \/ RelayEOF

HandNext ==
    \/ TLSDone \/ ClientStep \/ RelayStep \/ ClientDisturbed \/ RelayDisturbed
    \/ OtherClient \/ OtherRelay
    \/ \E e \in Ends : MuxTraffic(e)

HandSafety == HandInit /\ [][HandNext]_handVars

\* Both ends are scheduled and an armed deadline passes.  Nothing makes
\* another program send anything.
HandSpec ==
    /\ HandSafety
    /\ WF_handVars(ClientStep)
    /\ WF_handVars(RelayStep)
    /\ WF_handVars(clientTimer /\ ClientDisturbed)
    /\ WF_handVars(relayTimer /\ RelayDisturbed)

-----------------------------------------------------------------------------
(* Properties.                                                             *)

\* Every variable has its type.
HandTypeOK ==
    /\ client \in ClientPCs
    /\ relay \in RelayPCs
    /\ failure \in {"none", "transport", "exchange", "response", "authentication"}
    /\ verdict \in {"none", "ok", "error"}
    /\ clientTimer \in BOOLEAN /\ relayTimer \in BOOLEAN
    /\ hungUp \subseteq Ends
    /\ Len(toRelay) <= 2 + muxSent["client"]
    /\ Len(toClient) <= 2 + muxSent["relay"]

\* What the client presents is the bearer the relay expects of its role.
Trusted == Presented # "empty" /\ Presented = expected[me.role]

(***************************************************************************)
(* "Never create/register yamux before authentication succeeds"            *)
(* (spc/plan.md:91): a mux runs on either end only for a client that       *)
(* presents the bearer of its role, also where a token file is empty on    *)
(* both sides.  The bearer it holds may differ from that one in bytes that *)
(* are not UTF-8, which JSON replaces.                                     *)
(***************************************************************************)
MuxOnlyIfTrusted ==
    /\ relay = "mux" => "client" \notin other /\ Trusted
    /\ client = "mux" /\ "relay" \notin other => Trusted /\ verdict = "ok"

(***************************************************************************)
(* "No buffered read-ahead across the switch to yamux" (spc/plan.md:93)    *)
(* and a setup deadline "cleared before the mux owns the socket"           *)
(* (timing.go:23): a mux finds all the traffic of its peer's mux, nothing  *)
(* else, and no deadline.                                                  *)
(***************************************************************************)
MuxStartsClean ==
    /\ client = "mux" =>
        /\ ~clientTimer
        /\ toClient = [i \in 1..muxSent["relay"] |-> MuxCell]
    /\ relay = "mux" =>
        /\ ~relayTimer
        /\ toRelay = [i \in 1..muxSent["client"] |-> MuxCell]

(***************************************************************************)
(* Unless the network fails or a deadline passes, a client of this program *)
(* fails with a relay of this program for one of two reasons, which its    *)
(* error tells apart: the bearer it presents is refused, which is an       *)
(* authentication error (handshake.go:84), or its hello is too long, which *)
(* writeFrame does not notice and the relay does not answer.  So a client  *)
(* that holds the right bearer gets its session if that bearer is UTF-8    *)
(* and fits; one that is not UTF-8 is refused on both sides' equal files.  *)
(***************************************************************************)
VerdictsTrue ==
    client = "failed" /\ ~disturbed /\ other = {} =>
        \/ failure = "authentication" /\ Fits /\ ~Trusted
        \/ failure = "exchange" /\ ~Fits

(***************************************************************************)
(* "SetupTimeout bounds the hello/response exchange" (timing.go:22): the   *)
(* client comes to a session or an error, whatever the relay does.         *)
(***************************************************************************)
ClientDecides == "client" \notin other ~> client \in {"mux", "failed"}
=============================================================================
