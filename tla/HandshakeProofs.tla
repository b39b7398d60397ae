--------------------------- MODULE HandshakeProofs ---------------------------
(***************************************************************************)
(* Proofs about Handshake, for any set of bearers and any amount of mux    *)
(* traffic, whichever bearers are too long for a frame and whatever JSON   *)
(* makes of them: a mux runs for trusted clients only, it finds its peer's *)
(* traffic and nothing else, and an undisturbed client fails for a reason  *)
(* its error tells.                                                        *)
(*                                                                         *)
(* The inductive invariant says what each channel holds, by where its two  *)
(* ends are; who the ends are does not change, so it has a part for two    *)
(* ends of this program and one for each end that is another program.      *)
(***************************************************************************)
EXTENDS Handshake, SequenceTheorems, TLAPS

\* Mux traffic of n cells.
MuxCells(n) == [i \in 1..n |-> MuxCell]

\* A frame, and a frame whose header is read, with mux traffic behind it.
FrameAhead(a, b, n) == <<a, b>> \o MuxCells(n)
BodyAhead(b, n) == <<b>> \o MuxCells(n)

H == Header(TRUE)
HelloHeader == Header(Fits)
HelloBody == Hello(helloVersion, me.role, Presented)
VerdictBody == Response(helloVersion, verdict)

-----------------------------------------------------------------------------
(* The inductive invariant.                                                *)

\* The parts that do not depend on who the ends are: an end that hung up has
\* failed, only a mux sends mux traffic, and a deadline ends with the setup.
EndsInv ==
    /\ expected \in [Roles -> Tokens] /\ me \in [role : Roles, token : Tokens]
    /\ other \in {{}, {"client"}, {"relay"}}
    /\ client \in ClientPCs /\ relay \in RelayPCs
    /\ verdict \in {"none", "ok", "error"}
    /\ hungUp \subseteq Ends
    /\ "client" \in hungUp <=> client = "failed"
    /\ "relay" \in hungUp <=> relay = "failed"
    /\ muxSent \in [Ends -> Nat]
    /\ client # "mux" => muxSent["client"] = 0
    /\ relay # "mux" => muxSent["relay"] = 0
    /\ client = "mux" => ~clientTimer
    /\ relay \notin {"tls", "failed"} => ~relayTimer

\* Two ends of this program: what is on the way to the relay.
ToRelayInv ==
    /\ client \in {"tls", "sendHeader"} => relay \in {"tls", "readHeader", "failed"}
    /\ relay = "tls" => client \in {"tls", "failed"}
    /\ client \in {"tls", "sendHeader"} \/ relay = "tls" => toRelay = <<>>
    /\ client = "sendBody" => relay \in {"readHeader", "readBody", "failed"}
    /\ client \in {"readBody", "judge", "mux"} => relay \in {"replyBody", "mux", "failed"}
    /\ relay = "readHeader" =>
        /\ client = "sendBody" => toRelay = <<HelloHeader>>
        /\ client = "readHeader" => toRelay = <<HelloHeader, HelloBody>>
        /\ client = "failed" => toRelay \in {<<>>, <<HelloHeader>>, <<HelloHeader, HelloBody>>}
    /\ relay = "readBody" =>
        /\ client = "sendBody" => toRelay = <<>>
        /\ client = "readHeader" => toRelay = <<HelloBody>>
        /\ client = "failed" => toRelay \in {<<>>, <<HelloBody>>}
    /\ relay \in {"replyHeader", "replyBody", "mux"} =>
        toRelay = MuxCells(muxSent["client"])

\* Two ends of this program: what is on the way to the client.
ToClientInv ==
    /\ client \in {"judge", "mux"} => relay = "mux"
    /\ relay \in {"tls", "readHeader", "readBody", "replyHeader"} => toClient = <<>>
    /\ relay = "replyBody" =>
        /\ client = "readHeader" => toClient = <<H>>
        /\ client = "readBody" => toClient = <<>>
    /\ relay = "mux" =>
        /\ client = "readHeader" => toClient = FrameAhead(H, VerdictBody, muxSent["relay"])
        /\ client = "readBody" => toClient = BodyAhead(VerdictBody, muxSent["relay"])
        /\ client \in {"judge", "mux"} => toClient = MuxCells(muxSent["relay"])
    /\ relay = "failed" =>
        /\ client \in {"tls", "sendHeader", "sendBody"} => toClient = <<>>
        /\ client = "readHeader" => \/ toClient \in {<<>>, <<H>>}
                                    \/ toClient = <<H, VerdictBody>> /\ verdict = "error"
        /\ client = "readBody" => \/ toClient = <<>>
                                  \/ toClient = <<VerdictBody>> /\ verdict = "error"

\* Two ends of this program: the verdict, which only a hello that fits is given.
VerdictInv ==
    /\ verdict # "none" => Fits /\ (verdict = "ok" <=> Trusted)
    /\ relay = "readBody" => Fits
    /\ relay \in {"replyHeader", "replyBody", "mux"} => verdict # "none"
    /\ relay = "mux" => verdict = "ok"

\* What the verdict does to two undisturbed ends, and what a hello does that is
\* too long for one.
UndisturbedInv ==
    ~disturbed =>
        /\ client = "failed" =>
             /\ relay = "failed"
             /\ failure = IF Fits THEN "authentication" ELSE "exchange"
        /\ relay = "failed" /\ Fits =>
             /\ client \in {"readHeader", "readBody", "failed"}
             /\ verdict = "error"
             /\ client = "readHeader" => toClient = <<H, VerdictBody>>
             /\ client = "readBody" => toClient = <<VerdictBody>>
        /\ relay = "failed" /\ ~Fits =>
             /\ client \in {"sendBody", "readHeader", "failed"}
             /\ toClient = <<>>

\* The client is another program: no hello of its is ever answered.
OtherClientInv ==
    /\ client \in {"tls", "sendHeader", "failed"}
    /\ relay \in {"tls", "readHeader", "readBody", "failed"}
    /\ client \in {"tls", "sendHeader"} \/ relay = "tls" => toRelay = <<>>
    /\ client = "tls" => relay \in {"tls", "failed"}
    /\ client = "sendHeader" => relay \in {"readHeader", "failed"}
    /\ relay = "readHeader" => \/ toRelay = <<>>
                               \/ \E f \in BOOLEAN : toRelay = <<Header(f)>>
                               \/ \E h \in OtherHellos : toRelay = <<H, h>>
    /\ relay = "readBody" => toRelay = <<>> \/ \E h \in OtherHellos : toRelay = <<h>>

\* The relay is another program: it sends a frame, or half of one, and no more.
OtherRelayInv ==
    /\ relay \in {"tls", "readHeader", "failed"}
    /\ relay # "failed" => toClient = <<>> /\ client \notin {"readBody", "judge", "mux"}
    /\ client \in {"tls", "sendHeader", "sendBody", "readHeader"} =>
        \/ toClient = <<>>
        \/ \E f \in BOOLEAN : toClient = <<Header(f)>>
        \/ \E r \in OtherResponses : toClient = <<H, r>>
    /\ client = "readBody" => toClient = <<>> \/ \E r \in OtherResponses : toClient = <<r>>
    /\ client \in {"judge", "mux"} => toClient = <<>>

HandInv ==
    /\ EndsInv
    /\ other = {} => ToRelayInv /\ ToClientInv /\ VerdictInv /\ UndisturbedInv
    /\ other = {"client"} => OtherClientInv
    /\ other = {"relay"} => OtherRelayInv

-----------------------------------------------------------------------------
(* Sequences.                                                              *)

\* What reading and writing a cell makes of a frame.
LEMMA FrameCells ==
    ASSUME NEW a, NEW b
    PROVE  /\ Append(<<>>, a) = <<a>> /\ Append(<<a>>, b) = <<a, b>>
           /\ <<a>> # <<>> /\ <<a, b>> # <<>>
           /\ Head(<<a>>) = a /\ Head(<<a, b>>) = a
           /\ Tail(<<a>>) = <<>> /\ Tail(<<a, b>>) = <<b>>
<1> DEFINE S == {a, b}
<1>1. <<>> \in Seq(S) /\ <<a>> \in Seq(S) /\ <<b>> \in Seq(S) /\ <<a, b>> \in Seq(S)
      /\ a \in S /\ b \in S
  OBVIOUS
<1> HIDE DEF S
<1>2. Append(<<>>, a) = <<a>>
  <2>1. Append(<<>>, a) = <<>> \o <<a>>
    BY <1>1, AppendIsConcat, Zenon
  <2>2. <<>> \o <<a>> = <<a>>
    BY <1>1, ConcatEmptySeq, Zenon
  <2> QED
    BY <2>1, <2>2, Zenon
<1>3. Append(<<a>>, b) = <<a, b>>
  <2>1. Append(<<a>>, b) \in Seq(S) /\ Len(Append(<<a>>, b)) = 2 /\ Len(<<a, b>>) = 2
        /\ Append(<<a>>, b)[1] = a /\ Append(<<a>>, b)[2] = b
    BY <1>1
  <2>2. \A i \in 1..2 : Append(<<a>>, b)[i] = <<a, b>>[i]
    BY <2>1
  <2> QED
    BY <1>1, <2>1, <2>2, SeqEqual
<1>4. <<a>> # <<>> /\ <<a, b>> # <<>> /\ Head(<<a>>) = a /\ Head(<<a, b>>) = a
  BY <1>1
<1>5. Tail(<<a>>) = <<>>
  BY <1>1
<1>6. Tail(<<a, b>>) = <<b>>
  BY <1>1
<1> QED
  BY <1>2, <1>3, <1>4, <1>5, <1>6

\* No traffic yet, and one more piece of it.
LEMMA MuxCellsGrow ==
    /\ MuxCells(0) = <<>>
    /\ \A n \in Nat : MuxCells(n) \in Seq({MuxCell})
    /\ \A n \in Nat : Append(MuxCells(n), MuxCell) = MuxCells(n + 1)
<1>1. MuxCells(0) = <<>>
  BY DEF MuxCells
<1>2. ASSUME NEW n \in Nat PROVE MuxCells(n) \in Seq({MuxCell}) /\ Len(MuxCells(n)) = n
  BY DEF MuxCells
<1>3. ASSUME NEW n \in Nat PROVE Append(MuxCells(n), MuxCell) = MuxCells(n + 1)
  BY <1>2 DEF MuxCells
<1> QED
  BY <1>1, <1>2, <1>3

\* A frame ahead of mux traffic: it is read cell by cell, and traffic that
\* follows does not change it.
LEMMA FrameThenMux ==
    ASSUME NEW a, NEW b, NEW n \in Nat
    PROVE  /\ FrameAhead(a, b, n) # <<>>
           /\ Head(FrameAhead(a, b, n)) = a
           /\ Tail(FrameAhead(a, b, n)) = BodyAhead(b, n)
           /\ Append(FrameAhead(a, b, n), MuxCell) = FrameAhead(a, b, n + 1)
           /\ BodyAhead(b, n) # <<>>
           /\ Head(BodyAhead(b, n)) = b
           /\ Tail(BodyAhead(b, n)) = MuxCells(n)
           /\ Append(BodyAhead(b, n), MuxCell) = BodyAhead(b, n + 1)
<1>0. PICK S : S = {a, b, MuxCell}
  OBVIOUS
<1>1. MuxCells(n) \in Seq(S) /\ Len(MuxCells(n)) = n /\ \A i \in 1..n : MuxCells(n)[i] = MuxCell
  BY <1>0 DEF MuxCells
<1>2. MuxCells(n + 1) \in Seq(S) /\ Len(MuxCells(n + 1)) = n + 1
      /\ \A i \in 1..(n + 1) : MuxCells(n + 1)[i] = MuxCell
  BY <1>0 DEF MuxCells
<1>3. <<a, b>> \in Seq(S) /\ <<b>> \in Seq(S) /\ <<MuxCell>> \in Seq(S) /\ MuxCell \in S
  BY <1>0
<1>4. /\ <<a, b>> \o MuxCells(n) # <<>>
      /\ Head(<<a, b>> \o MuxCells(n)) = a
      /\ <<b>> \o MuxCells(n) # <<>>
      /\ Head(<<b>> \o MuxCells(n)) = b
  BY <1>1, <1>3
<1>5. Tail(<<a, b>> \o MuxCells(n)) = <<b>> \o MuxCells(n)
  BY <1>1, <1>3
<1>6. Tail(<<b>> \o MuxCells(n)) = MuxCells(n)
  BY <1>1, <1>3
<1>7. ASSUME NEW f \in Seq(S)
      PROVE  Append(f \o MuxCells(n), MuxCell) = f \o MuxCells(n + 1)
  <2>0. ASSUME NEW k \in {n, n + 1}
        PROVE  \E g \in Seq(S) :
                 /\ g = f \o MuxCells(k)
                 /\ Len(g) = Len(f) + k
                 /\ \A i \in 1..(Len(f) + k) : g[i] = IF i <= Len(f) THEN f[i] ELSE MuxCell
    <3>1. f \o MuxCells(k) \in Seq(S) /\ Len(f \o MuxCells(k)) = Len(f) + k
      BY <1>1, <1>2
    <3>2. ASSUME NEW i \in 1..(Len(f) + k)
          PROVE  (f \o MuxCells(k))[i] = IF i <= Len(f) THEN f[i] ELSE MuxCell
      BY <1>1, <1>2
    <3> QED
      BY <3>1, <3>2, Zenon
  <2>1. PICK g \in Seq(S) :
          /\ g = f \o MuxCells(n)
          /\ Len(g) = Len(f) + n
          /\ \A i \in 1..(Len(f) + n) : g[i] = IF i <= Len(f) THEN f[i] ELSE MuxCell
    BY <2>0, Zenon
  <2>2. PICK h \in Seq(S) :
          /\ h = f \o MuxCells(n + 1)
          /\ Len(h) = Len(f) + (n + 1)
          /\ \A i \in 1..(Len(f) + (n + 1)) : h[i] = IF i <= Len(f) THEN f[i] ELSE MuxCell
    BY <2>0, Zenon
  <2>3. Append(g, MuxCell) = h
    <3>1. Append(g, MuxCell) \in Seq(S) /\ Len(Append(g, MuxCell)) = Len(f) + n + 1
      BY <1>3, <2>1
    <3>2. ASSUME NEW i \in 1..(Len(f) + n + 1) PROVE Append(g, MuxCell)[i] = h[i]
      BY <1>3, <2>1, <2>2
    <3>3. /\ Len(Append(g, MuxCell)) = Len(h)
          /\ \A i \in 1..Len(Append(g, MuxCell)) : Append(g, MuxCell)[i] = h[i]
      BY <2>2, <3>1, <3>2
    <3> QED
      BY <2>2, <3>1, <3>3, SeqEqual, Zenon
  <2> QED
    BY <2>1, <2>2, <2>3
<1> QED
  BY <1>3, <1>4, <1>5, <1>6, <1>7 DEF FrameAhead, BodyAhead
\* A frame with no traffic behind it.
LEMMA FrameThenNothing ==
    ASSUME NEW a, NEW b
    PROVE  FrameAhead(a, b, 0) = <<a, b>> /\ BodyAhead(b, 0) = <<b>>
<1>0. PICK S : S = {a, b}
  OBVIOUS
<1>1. <<a, b>> \in Seq(S) /\ <<b>> \in Seq(S)
  BY <1>0
<1> QED
  BY <1>1, MuxCellsGrow, ConcatEmptySeq DEF FrameAhead, BodyAhead

-----------------------------------------------------------------------------
(* The two bodies this program writes.                                     *)

\* The relay accepts the form of this client's hello, whatever its bearer.
LEMMA HelloBodyReads ==
    ASSUME me \in [role : Roles, token : Tokens], expected \in [Roles -> Tokens]
    PROVE  /\ validateHello(HelloBody)
           /\ verify(HelloBody.role, HelloBody.token) <=> Trusted
<1>1. /\ HelloBody.what = "hello" /\ HelloBody.version = helloVersion
      /\ HelloBody.role = me.role /\ HelloBody.token = Presented
  BY DEF HelloBody, Hello
<1>2. me.role \in Roles
  OBVIOUS
<1> QED
  BY <1>1, <1>2 DEF validateHello, verify, Trusted

\* The client accepts the form of this relay's response, whatever its status.
LEMMA VerdictBodyReads ==
    ASSUME verdict \in {"ok", "error"}
    PROVE  validateResponse(VerdictBody) /\ VerdictBody.status = verdict
BY DEF VerdictBody, Response, validateResponse

\* No other program's hello is accepted.
LEMMA OtherHellosRefused == \A h \in OtherHellos : ~validateHello(h)
<1>1. Garbage.what = "garbage"
  BY DEF Garbage
<1>2. Hello(2, "exit", "empty").version = 2
  BY DEF Hello
<1>3. Hello(1, "relay", "empty").role = "relay"
  BY DEF Hello
<1> QED
  BY <1>1, <1>2, <1>3 DEF OtherHellos, validateHello, helloVersion, Roles

-----------------------------------------------------------------------------
(* The invariant holds initially and is kept.                              *)

\* HandInv holds before TLS.
LEMMA HandInvInit == HandInit => HandInv
<1> SUFFICES ASSUME HandInit PROVE HandInv
  OBVIOUS
<1>1. EndsInv
  BY DEF HandInit, EndsInv, ClientPCs, RelayPCs, Ends
<1>2. ToRelayInv /\ ToClientInv
  BY DEF HandInit, ToRelayInv, ToClientInv
<1>3. VerdictInv /\ UndisturbedInv
  BY DEF HandInit, VerdictInv, UndisturbedInv
<1>4. OtherClientInv /\ OtherRelayInv
  BY DEF HandInit, OtherClientInv, OtherRelayInv
<1> QED
  BY <1>1, <1>2, <1>3, <1>4 DEF HandInv

\* Who the ends are does not change.
LEMMA EndsFixed == [HandNext]_handVars => UNCHANGED <<expected, me, other>>
BY DEF HandNext, TLSDone, ClientStep, SendHeader, SendBody, ReadHeader, ReadBody,
   StartClientMux, ClientEOF, RelayStep, ReadHelloHeader, ReadHello, WriteVerdictHeader,
   WriteVerdict, RelayEOF, ClientDisturbed, RelayDisturbed, OtherClient, OtherRelay,
   MuxTraffic, handVars, clientOnly, relayOnly, fixed

\* Every step keeps the part that does not depend on who the ends are.
LEMMA EndsStep ==
    ASSUME EndsInv, [HandNext]_handVars
    PROVE  EndsInv'
<1>0. UNCHANGED <<expected, me, other>>
  BY EndsFixed
<1> USE <1>0 DEF EndsInv, ClientPCs, RelayPCs, Ends, clientOnly, relayOnly, Fails, Drops
<1>1. CASE TLSDone
  BY <1>1 DEF TLSDone
<1>2. CASE SendHeader \/ SendBody
  <2>1. CASE SendHeader
    BY <2>1 DEF SendHeader
  <2>2. CASE SendBody
    BY <2>2 DEF SendBody
  <2> QED
    BY <1>2, <2>1, <2>2
<1>3. CASE ReadHeader
  BY <1>3 DEF ReadHeader
<1>4. CASE ReadBody
  BY <1>4 DEF ReadBody
<1>5. CASE StartClientMux
  BY <1>5 DEF StartClientMux
<1>6. CASE ClientEOF \/ ClientDisturbed
  <2>1. CASE ClientEOF
    BY <2>1 DEF ClientEOF
  <2>2. CASE ClientDisturbed
    BY <2>2 DEF ClientDisturbed
  <2> QED
    BY <1>6, <2>1, <2>2
<1>7. CASE ReadHelloHeader
  BY <1>7 DEF ReadHelloHeader
<1>8. CASE ReadHello
  BY <1>8 DEF ReadHello
<1>9. CASE WriteVerdictHeader \/ WriteVerdict
  <2>1. CASE WriteVerdictHeader
    BY <2>1 DEF WriteVerdictHeader
  <2>2. CASE WriteVerdict
    BY <2>2 DEF WriteVerdict
  <2> QED
    BY <1>9, <2>1, <2>2
<1>10. CASE RelayEOF \/ RelayDisturbed
  <2>1. CASE RelayEOF
    BY <2>1 DEF RelayEOF
  <2>2. CASE RelayDisturbed
    BY <2>2 DEF RelayDisturbed
  <2> QED
    BY <1>10, <2>1, <2>2
<1>11. CASE OtherClient
  BY <1>11 DEF OtherClient
<1>12. CASE OtherRelay
  BY <1>12 DEF OtherRelay
<1>13. ASSUME NEW e \in Ends, MuxTraffic(e) PROVE EndsInv'
  BY <1>13 DEF MuxTraffic
<1>14. CASE UNCHANGED handVars
  BY <1>14 DEF handVars
<1> QED
  BY <1>1, <1>2, <1>3, <1>4, <1>5, <1>6, <1>7, <1>8, <1>9, <1>10, <1>11, <1>12, <1>13,
     <1>14 DEF HandNext, ClientStep, RelayStep

\* Every step of two ends of this program keeps what is known of their channels
\* and of the verdict.
LEMMA HonestStep ==
    ASSUME EndsInv, other = {}, ToRelayInv, ToClientInv, VerdictInv, UndisturbedInv,
           [HandNext]_handVars
    PROVE  ToRelayInv' /\ ToClientInv' /\ VerdictInv' /\ UndisturbedInv'
<1> DEFINE Honest == ToRelayInv /\ ToClientInv /\ VerdictInv /\ UndisturbedInv
<1>same. /\ UNCHANGED <<expected, me, other>>
         /\ HelloHeader' = HelloHeader /\ HelloBody' = HelloBody
         /\ Trusted' = Trusted /\ Fits' = Fits
         /\ verdict' = verdict => VerdictBody' = VerdictBody
  BY EndsFixed DEF HelloHeader, HelloBody, Fits, Presented, Trusted, VerdictBody
<1>cells. /\ EndsInv'
          /\ \A a, b : /\ Append(<<>>, a) = <<a>> /\ Append(<<a>>, b) = <<a, b>>
                       /\ <<a>> # <<>> /\ <<a, b>> # <<>>
                       /\ Head(<<a>>) = a /\ Head(<<a, b>>) = a
                       /\ Tail(<<a>>) = <<>> /\ Tail(<<a, b>>) = <<b>>
  BY EndsStep, FrameCells
<1>sent. muxSent["relay"] \in Nat /\ muxSent["client"] \in Nat
  BY DEF EndsInv, Ends
<1>ahead. PICK n \in Nat :
          /\ n = muxSent["relay"]
          /\ FrameAhead(H, VerdictBody, n) # <<>> /\ Head(FrameAhead(H, VerdictBody, n)) = H
          /\ Tail(FrameAhead(H, VerdictBody, n)) = BodyAhead(VerdictBody, n)
          /\ Append(FrameAhead(H, VerdictBody, n), MuxCell) = FrameAhead(H, VerdictBody, n + 1)
          /\ BodyAhead(VerdictBody, n) # <<>> /\ Head(BodyAhead(VerdictBody, n)) = VerdictBody
          /\ Tail(BodyAhead(VerdictBody, n)) = MuxCells(n)
          /\ Append(BodyAhead(VerdictBody, n), MuxCell) = BodyAhead(VerdictBody, n + 1)
          /\ Append(MuxCells(n), MuxCell) = MuxCells(n + 1)
  BY <1>sent, FrameThenMux, MuxCellsGrow, Zenon
<1> USE <1>same, <1>cells
    DEF EndsInv, ToRelayInv, ToClientInv, VerdictInv, UndisturbedInv, ClientPCs, RelayPCs,
        Ends, clientOnly, relayOnly
<1>1. CASE TLSDone
  BY <1>1 DEF TLSDone
<1>2. CASE SendHeader
  BY <1>2 DEF SendHeader, HelloHeader
<1>3. CASE SendBody
  BY <1>3 DEF SendBody, HelloBody
<1>4. CASE ReadHeader
  <2>1. /\ Head(toClient) = H
        /\ relay = "mux" => Tail(toClient) = BodyAhead(VerdictBody, muxSent["relay"])
    BY <1>4, <1>ahead DEF ReadHeader
  <2>2. client' = "readBody" /\ toClient' = Tail(toClient)
    BY <1>4, <2>1 DEF ReadHeader, H
  <2> QED
    <3>0. Tail(<<H>>) = <<>> /\ Tail(<<H, VerdictBody>>) = <<VerdictBody>>
      BY FrameCells
    <3>1. UNCHANGED <<relay, failure, verdict, toRelay, disturbed, muxSent>>
      BY <1>4, <2>2 DEF ReadHeader, Fails
    <3>2. ToClientInv'
      BY <1>4, <2>1, <2>2, <3>0, <3>1 DEF ReadHeader
    <3>3. ToRelayInv'
      BY <1>4, <2>1, <2>2, <3>0, <3>1 DEF ReadHeader
    <3>4. VerdictInv' /\ UndisturbedInv'
      <4>1. relay = "failed" /\ ~disturbed =>
              Fits /\ verdict = "error" /\ toClient' = <<VerdictBody>>
        BY <1>4, <2>2, <3>0 DEF ReadHeader
      <4> QED
        BY <2>2, <3>1, <4>1
    <3> QED
      BY <3>2, <3>3, <3>4
<1>5. CASE ReadBody
  <2>1. /\ relay \in {"mux", "failed"} /\ Head(toClient) = VerdictBody
        /\ verdict = IF relay = "mux" THEN "ok" ELSE "error"
        /\ relay = "mux" => Tail(toClient) = MuxCells(muxSent["relay"])
    BY <1>5, <1>ahead DEF ReadBody
  <2>2. validateResponse(VerdictBody) /\ VerdictBody.status = verdict
    BY <2>1, VerdictBodyReads
  <2>3. CASE relay = "mux"
    <3>1. client' = "judge" /\ toClient' = Tail(toClient)
      BY <1>5, <2>1, <2>2, <2>3 DEF ReadBody, AfterFrame
    <3> QED
      BY <1>5, <2>1, <2>3, <3>1 DEF ReadBody
  <2>4. CASE relay = "failed"
    <3>1. client' = "failed" /\ failure' = "authentication"
      BY <1>5, <2>1, <2>2, <2>4 DEF ReadBody, Fails
    <3> QED
      BY <1>5, <2>1, <2>4, <3>1 DEF ReadBody
  <2> QED
    BY <2>1, <2>3, <2>4
<1>6. CASE StartClientMux
  BY <1>6 DEF StartClientMux
<1>7. CASE ClientEOF
  BY <1>7 DEF ClientEOF, Fails
<1>8. CASE ClientDisturbed
  BY <1>8 DEF ClientDisturbed, Fails
<1>9. CASE ReadHelloHeader
  <2>1. toRelay \in {<<HelloHeader>>, <<HelloHeader, HelloBody>>}
        /\ Head(toRelay) = HelloHeader /\ client \in {"sendBody", "readHeader", "failed"}
    BY <1>9 DEF ReadHelloHeader
  <2>2. UNCHANGED <<client, failure, verdict, toClient, disturbed, muxSent>>
    BY <1>9 DEF ReadHelloHeader
  <2>3. CASE Fits
    <3>1. relay' = "readBody" /\ toRelay' = Tail(toRelay) /\ UNCHANGED hungUp
      BY <1>9, <2>1, <2>3 DEF ReadHelloHeader, HelloHeader
    <3>2. /\ Tail(<<HelloHeader>>) = <<>>
          /\ Tail(<<HelloHeader, HelloBody>>) = <<HelloBody>>
      BY FrameCells
    <3>3. /\ toRelay = <<HelloHeader>> => toRelay' = <<>>
          /\ toRelay = <<HelloHeader, HelloBody>> => toRelay' = <<HelloBody>>
      BY <3>1, <3>2
    <3>4. ToRelayInv'
      BY <1>9, <2>1, <2>2, <3>1, <3>3 DEF ReadHelloHeader
    <3>5. ToClientInv' /\ VerdictInv' /\ UndisturbedInv'
      BY <1>9, <2>2, <2>3, <3>1 DEF ReadHelloHeader
    <3> QED
      BY <3>4, <3>5
  <2>4. CASE ~Fits
    <3>1. HelloHeader # Header(TRUE)
      <4>1. Header(TRUE).fits = TRUE /\ Header(FALSE).fits = FALSE
        BY DEF Header
      <4>2. Fits = FALSE
        BY <2>4 DEF Fits
      <4> QED
        BY <4>1, <4>2 DEF HelloHeader
    <3>2. relay' = "failed"
      BY <1>9, <2>1, <3>1 DEF ReadHelloHeader, Drops
    <3> QED
      BY <1>9, <2>1, <2>2, <2>4, <3>2 DEF ReadHelloHeader
  <2> QED
    BY <2>3, <2>4
<1>10. CASE ReadHello
  <2>1. toRelay = <<HelloBody>> /\ client \in {"readHeader", "failed"}
    BY <1>10 DEF ReadHello
  <2>2. validateHello(HelloBody) /\ (verify(HelloBody.role, HelloBody.token) <=> Trusted)
    BY HelloBodyReads
  <2>3. /\ relay' = "replyHeader" /\ toRelay' = <<>>
        /\ verdict' = IF Trusted THEN "ok" ELSE "error"
    BY <1>10, <2>1, <2>2 DEF ReadHello
  <2>4. toRelay' = MuxCells(muxSent["client"])
    BY <2>1, <2>3, MuxCellsGrow
  <2> QED
    BY <1>10, <2>1, <2>3, <2>4 DEF ReadHello
<1>11. CASE WriteVerdictHeader
  BY <1>11 DEF WriteVerdictHeader, H
<1>12. CASE WriteVerdict
  <2>1. toClient' = Append(toClient, VerdictBody)
    BY <1>12 DEF WriteVerdict, Answer, VerdictBody
  <2>2. /\ FrameAhead(H, VerdictBody, 0) = <<H, VerdictBody>>
        /\ BodyAhead(VerdictBody, 0) = <<VerdictBody>>
    BY FrameThenNothing
  <2>3. CASE verdict = "ok"
    BY <1>12, <2>1, <2>2, <2>3 DEF WriteVerdict
  <2>4. CASE verdict = "error"
    BY <1>12, <2>1, <2>4 DEF WriteVerdict, Drops
  <2> QED
    BY <1>12, <2>3, <2>4 DEF WriteVerdict
<1>13. CASE RelayEOF
  BY <1>13 DEF RelayEOF, Drops
<1>14. CASE RelayDisturbed
  BY <1>14 DEF RelayDisturbed, Drops
<1>15. CASE OtherClient \/ OtherRelay
  BY <1>15 DEF OtherClient, OtherRelay
<1>16. ASSUME NEW e \in Ends, MuxTraffic(e) PROVE Honest'
  <2>1. CASE e = "client" /\ client = "mux"
    <3>1. toRelay' = MuxCells(muxSent'["client"]) /\ muxSent'["relay"] = muxSent["relay"]
          /\ UNCHANGED toClient
      BY <1>16, <1>sent, <2>1, MuxCellsGrow DEF MuxTraffic
    <3> QED
      BY <1>16, <2>1, <3>1 DEF MuxTraffic
  <2>2. CASE e = "relay" /\ relay = "mux"
    <3>1. /\ toClient' = Append(toClient, MuxCell) /\ UNCHANGED toRelay
          /\ muxSent'["relay"] = muxSent["relay"] + 1
          /\ muxSent'["client"] = muxSent["client"]
      BY <1>16, <1>sent, <2>2 DEF MuxTraffic
    <3>2. /\ client = "readHeader" =>
               toClient' = FrameAhead(H, VerdictBody, muxSent'["relay"])
          /\ client = "readBody" => toClient' = BodyAhead(VerdictBody, muxSent'["relay"])
          /\ client \in {"judge", "mux"} => toClient' = MuxCells(muxSent'["relay"])
      BY <1>ahead, <2>2, <3>1
    <3> QED
      BY <1>16, <2>2, <3>1, <3>2 DEF MuxTraffic
  <2> QED
    BY <1>16, <2>1, <2>2 DEF MuxTraffic
<1>17. CASE UNCHANGED handVars
  BY <1>17 DEF handVars
<1> QED
  BY <1>1, <1>2, <1>3, <1>4, <1>5, <1>6, <1>7, <1>8, <1>9, <1>10, <1>11, <1>12, <1>13,
     <1>14, <1>15, <1>16, <1>17 DEF HandNext, ClientStep, RelayStep

\* Every step keeps what is known when the client is another program.
LEMMA OtherClientStep ==
    ASSUME EndsInv, other = {"client"}, OtherClientInv, [HandNext]_handVars
    PROVE  OtherClientInv'
<1> USE DEF EndsInv, OtherClientInv, clientOnly, relayOnly, Fails, Drops
<1>1. CASE TLSDone
  BY <1>1 DEF TLSDone
<1>2. CASE SendHeader \/ SendBody \/ ReadHeader \/ ReadBody \/ StartClientMux \/ ClientEOF
           \/ WriteVerdictHeader \/ WriteVerdict \/ OtherRelay
  BY <1>2 DEF SendHeader, SendBody, ReadHeader, ReadBody, StartClientMux, ClientEOF,
     WriteVerdictHeader, WriteVerdict, OtherRelay
<1>3. CASE ClientDisturbed
  BY <1>3 DEF ClientDisturbed
<1>4. CASE ReadHelloHeader
  <2>1. CASE relay' = "readBody"
    <3>1. \/ \E f \in BOOLEAN : toRelay = <<Header(f)>>
          \/ \E h \in OtherHellos : toRelay = <<H, h>>
      BY <1>4 DEF ReadHelloHeader
    <3>2. toRelay' = <<>> \/ \E h \in OtherHellos : toRelay' = <<h>>
      <4>1. /\ \A f \in BOOLEAN : Tail(<<Header(f)>>) = <<>>
            /\ \A h \in OtherHellos : Tail(<<H, h>>) = <<h>>
        BY FrameCells
      <4> QED
        BY <1>4, <3>1, <4>1 DEF ReadHelloHeader
    <3> QED
      BY <1>4, <2>1, <3>2 DEF ReadHelloHeader
  <2>2. CASE relay' = "failed"
    BY <1>4, <2>2 DEF ReadHelloHeader
  <2> QED
    BY <1>4, <2>1, <2>2 DEF ReadHelloHeader
<1>5. CASE ReadHello
  <2>1. PICK h \in OtherHellos : toRelay = <<h>>
    BY <1>5 DEF ReadHello
  <2>2. ~validateHello(Head(toRelay))
    BY <2>1, OtherHellosRefused
  <2> QED
    BY <1>5, <2>2 DEF ReadHello
<1>6. CASE RelayEOF \/ RelayDisturbed
  BY <1>6 DEF RelayEOF, RelayDisturbed
<1>7. CASE OtherClient
  BY <1>7 DEF OtherClient, H
<1>8. ASSUME NEW e \in Ends, MuxTraffic(e) PROVE OtherClientInv'
  BY <1>8 DEF MuxTraffic
<1>9. CASE UNCHANGED handVars
  BY <1>9 DEF handVars
<1> QED
  BY <1>1, <1>2, <1>3, <1>4, <1>5, <1>6, <1>7, <1>8, <1>9
     DEF HandNext, ClientStep, RelayStep

\* Every step keeps what is known when the relay is another program.
LEMMA OtherRelayStep ==
    ASSUME EndsInv, other = {"relay"}, OtherRelayInv, [HandNext]_handVars
    PROVE  OtherRelayInv'
<1> USE DEF EndsInv, OtherRelayInv, ClientPCs, clientOnly, relayOnly, Fails, Drops
<1>1. CASE TLSDone
  BY <1>1 DEF TLSDone
<1>2. CASE ReadHelloHeader \/ ReadHello \/ WriteVerdictHeader \/ WriteVerdict \/ RelayEOF
           \/ OtherClient
  BY <1>2 DEF ReadHelloHeader, ReadHello, WriteVerdictHeader, WriteVerdict, RelayEOF,
     OtherClient
<1>3. CASE SendHeader \/ SendBody
  BY <1>3 DEF SendHeader, SendBody
<1>4. CASE ReadHeader
  <2>1. relay = "failed" /\ relay' = relay
    BY <1>4 DEF ReadHeader
  <2>2. CASE client' = "readBody"
    <3>1. \/ \E f \in BOOLEAN : toClient = <<Header(f)>>
          \/ \E r \in OtherResponses : toClient = <<H, r>>
      BY <1>4 DEF ReadHeader
    <3>2. toClient' = <<>> \/ \E r \in OtherResponses : toClient' = <<r>>
      <4>1. /\ \A f \in BOOLEAN : Tail(<<Header(f)>>) = <<>>
            /\ \A r \in OtherResponses : Tail(<<H, r>>) = <<r>>
        BY FrameCells
      <4> QED
        BY <1>4, <3>1, <4>1 DEF ReadHeader
    <3> QED
      BY <2>1, <2>2, <3>2
  <2>3. CASE client' = "failed"
    BY <2>1, <2>3
  <2> QED
    BY <1>4, <2>2, <2>3 DEF ReadHeader
<1>5. CASE ReadBody
  <2>1. PICK r \in OtherResponses : toClient = <<r>>
    BY <1>5 DEF ReadBody
  <2>2. toClient' = <<>> /\ relay' = relay /\ relay = "failed"
    BY <1>5, <2>1, FrameCells DEF ReadBody, AfterFrame
  <2>3. client' \in {"judge", "failed"}
    BY <1>5 DEF ReadBody
  <2> QED
    BY <2>2, <2>3
<1>6. CASE StartClientMux
  BY <1>6 DEF StartClientMux
<1>7. CASE ClientEOF \/ ClientDisturbed
  BY <1>7 DEF ClientEOF, ClientDisturbed
<1>8. CASE RelayDisturbed
  BY <1>8 DEF RelayDisturbed
<1>9. CASE OtherRelay
  BY <1>9 DEF OtherRelay, H
<1>10. ASSUME NEW e \in Ends, MuxTraffic(e) PROVE OtherRelayInv'
  BY <1>10 DEF MuxTraffic
<1>11. CASE UNCHANGED handVars
  BY <1>11 DEF handVars
<1> QED
  BY <1>1, <1>2, <1>3, <1>4, <1>5, <1>6, <1>7, <1>8, <1>9, <1>10, <1>11
     DEF HandNext, ClientStep, RelayStep

-----------------------------------------------------------------------------
(* The theorems.                                                           *)

(***************************************************************************)
(* HandInv is inductive: both ends, the network and the timers in any      *)
(* order, with this program on both ends or another on one of them.        *)
(***************************************************************************)
THEOREM HandshakeInvariant == HandSafety => []HandInv
<1>1. ASSUME HandInv, [HandNext]_handVars PROVE HandInv'
  <2>1. EndsInv' /\ other' = other
    BY <1>1, EndsStep, EndsFixed DEF HandInv
  <2>2. other = {} => ToRelayInv' /\ ToClientInv' /\ VerdictInv' /\ UndisturbedInv'
    BY <1>1, HonestStep DEF HandInv
  <2>3. other = {"client"} => OtherClientInv'
    BY <1>1, OtherClientStep DEF HandInv
  <2>4. other = {"relay"} => OtherRelayInv'
    BY <1>1, OtherRelayStep DEF HandInv
  <2> QED
    BY <2>1, <2>2, <2>3, <2>4 DEF HandInv
<1> QED
  BY <1>1, HandInvInit, PTL DEF HandSafety

(***************************************************************************)
(* A mux runs on either end only for a client that presents the bearer of  *)
(* its role, the empty one never being a bearer.                           *)
(***************************************************************************)
THEOREM TrustTheorem == HandSafety => []MuxOnlyIfTrusted
<1>1. HandInv => MuxOnlyIfTrusted
  BY DEF HandInv, EndsInv, ToRelayInv, ToClientInv, VerdictInv, OtherClientInv,
     OtherRelayInv, MuxOnlyIfTrusted
<1> QED
  BY <1>1, HandshakeInvariant, PTL

\* A mux finds the traffic of its peer's mux, all of it and nothing else, and no
\* deadline on the connection.
THEOREM CleanMuxTheorem == HandSafety => []MuxStartsClean
<1>1. ASSUME HandInv PROVE MuxStartsClean
  <2> USE <1>1 DEF HandInv, EndsInv
  <2>1. client = "mux" => toClient = MuxCells(muxSent["relay"])
    BY MuxCellsGrow DEF ToClientInv, OtherClientInv, OtherRelayInv
  <2>2. relay = "mux" => toRelay = MuxCells(muxSent["client"])
    BY DEF ToRelayInv, OtherClientInv, OtherRelayInv
  <2> QED
    BY <2>1, <2>2 DEF MuxStartsClean, MuxCells
<1> QED
  BY <1>1, HandshakeInvariant, PTL

(***************************************************************************)
(* Undisturbed, and with this program on both ends, a client fails with an *)
(* authentication error if the bearer it presents is not the right one,    *)
(* with a failed exchange if its hello is longer than a frame may be, and  *)
(* for no other reason.                                                    *)
(***************************************************************************)
THEOREM VerdictTheorem == HandSafety => []VerdictsTrue
<1>1. HandInv => VerdictsTrue
  BY DEF HandInv, VerdictInv, UndisturbedInv, VerdictsTrue
<1> QED
  BY <1>1, HandshakeInvariant, PTL
=============================================================================
