------------------------------- MODULE Duplex -------------------------------
(***************************************************************************)
(* internal/stream/duplex.go: Duplex.Run copies between two connections    *)
(* until both directions have ended, one has failed, the context is done   *)
(* or the drain timer fires, and then closes both and joins its copiers.   *)
(*                                                                         *)
(* A copier is named by the end it reads from.  Three kinds of pairs exist *)
(* (the relay's two yamux streams; the proxy's browser connection and its  *)
(* stream; the exit's stream and its destination socket), which differ in  *)
(* what a half-close does and in what the reader sees when the other side  *)
(* is gone: setup records both and never changes.                          *)
(***************************************************************************)
EXTENDS Naturals

CONSTANTS
    MaxChunks,   \* bound: chunks that come from each far side at most
    Setups       \* the pairs under study: [muxed, fullClose]

Ends == {"in", "out"}               \* Duplex.inbound, Duplex.outbound
Other(e) == IF e = "in" THEN "out" ELSE "in"

(***************************************************************************)
(* muxed: the ends that are yamux streams, whose reader sees EOF, not an   *)
(* error, when the session is gone.  fullClose: the ends whose CloseWrite  *)
(* closes the whole connection (proxy requestConn).                        *)
(***************************************************************************)
ASSUME DuplexAssumption ==
    /\ MaxChunks \in Nat
    /\ Setups \subseteq [muxed : SUBSET Ends, fullClose : SUBSET Ends]

RelaySetup == [muxed |-> Ends, fullClose |-> {}]
ProxySetup == [muxed |-> {"out"}, fullClose |-> {"in"}]
ExitSetup == [muxed |-> {"in"}, fullClose |-> {}]

VARIABLES
    setup,
    sent,        \* per end: chunks of its far side that have reached this host
    fin,         \* per end: its far side has finished sending
    dead,        \* per end: its connection, or session, is broken
    shut,        \* per end: CloseWrite has been called on it
    ctxDone,     \* the context given to Run is done
    copier,      \* per copier: "copying", "finishing" or "posted"
    copied,      \* per copier: chunks it has moved to the other end
    result,      \* per copier: the error it posts to results
    taken,       \* the copiers whose result Run has received
    armed,       \* the drain timer is running
    forced,      \* forceClose has been called
    run,         \* where Run is
    verdict      \* what Run returns

farVars == <<sent, fin, dead, ctxDone>>
copyVars == <<copier, copied, result, shut>>
runVars == <<taken, armed, forced, run, verdict>>
duplexVars == <<setup, farVars, copyVars, runVars>>

\* A Run that returns without counting the results it has not received.
remainingForgotten == 0

\* The results Run has not received.
remaining == 2 - (IF "in" \in taken THEN 1 ELSE 0) - (IF "out" \in taken THEN 1 ELSE 0)

NewDuplex ==
    /\ setup \in Setups
    /\ sent = [e \in Ends |-> 0]
    /\ fin = [e \in Ends |-> FALSE]
    /\ dead = [e \in Ends |-> FALSE]
    /\ shut = [e \in Ends |-> FALSE]
    /\ ctxDone = FALSE
    /\ copier = [e \in Ends |-> "copying"]
    /\ copied = [e \in Ends |-> 0]
    /\ result = [e \in Ends |-> "none"]
    /\ taken = {}
    /\ armed = FALSE
    /\ forced = FALSE
    /\ run = "select"
    /\ verdict = "none"

-----------------------------------------------------------------------------
(* The far sides and the caller.                                           *)

\* A chunk from the far side reaches this host.  What a broken connection
\* loses never does, and is not counted.
FarSends(e) ==
    /\ ~fin[e] /\ ~dead[e]
    /\ sent[e] < MaxChunks
    /\ sent' = [sent EXCEPT ![e] = @ + 1]
    /\ UNCHANGED <<setup, fin, dead, ctxDone, copyVars, runVars>>

FarFinishes(e) ==
    /\ ~fin[e] /\ ~dead[e]
    /\ fin' = [fin EXCEPT ![e] = TRUE]
    /\ UNCHANGED <<setup, sent, dead, ctxDone, copyVars, runVars>>

Breaks(e) ==
    /\ ~dead[e]
    /\ dead' = [dead EXCEPT ![e] = TRUE]
    /\ UNCHANGED <<setup, sent, fin, ctxDone, copyVars, runVars>>

CancelContext ==
    /\ ~ctxDone
    /\ ctxDone' = TRUE
    /\ UNCHANGED <<setup, sent, fin, dead, copyVars, runVars>>

-----------------------------------------------------------------------------
(* The copiers.                                                            *)

\* Every CloseWrite closing both directions of its connection.
EveryCloseWriteFull(e) == shut[e]

\* An end closed by a CloseWrite that closes everything.
FullyClosed(e) == shut[e] /\ e \in setup.fullClose

Readable(e) == ~forced /\ ~FullyClosed(e) /\ (dead[e] => e \in setup.muxed)
Writable(e) == ~forced /\ ~dead[e]

HasChunk(e) == copied[e] < sent[e]

\* A copy that takes the end of the session for the end of what it had to copy.
AtEOFEarly(e) == fin[e] \/ dead[e]

AtEOF(e) == copied[e] = sent[e] /\ (fin[e] \/ dead[e])

\* io.Copy moves one chunk.
CopyChunk(e) ==
    /\ copier[e] = "copying"
    /\ HasChunk(e)
    /\ Readable(e)
    /\ Writable(Other(e))
    /\ copied' = [copied EXCEPT ![e] = @ + 1]
    /\ UNCHANGED <<setup, farVars, copier, result, shut, runVars>>

\* io.Copy reads EOF and returns nil.
CopyEOF(e) ==
    /\ copier[e] = "copying"
    /\ AtEOF(e)
    /\ Readable(e)
    /\ copier' = [copier EXCEPT ![e] = "finishing"]
    /\ UNCHANGED <<setup, farVars, copied, result, shut, runVars>>

\* io.Copy fails: the read does, or the write of a chunk does.
CopyFails(e) ==
    /\ copier[e] = "copying"
    /\ ~Readable(e) \/ (HasChunk(e) /\ ~Writable(Other(e)))
    /\ copier' = [copier EXCEPT ![e] = "posted"]
    /\ result' = [result EXCEPT ![e] = "error"]
    /\ UNCHANGED <<setup, farVars, copied, shut, runVars>>

(***************************************************************************)
(* CloseWrite(to), whose own error is posted in place of nil.  On an end   *)
(* that is already broken or force-closed it may fail or not.              *)
(***************************************************************************)
Finish(e) ==
    /\ copier[e] = "finishing"
    /\ copier' = [copier EXCEPT ![e] = "posted"]
    /\ shut' = [shut EXCEPT ![Other(e)] = TRUE]
    /\ \/ result' = [result EXCEPT ![e] = "nil"]
       \/ ~Writable(Other(e)) /\ result' = [result EXCEPT ![e] = "error"]
    /\ UNCHANGED <<setup, farVars, copied, runVars>>

CopierStep(e) == CopyChunk(e) \/ CopyEOF(e) \/ CopyFails(e) \/ Finish(e)

-----------------------------------------------------------------------------
(* Run.                                                                    *)

Received(e) == e \in Ends \ taken /\ copier[e] = "posted"

\* A Run that takes the first nil result for the end of the transfer.
LastResultAlways(e) == TRUE

LastResult(e) == Other(e) \in taken

\* A result arrives: an error ends Run, the first nil arms the drain timer,
\* the second ends the loop.
TakeResult(e) ==
    /\ run = "select"
    /\ Received(e)
    /\ taken' = taken \cup {e}
    /\ \/ /\ result[e] = "error"
          /\ verdict' = "copy"
          /\ run' = "force"
          /\ UNCHANGED armed
       \/ /\ result[e] = "nil"
          /\ ~LastResult(e)
          /\ armed' = TRUE
          /\ UNCHANGED <<run, verdict>>
       \/ /\ result[e] = "nil"
          /\ LastResult(e)
          /\ verdict' = "nil"
          /\ run' = "force"
          /\ UNCHANGED armed
    /\ UNCHANGED <<setup, farVars, copyVars, forced>>

\* A select that does not watch the context, and one that does not watch the
\* drain timer.
CancelUnseen == FALSE
DrainUnseen == FALSE

CancelSeen == ctxDone
DrainSeen == armed

\* The context is done, or the drain timer fires.
Interrupted ==
    /\ run = "select"
    /\ \/ CancelSeen /\ verdict' = "cancelled"
       \/ DrainSeen /\ verdict' = "drain"
    /\ run' = "force"
    /\ UNCHANGED <<setup, farVars, copyVars, taken, armed, forced>>

\* The deferred forceClose.
forceClose ==
    /\ run = "force"
    /\ forced' = TRUE
    /\ run' = "join"
    /\ UNCHANGED <<setup, farVars, copyVars, taken, armed, verdict>>

\* The deferred loop that receives the results still outstanding.
JoinCopier(e) ==
    /\ run = "join"
    /\ Received(e)
    /\ taken' = taken \cup {e}
    /\ UNCHANGED <<setup, farVars, copyVars, armed, forced, run, verdict>>

Return ==
    /\ run = "join"
    /\ remaining = 0
    /\ run' = "returned"
    /\ UNCHANGED <<setup, farVars, copyVars, taken, armed, forced, verdict>>

RunStep ==
    \/ \E e \in Ends : TakeResult(e) \/ JoinCopier(e)
    \/ Interrupted \/ forceClose \/ Return

DuplexNext ==
    \/ CancelContext
    \/ \E e \in Ends : FarSends(e) \/ FarFinishes(e) \/ Breaks(e) \/ CopierStep(e)
    \/ RunStep

DuplexSpec == NewDuplex /\ [][DuplexNext]_duplexVars

\* The goroutines are scheduled, and the drain timer, once armed, fires.
DuplexFairSpec ==
    /\ DuplexSpec
    /\ \A e \in Ends : WF_duplexVars(CopierStep(e))
    /\ WF_duplexVars(RunStep)

-----------------------------------------------------------------------------
(* Properties.                                                             *)

\* Every variable has its type.
DuplexTypeOK ==
    /\ setup \in Setups
    /\ sent \in [Ends -> 0..MaxChunks]
    /\ fin \in [Ends -> BOOLEAN]
    /\ dead \in [Ends -> BOOLEAN]
    /\ shut \in [Ends -> BOOLEAN]
    /\ ctxDone \in BOOLEAN
    /\ copier \in [Ends -> {"copying", "finishing", "posted"}]
    /\ copied \in [Ends -> 0..MaxChunks]
    /\ result \in [Ends -> {"none", "nil", "error"}]
    /\ taken \subseteq Ends
    /\ armed \in BOOLEAN
    /\ forced \in BOOLEAN
    /\ run \in {"select", "force", "join", "returned"}
    /\ verdict \in {"none", "nil", "copy", "cancelled", "drain"}

(***************************************************************************)
(* Run propagates FIN on EOF: an end is half-closed only after everything  *)
(* that reached this host for it has been written to it.                   *)
(***************************************************************************)
NoFinBeforeData ==
    \A e \in Ends :
        shut[Other(e)] => copied[e] = sent[e] /\ (fin[e] \/ dead[e])

(***************************************************************************)
(* A Run that returns nil has moved everything that reached this host,     *)
(* both ways, and has half-closed both ends: an EOF in one direction never *)
(* passes for the end of the whole transfer.  What a broken session lost   *)
(* on its way here is not known to it, since yamux reads as EOF then.      *)
(***************************************************************************)
NilMeansComplete ==
    verdict = "nil" => \A e \in Ends : shut[e] /\ copied[e] = sent[e]

(***************************************************************************)
(* "Run propagates FIN on EOF, allowing the reverse direction a bounded    *)
(* drain" (duplex.go:28): a far side that has finished gets its FIN        *)
(* through to the other end, also when the other direction ended first and *)
(* Run might leave.  What may keep it from that is a broken connection,    *)
(* the context, the drain timer, or, at the proxy only, that the end it    *)
(* came in at was closed outright when the other direction ended           *)
(* (listener.go:161).                                                      *)
(***************************************************************************)
FinIsPropagated ==
    \A e \in Ends :
        fin[e] ~> \/ shut[Other(e)]
                  \/ \E f \in Ends : dead[f]
                  \/ ctxDone
                  \/ verdict = "drain"
                  \/ e \in setup.fullClose /\ shut[e]

\* "all workers are joined": when Run has returned, no copier runs and both
\* connections are closed.
ReturnJoinsCopiers ==
    run = "returned" => forced /\ \A e \in Ends : copier[e] = "posted"

(***************************************************************************)
(* A direction that ended is followed by the end of Run: the drain is      *)
(* bounded even if the other far side never finishes.                      *)
(***************************************************************************)
DrainIsBounded ==
    (\E e \in Ends : copier[e] # "copying") ~> (run = "returned")

\* Cancelling the context ends Run.
CancelEndsRun == ctxDone ~> (run = "returned")
=============================================================================
