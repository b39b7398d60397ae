---------------------------- MODULE DuplexProofs ----------------------------
(***************************************************************************)
(* Proofs about Duplex: for every kind of connection pair and any number   *)
(* of chunks, the invariants the run checks follow from DuplexInv, which   *)
(* is inductive.                                                           *)
(***************************************************************************)
EXTENDS Duplex, TLAPS

\* A copier has a result exactly when it has posted it, and moves nothing that
\* was not sent.
CopierInv ==
    \A e \in Ends :
        /\ copied[e] <= sent[e]
        /\ copier[e] = "posted" <=> result[e] # "none"

\* From its EOF on a copier's direction is complete, and stays so.
DirectionInv ==
    \A e \in Ends :
        /\ copier[e] = "finishing" \/ result[e] = "nil" \/ shut[Other(e)] =>
               copied[e] = sent[e] /\ (fin[e] \/ dead[e])
        /\ result[e] = "nil" => shut[Other(e)]

\* What Run knows of its copiers, and when it has a verdict.
RunInv ==
    /\ \A e \in taken : copier[e] = "posted"
    /\ run = "select" => \A e \in taken : result[e] = "nil"
    /\ verdict = "nil" => \A e \in Ends : result[e] = "nil"
    /\ run \in {"join", "returned"} => forced
    /\ run = "returned" => taken = Ends

DuplexInv ==
    /\ DuplexTypeOK
    /\ CopierInv
    /\ DirectionInv
    /\ RunInv

-----------------------------------------------------------------------------

\* Every variable of Duplex starts in its type and keeps it.
LEMMA DuplexTypes ==
    ASSUME DuplexTypeOK, [DuplexNext]_duplexVars
    PROVE  DuplexTypeOK'
<1> USE DEF DuplexTypeOK, farVars, copyVars, runVars, Ends
<1>1. CASE CancelContext
  BY <1>1 DEF CancelContext
<1>2. ASSUME NEW e \in Ends, FarSends(e) PROVE DuplexTypeOK'
  BY <1>2, DuplexAssumption DEF FarSends
<1>3. ASSUME NEW e \in Ends, FarFinishes(e) PROVE DuplexTypeOK'
  BY <1>3 DEF FarFinishes
<1>4. ASSUME NEW e \in Ends, Breaks(e) PROVE DuplexTypeOK'
  BY <1>4 DEF Breaks
<1>5. ASSUME NEW e \in Ends, CopyChunk(e) PROVE DuplexTypeOK'
  BY <1>5, DuplexAssumption DEF CopyChunk, HasChunk
<1>6. ASSUME NEW e \in Ends, CopyEOF(e) PROVE DuplexTypeOK'
  BY <1>6 DEF CopyEOF
<1>7. ASSUME NEW e \in Ends, CopyFails(e) PROVE DuplexTypeOK'
  BY <1>7 DEF CopyFails
<1>8. ASSUME NEW e \in Ends, Finish(e) PROVE DuplexTypeOK'
  BY <1>8 DEF Finish, Other
<1>9. ASSUME NEW e \in Ends, TakeResult(e) \/ JoinCopier(e) PROVE DuplexTypeOK'
  BY <1>9 DEF TakeResult, JoinCopier
<1>10. CASE Interrupted \/ forceClose \/ Return
  BY <1>10 DEF Interrupted, forceClose, Return
<1>11. CASE UNCHANGED duplexVars
  BY <1>11 DEF duplexVars
<1> QED
  BY <1>1, <1>2, <1>3, <1>4, <1>5, <1>6, <1>7, <1>8, <1>9, <1>10, <1>11
     DEF DuplexNext, CopierStep, RunStep
\* When Run counts no outstanding result, it has received both.
LEMMA NoneRemaining == remaining = 0 => "in" \in taken /\ "out" \in taken
<1>1. CASE "in" \in taken
  BY <1>1 DEF remaining
<1>2. CASE "in" \notin taken
  <2>1. CASE "out" \in taken
    BY <1>2, <2>1 DEF remaining
  <2>2. CASE "out" \notin taken
    BY <1>2, <2>2 DEF remaining
  <2> QED
    BY <2>1, <2>2
<1> QED
  BY <1>1, <1>2

(***************************************************************************)
(* DuplexInv is inductive: whatever the far sides, the copiers and Run do, *)
(* in any order, every step keeps it.                                      *)
(***************************************************************************)
THEOREM DuplexInvariant == DuplexSpec => []DuplexInv
<1> USE DEF farVars, copyVars, runVars, Ends, Other
<1>1. NewDuplex => DuplexInv
  <2> SUFFICES ASSUME NewDuplex PROVE DuplexInv
    OBVIOUS
  <2>1. DuplexTypeOK
    <3>1. /\ sent \in [Ends -> 0..MaxChunks]
          /\ copied \in [Ends -> 0..MaxChunks]
      BY DuplexAssumption DEF NewDuplex
    <3>2. /\ copier \in [Ends -> {"copying", "finishing", "posted"}]
          /\ result \in [Ends -> {"none", "nil", "error"}]
          /\ run \in {"select", "force", "join", "returned"}
          /\ verdict \in {"none", "nil", "copy", "cancelled", "drain"}
      BY DEF NewDuplex
    <3>3. /\ setup \in Setups
          /\ fin \in [Ends -> BOOLEAN]
          /\ dead \in [Ends -> BOOLEAN]
          /\ shut \in [Ends -> BOOLEAN]
          /\ ctxDone \in BOOLEAN /\ armed \in BOOLEAN /\ forced \in BOOLEAN
          /\ taken \subseteq Ends
      BY Zenon DEF NewDuplex
    <3> QED
      BY <3>1, <3>2, <3>3, Zenon DEF DuplexTypeOK
  <2>2. CopierInv /\ RunInv
    BY DEF NewDuplex, CopierInv, RunInv
  <2>3. DirectionInv
    BY DEF NewDuplex, DirectionInv
  <2> QED
    BY <2>1, <2>2, <2>3 DEF DuplexInv
<1>2. DuplexInv /\ [DuplexNext]_duplexVars => DuplexInv'
  <2> SUFFICES ASSUME DuplexInv, [DuplexNext]_duplexVars PROVE DuplexInv'
    OBVIOUS
  <2>0. DuplexTypeOK /\ DuplexTypeOK'
    BY DuplexTypes DEF DuplexInv
  <2> USE <2>0 DEF DuplexInv, DuplexTypeOK, CopierInv, DirectionInv, RunInv
  <2>1. CASE CancelContext
    BY <2>1 DEF CancelContext
  <2>2. ASSUME NEW e \in Ends, FarSends(e) PROVE DuplexInv'
    BY <2>2 DEF FarSends
  <2>3. ASSUME NEW e \in Ends, FarFinishes(e) PROVE DuplexInv'
    BY <2>3 DEF FarFinishes
  <2>4. ASSUME NEW e \in Ends, Breaks(e) PROVE DuplexInv'
    BY <2>4 DEF Breaks
  <2>5. ASSUME NEW e \in Ends, CopyChunk(e) PROVE DuplexInv'
    BY <2>5 DEF CopyChunk, HasChunk
  <2>6. ASSUME NEW e \in Ends, CopyEOF(e) PROVE DuplexInv'
    BY <2>6 DEF CopyEOF, AtEOF
  <2>7. ASSUME NEW e \in Ends, CopyFails(e) PROVE DuplexInv'
    BY <2>7 DEF CopyFails, Readable, Writable, FullyClosed
  <2>8. ASSUME NEW e \in Ends, Finish(e) PROVE DuplexInv'
    BY <2>8 DEF Finish, Writable
  <2>9. ASSUME NEW e \in Ends, TakeResult(e) PROVE DuplexInv'
    BY <2>9 DEF TakeResult, Received, LastResult
  <2>10. ASSUME NEW e \in Ends, JoinCopier(e) PROVE DuplexInv'
    BY <2>10 DEF JoinCopier, Received
  <2>11. CASE Interrupted
    BY <2>11 DEF Interrupted
  <2>12. CASE forceClose
    BY <2>12 DEF forceClose
  <2>13. CASE Return
    <3>1. "in" \in taken /\ "out" \in taken
      BY <2>13, NoneRemaining DEF Return
    <3>2. taken = {"in", "out"}
      BY <3>1, Zenon
    <3> QED
      BY <2>13, <3>2 DEF Return
  <2>14. CASE UNCHANGED duplexVars
    BY <2>14 DEF duplexVars
  <2> QED
    BY <2>1, <2>2, <2>3, <2>4, <2>5, <2>6, <2>7, <2>8, <2>9, <2>10, <2>11, <2>12, <2>13, <2>14
       DEF DuplexNext, CopierStep, RunStep
<1> QED
  BY <1>1, <1>2, PTL DEF DuplexSpec

(***************************************************************************)
(* Data before FIN: no end is half-closed before everything that reached   *)
(* this host for it has been written to it.                                *)
(***************************************************************************)
THEOREM FinTheorem == DuplexSpec => []NoFinBeforeData
<1>1. DuplexInv => NoFinBeforeData
  BY DEF DuplexInv, DirectionInv, NoFinBeforeData
<1> QED
  BY <1>1, DuplexInvariant, PTL

\* A Run that returns nil has moved everything, both ways.
THEOREM NilTheorem == DuplexSpec => []NilMeansComplete
<1>1. DuplexInv => NilMeansComplete
  BY DEF DuplexInv, DirectionInv, RunInv, NilMeansComplete, Ends, Other
<1> QED
  BY <1>1, DuplexInvariant, PTL

\* When Run has returned, both copiers have ended and both ends are closed.
THEOREM JoinTheorem == DuplexSpec => []ReturnJoinsCopiers
<1>1. DuplexInv => ReturnJoinsCopiers
  BY DEF DuplexInv, RunInv, ReturnJoinsCopiers
<1> QED
  BY <1>1, DuplexInvariant, PTL
=============================================================================
