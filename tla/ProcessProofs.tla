---------------------------- MODULE ProcessProofs ----------------------------
(***************************************************************************)
(* Proofs about Process: for any number of processes, launches, names and  *)
(* seconds, no two processes share a debug file, and a process that has    *)
(* exited has closed its own.                                              *)
(***************************************************************************)
EXTENDS Process, TLAPS

\* A process opens what it reserved, and only between openDebugFile and the
\* deferred Close.
LogInv ==
    /\ log \in [Procs -> SUBSET files]
    /\ \A p \in Procs : pc[p] \in {"parse", "load", "open", "exited"} => log[p] = {}

\* The name openDebugFile tries next: the second is set by then, and the
\* suffix counts up to MaxAttempts, which is no suffix any more.
NameInv ==
    /\ second \in [Procs -> 0..Seconds]
    /\ attempt \in [Procs -> 0..MaxAttempts]
    /\ now \in 1..Seconds
    /\ \A p \in Procs : pc[p] = "open" => second[p] \in 1..Seconds
    /\ files \subseteq Names

\* A process has an exit code when, and only when, it has exited.
CodeInv ==
    /\ pc \in [Procs -> RunPCs]
    /\ code \in [Procs -> {exitOK, exitProvision, noCode}]
    /\ \A p \in Procs : pc[p] = "exited" <=> code[p] # noCode

ProcInv == NameInv /\ CodeInv /\ LogInv /\ DebugFilesExclusive

\* A process that has exited reports one of run's codes and has no debug file
\* open: every path from openDebugFile to an exit runs the deferred Close.
ExitedClosesLog ==
    \A p \in Procs :
        pc[p] = "exited" => log[p] = {} /\ code[p] \in {exitOK, exitProvision}

-----------------------------------------------------------------------------

\* ProcInv holds when the processes are started.
LEMMA ProcInvInit == Init => ProcInv
<1> SUFFICES ASSUME Init PROVE ProcInv
  OBVIOUS
<1>1. NameInv
  BY ProcessAssumption DEF Init, NameInv, Earlier
<1>2. CodeInv
  BY DEF Init, CodeInv, RunPCs, exitOK, exitProvision, noCode
<1>3. LogInv /\ DebugFilesExclusive
  BY DEF Init, LogInv, DebugFilesExclusive
<1> QED
  BY <1>1, <1>2, <1>3 DEF ProcInv

\* The name a process tries is a name.
LEMMA NameOfIsName ==
    ASSUME NameInv, NEW p \in Procs, pc[p] = "open", attempt[p] < MaxAttempts
    PROVE  NameOf(p) \in Names
BY ProcessAssumption DEF NameInv, NameOf, Names

\* Every step of a process, the clock or the outside keeps ProcInv.
LEMMA ProcInvStep ==
    ASSUME ProcInv, [Next]_procVars
    PROVE  ProcInv'
<1>0. launch' = launch
  <2>1. \A p \in Procs : RunStep(p) => launch' = launch
    BY DEF RunStep, Parse, Load, Reserve, OpenFails, Start, StartFails, RunnerReturns,
       Returns
  <2>2. \A p \in Procs : Signal(p) \/ ListenerFails(p) \/ CorrectCA(p) => launch' = launch
    BY DEF Signal, ListenerFails, CorrectCA
  <2>3. Tick \/ UNCHANGED procVars => launch' = launch
    BY DEF Tick, procVars
  <2> QED
    BY <2>1, <2>2, <2>3 DEF Next
<1>0a. Names' = Names
  BY <1>0 DEF Names
<1> USE ProcessAssumption
    DEF ProcInv, NameInv, CodeInv, LogInv, DebugFilesExclusive, RunPCs, nameVars, Exits,
        exitOK, exitProvision, noCode
<1> USE <1>0a
<1>1. CASE Tick
  BY <1>1 DEF Tick
<1>2. ASSUME NEW p \in Procs, Signal(p) \/ ListenerFails(p) \/ CorrectCA(p) PROVE ProcInv'
  BY <1>2 DEF Signal, ListenerFails, CorrectCA
<1>3. ASSUME NEW p \in Procs, Parse(p) PROVE ProcInv'
  BY <1>3 DEF Parse
<1>4. ASSUME NEW p \in Procs, Load(p) PROVE ProcInv'
  BY <1>4 DEF Load
<1>5. ASSUME NEW p \in Procs, Reserve(p) PROVE ProcInv'
  BY <1>5, NameOfIsName DEF Reserve, MoreNames, MayCreate
<1>6. ASSUME NEW p \in Procs, OpenFails(p) PROVE ProcInv'
  BY <1>6 DEF OpenFails
<1>7. ASSUME NEW p \in Procs, Start(p) \/ RunnerReturns(p) PROVE ProcInv'
  BY <1>7 DEF Start, RunnerReturns
<1>8. ASSUME NEW p \in Procs, StartFails(p) \/ Returns(p) PROVE ProcInv'
  BY <1>8 DEF StartFails, Returns
<1>9. CASE UNCHANGED procVars
  BY <1>9 DEF procVars
<1> QED
  BY <1>1, <1>2, <1>3, <1>4, <1>5, <1>6, <1>7, <1>8, <1>9 DEF Next, RunStep

\* ProcInv is inductive: processes, clock, signals and operator in any order.
THEOREM ProcessInvariant == ProcessSafety => []ProcInv
BY ProcInvInit, ProcInvStep, PTL DEF ProcessSafety

(***************************************************************************)
(* "two simultaneous runs never clobber each other": no two processes have *)
(* the same debug file open.                                               *)
(***************************************************************************)
THEOREM DebugFilesTheorem == ProcessSafety => []DebugFilesExclusive
<1>1. ProcInv => DebugFilesExclusive
  BY DEF ProcInv
<1> QED
  BY <1>1, ProcessInvariant, PTL

\* An exited process has closed its debug file and reports a code of run.
THEOREM ExitTheorem == ProcessSafety => []ExitedClosesLog
<1>1. ProcInv => ExitedClosesLog
  BY DEF ProcInv, CodeInv, LogInv, ExitedClosesLog
<1> QED
  BY <1>1, ProcessInvariant, PTL

Running == {"start", "serve", "close"}

CleanlyExited(p) == pc[p] = "exited" /\ code[p] = exitOK /\ log[p] = {}

(***************************************************************************)
(* The only way out of a cancelled runner: it goes on, still cancelled, or *)
(* exits with 0 and its debug file closed, and an exit is final.           *)
(***************************************************************************)
OnlyCleanWayOut ==
    \A p \in Procs :
        /\ p \in cancelled /\ pc[p] \in Running =>
               p \in cancelled' /\ (pc'[p] \in Running \/ CleanlyExited(p)')
        /\ CleanlyExited(p) => CleanlyExited(p)'

(***************************************************************************)
(* The safety half of CancelledExitsClean: what a cancelled process can    *)
(* come to.  That it does come to it rests on fairness.                    *)
(***************************************************************************)
THEOREM CleanWayOutTheorem == ProcessSafety => [][OnlyCleanWayOut]_procVars
<1>1. ASSUME ProcInv, [Next]_procVars PROVE OnlyCleanWayOut \/ UNCHANGED procVars
  <2> SUFFICES ASSUME Next PROVE OnlyCleanWayOut
    BY <1>1
  <2> USE <1>1
      DEF ProcInv, CodeInv, LogInv, OnlyCleanWayOut, CleanlyExited, Running, RunPCs,
          Exits, exitOK, exitProvision, noCode
  <2>1. CASE Tick
    BY <2>1 DEF Tick
  <2>2. ASSUME NEW q \in Procs, Signal(q) \/ ListenerFails(q) \/ CorrectCA(q)
        PROVE  OnlyCleanWayOut
    BY <2>2 DEF Signal, ListenerFails, CorrectCA
  <2>3. ASSUME NEW q \in Procs, Parse(q) \/ Load(q) \/ Reserve(q) \/ OpenFails(q)
        PROVE  OnlyCleanWayOut
    BY <2>3 DEF Parse, Load, Reserve, OpenFails
  <2>4. ASSUME NEW q \in Procs, Start(q) \/ RunnerReturns(q) PROVE OnlyCleanWayOut
    BY <2>4 DEF Start, RunnerReturns
  <2>5. ASSUME NEW q \in Procs, StartFails(q) \/ Returns(q) PROVE OnlyCleanWayOut
    BY <2>5 DEF StartFails, Returns, Reported
  <2> QED
    BY <2>1, <2>2, <2>3, <2>4, <2>5 DEF Next, RunStep
<1> QED
  BY <1>1, ProcessInvariant, PTL DEF ProcessSafety
=============================================================================
