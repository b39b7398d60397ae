------------------------------- MODULE Process -------------------------------
(***************************************************************************)
(* cmd/mhp/main.go with internal/config/config.go and the files of         *)
(* internal/logging/logging.go: processes started side by side in one      *)
(* directory, from their flags to their exit codes.  What a mode's runner  *)
(* does while it serves is in the other modules; here it ends when it is   *)
(* cancelled, or when its listener fails.                                  *)
(***************************************************************************)
EXTENDS Naturals, FiniteSets

CONSTANTS
    Procs,
    Launches,      \* ways to start: [mode, flags, unreadable, debug]
    MaxAttempts,   \* maxDebugCollisionAttempts
    Seconds        \* bound: the clock shows 1..Seconds

ASSUME ProcessAssumption == MaxAttempts \in Nat \ {0} /\ Seconds \in Nat \ {0}

VARIABLES
    launch,      \* per process: how it was started
    pc,          \* per process: where run is
    cancelled,   \* processes whose context is done
    now,         \* the second the clock shows
    files,       \* the debug files there are: [mode, second, suffix]
    second,      \* per process: the second in its debug file's name
    attempt,     \* per process: the loop variable of openDebugFile
    log,         \* per process: the debug files it has open
    listening,   \* processes that hold the listen address, which all share
    trust,       \* clients whose rootCAs is the pool of their CA file
    fixed,       \* processes whose CA file has been corrected since they started
    broken,      \* processes whose listener failed while they served
    code         \* per process: its exit code, noCode while it runs

nameVars == <<now, files, second, attempt>>
caVars == <<trust, fixed>>
procVars == <<launch, pc, cancelled, nameVars, log, listening, caVars, broken, code>>

RunPCs == {"parse", "load", "open", "start", "serve", "close", "exited"}
Names == [mode : {launch[p].mode : p \in Procs}, second : 1..Seconds,
          suffix : 0..MaxAttempts - 1]

exitOK == 0
exitProvision == 2
noCode == 99

\* A run that ended within this second may have left its file.
Earlier == {n \in Names : n.second = 1 /\ n.suffix = 0}

Init ==
    /\ launch \in [Procs -> Launches]
    /\ pc = [p \in Procs |-> "parse"]
    /\ cancelled = {}
    /\ now = 1
    /\ files \in {{}, Earlier}
    /\ second = [p \in Procs |-> 0]
    /\ attempt = [p \in Procs |-> 0]
    /\ log = [p \in Procs |-> {}]
    /\ listening = {}
    /\ trust = {}
    /\ fixed = {}
    /\ broken = {}
    /\ code = [p \in Procs |-> noCode]

\* Every error run returns leaves through the same code.
Exits(p, c) ==
    /\ pc' = [pc EXCEPT ![p] = "exited"]
    /\ code' = [code EXCEPT ![p] = c]

-----------------------------------------------------------------------------
(* Load.                                                                   *)

\* validate's required flags; build carries no others that matter.
Required(mode) ==
    CASE mode = "relay" -> {"listen", "tls-cert", "tls-key", "exit-token-file",
                            "proxy-token-file"}
      [] mode = "exit-node" -> {"relay", "token-file"}
      [] mode = "proxy" -> {"relay", "token-file"}

\* build and validate.
Valid(l) ==
    /\ l.mode \in {"relay", "exit-node", "proxy"}
    /\ Required(l.mode) \subseteq l.flags
    /\ l.mode = "proxy" => ("username" \in l.flags <=> "password" \in l.flags)

loadTokens(l) ==
    l.unreadable \cap {"exit-token-file", "proxy-token-file", "token-file"}
                 \cap Required(l.mode) = {}

Load(p) ==
    /\ pc[p] = "load"
    /\ \/ /\ Valid(launch[p]) /\ loadTokens(launch[p])
          /\ pc' = [pc EXCEPT ![p] = IF launch[p].debug THEN "open" ELSE "start"]
          /\ second' = [second EXCEPT ![p] = now]
          /\ UNCHANGED code
       \/ /\ ~(Valid(launch[p]) /\ loadTokens(launch[p]))
          /\ Exits(p, exitProvision)
          /\ UNCHANGED second
    /\ UNCHANGED <<launch, cancelled, now, files, attempt, log, listening, caVars, broken>>

-----------------------------------------------------------------------------
(* openDebugFile.                                                          *)

NameOf(p) == [mode |-> launch[p].mode, second |-> second[p], suffix |-> attempt[p]]

\* A create that opens the file that is there.
Truncating(n) == TRUE

\* O_EXCL.
MayCreate(n) == n \notin files

MoreNames(p) == attempt[p] < MaxAttempts

\* One turn of the loop: the name is reserved, or taken and the next one tried.
Reserve(p) ==
    /\ pc[p] = "open"
    /\ "." \notin launch[p].unreadable
    /\ MoreNames(p)
    /\ \/ /\ MayCreate(NameOf(p))
          /\ files' = files \cup {NameOf(p)}
          /\ log' = [log EXCEPT ![p] = {NameOf(p)}]
          /\ pc' = [pc EXCEPT ![p] = "start"]
          /\ UNCHANGED attempt
       \/ /\ ~MayCreate(NameOf(p))
          /\ attempt' = [attempt EXCEPT ![p] = @ + 1]
          /\ UNCHANGED <<files, log, pc>>
    /\ UNCHANGED <<launch, cancelled, now, second, listening, caVars, broken, code>>

Exhausted(p) == attempt[p] = MaxAttempts

\* No name left, or a directory that cannot be written: a startup error.
OpenFails(p) ==
    /\ pc[p] = "open"
    /\ Exhausted(p) \/ "." \in launch[p].unreadable
    /\ Exits(p, exitProvision)
    /\ UNCHANGED <<launch, cancelled, nameVars, log, listening, caVars, broken>>

-----------------------------------------------------------------------------
(* runMode and the runners.                                                *)

\* All relays and proxies here are given the same address; a proxy that is given
\* none listens on a port of its own.
UsesAddress(p) == launch[p].mode # "exit-node" /\ "listen" \in launch[p].flags

\* The relay's certificate, then the listener; an unreadable CA is no failure.
Starts(p) ==
    /\ launch[p].mode = "relay" => {"tls-cert", "tls-key"} \cap launch[p].unreadable = {}
    /\ UsesAddress(p) => listening = {}

\* transport.LoadTrustPool, which runExit and runProxy call once, before they
\* build the authenticator that keeps its result.
LoadTrustPool(p) ==
    /\ launch[p].mode # "relay"
    /\ "ca" \in launch[p].flags
    /\ "ca" \in launch[p].unreadable => p \in fixed

Start(p) ==
    /\ pc[p] = "start"
    /\ Starts(p)
    /\ listening' = listening \cup {q \in {p} : UsesAddress(q)}
    /\ trust' = trust \cup {q \in {p} : LoadTrustPool(q)}
    /\ pc' = [pc EXCEPT ![p] = "serve"]
    /\ UNCHANGED <<launch, cancelled, nameVars, log, fixed, broken, code>>

\* A runMode that reports whatever the runner returns.
ReportAlways(p) == TRUE

\* runMode swallows the error of a cancelled runner.
Reported(p) == p \notin cancelled

\* A startup failure, through the deferred Close of the log.
StartFails(p) ==
    /\ pc[p] = "start"
    /\ ~Starts(p)
    /\ Exits(p, IF Reported(p) THEN exitProvision ELSE exitOK)
    /\ log' = [log EXCEPT ![p] = {}]
    /\ UNCHANGED <<launch, cancelled, nameVars, listening, caVars, broken>>

\* External: Accept returns an error though nobody closed the listener.
ListenerFails(p) ==
    /\ pc[p] = "serve"
    /\ p \notin broken
    /\ launch[p].mode # "exit-node"
    /\ broken' = broken \cup {p}
    /\ UNCHANGED <<launch, pc, cancelled, nameVars, log, listening, caVars, code>>

(***************************************************************************)
(* A runner returns.  The relay's Service.Run also returns after its       *)
(* listener failed, with ctx.Err(), nil then; a proxy whose listener       *)
(* failed waits for its connector until it is cancelled.                   *)
(***************************************************************************)
RunnerReturns(p) ==
    /\ pc[p] = "serve"
    /\ p \in cancelled \/ (p \in broken /\ launch[p].mode = "relay")
    /\ listening' = listening \ {p}
    /\ pc' = [pc EXCEPT ![p] = "close"]
    /\ UNCHANGED <<launch, cancelled, nameVars, log, caVars, broken, code>>

\* What a runner returned is the error of a cancelled context, or nil.
Returns(p) ==
    /\ pc[p] = "close"
    /\ log' = [log EXCEPT ![p] = {}]
    /\ Exits(p, IF p \in cancelled /\ Reported(p) THEN exitProvision ELSE exitOK)
    /\ UNCHANGED <<launch, cancelled, nameVars, listening, caVars, broken>>

-----------------------------------------------------------------------------
(* Flags, signals and the clock.                                           *)

\* parseFlags, then NotifyContext.
Parse(p) ==
    /\ pc[p] = "parse"
    /\ \/ pc' = [pc EXCEPT ![p] = "load"] /\ UNCHANGED code
       \/ Exits(p, exitProvision)
    /\ UNCHANGED <<launch, cancelled, nameVars, log, listening, caVars, broken>>

Signal(p) ==
    /\ pc[p] \notin {"parse", "exited"}
    /\ p \notin cancelled
    /\ cancelled' = cancelled \cup {p}
    /\ UNCHANGED <<launch, pc, nameVars, log, listening, caVars, broken, code>>

\* External: the operator puts a readable CA file in place.
CorrectCA(p) ==
    /\ "ca" \in launch[p].unreadable
    /\ p \notin fixed
    /\ fixed' = fixed \cup {p}
    /\ UNCHANGED <<launch, pc, cancelled, nameVars, log, listening, trust, broken, code>>

Tick ==
    /\ now < Seconds
    /\ now' = now + 1
    /\ UNCHANGED <<launch, pc, cancelled, files, second, attempt, log, listening, caVars, broken, code>>

RunStep(p) ==
    \/ Parse(p) \/ Load(p) \/ Reserve(p) \/ OpenFails(p)
    \/ Start(p) \/ StartFails(p) \/ RunnerReturns(p) \/ Returns(p)

Next ==
    \/ Tick
    \/ \E p \in Procs : RunStep(p) \/ Signal(p) \/ ListenerFails(p) \/ CorrectCA(p)

ProcessSafety == Init /\ [][Next]_procVars

\* Every process runs; nothing makes a listener fail, a signal come
\* or an operator act.
ProcessSpec == ProcessSafety /\ \A p \in Procs : WF_procVars(RunStep(p))

-----------------------------------------------------------------------------
(* Properties.                                                             *)

\* Every variable has its type.
ProcTypeOK ==
    /\ pc \in [Procs -> RunPCs]
    /\ cancelled \subseteq Procs
    /\ now \in 1..Seconds
    /\ files \subseteq Names
    /\ second \in [Procs -> 0..Seconds]
    /\ attempt \in [Procs -> 0..MaxAttempts]
    /\ \A p \in Procs : log[p] \subseteq files
    /\ \A set \in {listening, trust, fixed, broken} : set \subseteq Procs
    /\ code \in [Procs -> {exitOK, exitProvision, noCode}]

(***************************************************************************)
(* "two simultaneous runs never clobber each other" (logging.go:10): no    *)
(* two processes have the same debug file open, whatever second they start *)
(* in.                                                                     *)
(***************************************************************************)
DebugFilesExclusive ==
    \A p, q \in Procs : p # q => log[p] \cap log[q] = {}

(***************************************************************************)
(* "a context cancellation is not a failure and yields nil" (main.go:117): *)
(* a process that is cancelled after its provisioning exits with 0, and    *)
(* with its debug file closed, even if a startup failure comes on top.     *)
(***************************************************************************)
CancelledExitsClean ==
    \A p \in Procs :
        (p \in cancelled /\ pc[p] \in {"start", "serve", "close"})
            ~> (code[p] = exitOK /\ log[p] = {})

-----------------------------------------------------------------------------
(* What the documentation says and the code does not guarantee.            *)

(***************************************************************************)
(* "the connector retries forever, so corrected provisioning recovers      *)
(* without a process restart" (main.go:201-202, 241-242): a running client *)
(* whose CA file has been corrected comes to trust it, unless it is        *)
(* stopped.                                                                *)
(***************************************************************************)
CorrectedCARecovers ==
    \A p \in Procs :
        (p \in fixed /\ pc[p] = "serve") ~> (p \in trust \/ p \in cancelled)
=============================================================================
