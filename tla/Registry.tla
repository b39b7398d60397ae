------------------------------ MODULE Registry ------------------------------
(***************************************************************************)
(* internal/relay/registry.go: at most one live session per role, each     *)
(* registration identified by a generation number.  Every method runs      *)
(* under Registry.mu from its first line to its last, so each is one step. *)
(***************************************************************************)
EXTENDS Naturals

CONSTANTS
    Sessions,    \* authenticated yamux sessions that may ever exist
    NoSession    \* the nil *yamux.Session

ASSUME NoSessionAssumption == NoSession \notin Sessions

Roles == {"exit-node", "proxy"}     \* config.ModeExit, config.ModeProxy

VARIABLE
    slots        \* Registry.slots: role -> [mux, gen]

(***************************************************************************)
(* A role the map has no entry for is a slot holding no mux at generation  *)
(* 0; Register creates the entry and then increments, so generation 0 is   *)
(* never handed out.  The uint64 counter cannot wrap in practice.          *)
(***************************************************************************)
RegistryTypeOK ==
    slots \in [Roles -> [mux : Sessions \cup {NoSession}, gen : Nat]]

NewRegistry ==
    slots = [r \in Roles |-> [mux |-> NoSession, gen |-> 0]]

\* A Register that hands out the generation before incrementing it.
NextGenStale(r) == slots[r].gen

\* The generation the next Register of the role returns, and the session it
\* returns for the caller to close outside the lock.
NextGen(r) == slots[r].gen + 1
Previous(r) == slots[r].mux

Register(r, s) ==
    slots' = [slots EXCEPT ![r] = [mux |-> s, gen |-> NextGen(r)]]

\* Current: ok is (result # NoSession).
Current(r) == slots[r].mux

\* A cleanup that forgets to compare generations.
HoldsUnchecked(r, g) == TRUE

\* A cleanup whose comparison has become "not older than mine".
HoldsNotNewer(r, g) == slots[r].gen >= g

\* The registration of generation g is still the slot's.
Holds(r, g) == slots[r].gen = g

Vacate(r, g) ==
    slots' = IF Holds(r, g)
             THEN [slots EXCEPT ![r] = [mux |-> NoSession, gen |-> NextGen(r)]]
             ELSE slots
=============================================================================
