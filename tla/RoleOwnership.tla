---------------------------- MODULE RoleOwnership ----------------------------
(***************************************************************************)
(* What the relay promises about roles, without goroutines, generations or *)
(* locks: a role has at most one owner; a session takes a role over once,  *)
(* keeps it until it is taken over or has ended, and a session that lost   *)
(* its role is brought to an end.                                          *)
(***************************************************************************)
EXTENDS Naturals

CONSTANTS Sessions, NoSession, Roles, RoleOf

VARIABLES
    owner,     \* role -> the session that owns it, or NoSession
    claimed,   \* sessions that have owned their role at some time
    ended      \* sessions that are over

ownVars == <<owner, claimed, ended>>

OwnInit ==
    /\ owner = [r \in Roles |-> NoSession]
    /\ claimed = {}
    /\ ended = {}

\* s takes its role over, whoever owns it.
Claim(s) ==
    /\ s \notin claimed
    /\ owner' = [owner EXCEPT ![RoleOf[s]] = s]
    /\ claimed' = claimed \cup {s}
    /\ UNCHANGED ended

\* A role is given up only by its owner, and only after the owner's end.
Release(s) ==
    /\ owner[RoleOf[s]] = s
    /\ s \in ended
    /\ owner' = [owner EXCEPT ![RoleOf[s]] = NoSession]
    /\ UNCHANGED <<claimed, ended>>

End(s) ==
    /\ s \notin ended
    /\ ended' = ended \cup {s}
    /\ UNCHANGED <<owner, claimed>>

Displaced(s) == s \in claimed /\ owner[RoleOf[s]] # s

OwnNext == \E s \in Sessions : Claim(s) \/ Release(s) \/ End(s)

OwnSafety == OwnInit /\ [][OwnNext]_ownVars

OwnSpec ==
    /\ OwnSafety
    /\ \A s \in Sessions : /\ WF_ownVars(Release(s))
                           /\ WF_ownVars(Displaced(s) /\ End(s))
=============================================================================
