------------------------------- MODULE MCRelay -------------------------------
(***************************************************************************)
(* Instances of RelayService for TLC.  Exits and Proxies are the client    *)
(* connections of each role that may ever be made; a cfg chooses them.     *)
(***************************************************************************)
EXTENDS RelayService, TLC

CONSTANTS Exits, Proxies

MCSessions == Exits \cup Proxies
MCRoleOf == [s \in MCSessions |-> IF s \in Exits THEN "exit-node" ELSE "proxy"]

\* Connections of one role are interchangeable, and so are streams.
Symmetry == Permutations(Exits) \cup Permutations(Proxies) \cup Permutations(Streams)
=============================================================================
