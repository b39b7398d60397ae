----------------------------- MODULE MCHandshake -----------------------------
(* Handshake with bearers of which one is not UTF-8 and comes out of JSON  *)
(* as another, and one is too long for a frame.                            *)
EXTENDS Handshake

MCBearers == {"text", "replaced", "binary", "long"}

MCCarried == [t \in MCBearers |-> IF t = "binary" THEN "replaced" ELSE t]
=============================================================================
