------------------------------ MODULE MCProcess ------------------------------
(* Process on launches that are sound, incomplete or ill provisioned.      *)
EXTENDS Process

RelayFlags == {"listen", "tls-cert", "tls-key", "exit-token-file", "proxy-token-file"}
ProxyFlags == {"listen", "relay", "token-file", "ca"}

Launch(m, f, u, d) == [mode |-> m, flags |-> f, unreadable |-> u, debug |-> d]

MCLaunches ==
    {Launch("relay", RelayFlags, {}, TRUE), Launch("proxy", ProxyFlags, {}, TRUE),
     Launch("relay", RelayFlags, {"tls-key"}, FALSE),
     Launch("proxy", ProxyFlags \ {"listen"}, {}, FALSE),
     Launch("exit-node", {"relay", "token-file", "ca"}, {"ca"}, TRUE),
     Launch("proxy", ProxyFlags \cup {"username"}, {}, TRUE),
     Launch("exit-node", ProxyFlags, {"."}, TRUE),
     Launch("exit-node", ProxyFlags, {"token-file"}, TRUE),
     Launch("client", ProxyFlags, {}, TRUE)}
=============================================================================
