------------------------------ MODULE MCDuplex ------------------------------
EXTENDS Duplex

\* The three pairs of connections the program hands to Duplex.
MCSetups == {RelaySetup, ProxySetup, ExitSetup}
=============================================================================
