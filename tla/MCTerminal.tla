---------------------------- MODULE MCTerminal ----------------------------
EXTENDS Terminal
BothModes == [mic : BOOLEAN, streams : BOOLEAN]
Talking == {[mic |-> TRUE, streams |-> TRUE]}
=============================================================================
