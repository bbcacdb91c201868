-------------------------- MODULE MCBrowserBridge --------------------------
(* Instances of BrowserBridge for TLC.                                     *)
EXTENDS BrowserBridge

CONSTANTS chrome, edge, open, post

OnlyChrome == [e \in Clients |-> IF e = chrome THEN 1 ELSE 0]
NoRestarts == [e \in Clients |-> 0]
=============================================================================
