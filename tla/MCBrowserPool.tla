--------------------------- MODULE MCBrowserPool ---------------------------
(* Instances of BrowserPool for TLC.                                       *)
EXTENDS BrowserPool
=============================================================================
