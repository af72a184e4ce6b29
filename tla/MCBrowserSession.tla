-------------------------- MODULE MCBrowserSession --------------------------
(* Small instances of BrowserSession for the model checker. *)
EXTENDS BrowserSession

CONSTANTS ann, bob, sales, desk
=============================================================================
