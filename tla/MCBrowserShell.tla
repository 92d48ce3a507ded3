--------------------------- MODULE MCBrowserShell ---------------------------
(***************************************************************************)
(* An instance of BrowserShell for TLC: two addresses, and a third that    *)
(* redirects to the second.                                                *)
(***************************************************************************)
EXTENDS BrowserShell

MCUrls == {"home", "other", "moved"}
MCLand == [u \in MCUrls |-> IF u = "moved" THEN "other" ELSE u]
=============================================================================
