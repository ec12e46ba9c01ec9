--------------------------- MODULE MCBrowserChat ---------------------------
(* Two pages, and connections enough to connect again. *)
EXTENDS BrowserChat
=============================================================================
