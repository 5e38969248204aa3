--------------------------- MODULE MCClipboardDaemon ---------------------------
(***************************************************************************)
(* A small instance of ClipboardDaemon for TLC.                            *)
(***************************************************************************)
EXTENDS ClipboardDaemon

CONSTANTS shot, h1, h2
=============================================================================
