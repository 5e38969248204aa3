--------------------------- MODULE MCClipboardServer ---------------------------
(***************************************************************************)
(* Small instances of ClipboardServer for TLC.                             *)
(***************************************************************************)
EXTENDS ClipboardServer

CONSTANTS shot, text     \* an image and a text
CONSTANTS h1, h2, h3     \* three requests, two of which get a slot

Symmetry == Permutations(Handler)
=============================================================================
