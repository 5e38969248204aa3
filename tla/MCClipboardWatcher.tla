-------------------------- MODULE MCClipboardWatcher --------------------------
(***************************************************************************)
(* Small instances of ClipboardWatcher for TLC.  Of the times only the      *)
(* order matters: a tick after a late one comes within Debounce, the poll   *)
(* interval is no shorter than Debounce, and one interval is not longer     *)
(* than Throttle while two are.                                            *)
(***************************************************************************)
EXTENDS ClipboardWatcher

CONSTANTS t1, t2, tiny, i1   \* texts and an image

Copied(text, image, concealed) == [text |-> text, image |-> image, concealed |-> concealed]

\* Files, a text, a tiny one, an image with a text, a text that is a secret.
MCItem == {Copied(None, None, FALSE), Copied(t1, None, FALSE), Copied(tiny, None, FALSE),
           Copied(t2, i1, FALSE), Copied(t2, None, TRUE)}
=============================================================================
