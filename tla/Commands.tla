------------------------------- MODULE Commands -------------------------------
(***************************************************************************)
(* The commands that talk to a running daemon or to the relay: those on    *)
(* snippets, those on the clipboard and its history, and those of the      *)
(* relay.  The three families share no state, so a behaviour is of one of  *)
(* them, which the initial state chooses: what holds of each holds of      *)
(* their interleavings.                                                    *)
(***************************************************************************)
EXTENDS SnippetStore, HistoryFetch, RelayClient

VARIABLE family

vars == <<family, snippets, history, relay>>

TypeOK ==
  /\ family \in {"snippets", "history", "relay"}
  /\ SnippetTypeOK /\ HistoryTypeOK /\ RelayTypeOK

\* The families that are not chosen begin in one state.
Init ==
  /\ family \in {"snippets", "history", "relay"}
  /\ SnippetInit /\ HistoryInit /\ RelayInit
  /\ family # "history" => current /\ board = CHOOSE item \in Item : TRUE
  /\ family # "relay"   => registered = {} /\ peers = [d \in Device |-> {}]

Next ==
  /\ UNCHANGED family
  /\ \/ family = "snippets" /\ SnippetNext /\ UNCHANGED <<history, relay>>
     \/ family = "history"  /\ HistoryNext /\ UNCHANGED <<snippets, relay>>
     \/ family = "relay"    /\ RelayNext   /\ UNCHANGED <<snippets, history>>

Spec == Init /\ [][Next]_vars

-----------------------------------------------------------------------------
\* Whatever changes between the requests of a fetch, and between the steps of what it
\* fetches from, the file it leaves holds what its argument named, whole: a version of
\* the snippet, the entry of the history that had the index, a clip from the sender
\* (pastelocal-remote's "Decrypt the bytes we already fetched from the inbox").
FilesHoldWhatWasNamed ==
  SnippetFileIsAVersion /\ EntryFileIsTheEntry /\ RelayFileIsFromTheNamed
=============================================================================
