------------------------------ MODULE HistoryFetch ------------------------------
(***************************************************************************)
(* The commands that read the clipboard and its history over the daemon's  *)
(* endpoints and leave a file: pastelocal-remote without options, with     *)
(* --list --index and with --id, and `pastelocal history get`.  A command  *)
(* that goes by index asks twice, for the list and then for the entry, and *)
(* anything may be read in between.                                        *)
(*                                                                         *)
(* pastelocal-remote gives its files random names.  `history get` makes    *)
(* the name from the second and six digits of the ID, which are those of   *)
(* every entry of weeks: the name is the second.                           *)
(***************************************************************************)
EXTENDS HistoryBuffer

CONSTANTS
  Reader,     \* commands
  MaxClock,   \* bound on clock
  PerSecond   \* the IDs of one second

VARIABLES
  board,      \* what is on the clipboard
  clock,      \* in ticks: two captures have different IDs
  hist,       \* the history
  current,    \* whether the daemon's protocol is not older than the command's
  get,        \* per reader: its command
  files       \* the files written: name -> what is in it and who wrote it

\* There is an ID for every reading of the clock.
ASSUME HistoryFetchAssumption ==
  /\ MaxClock \in Nat /\ PerSecond \in Nat \ {0}
  /\ 0..MaxClock \subseteq Id

history == <<board, clock, hist, current, get, files>>

Second   == 0..(MaxClock \div PerSecond)
FileName == Second \cup Reader

NoGet == [step |-> "idle", cmd |-> None, id |-> None, named |-> None, file |-> None]

HistoryTypeOK ==
  /\ board \in Item /\ clock \in 0..MaxClock /\ current \in BOOLEAN
  /\ hist.entries \in Seq(Entry) /\ Len(hist.entries) <= HistorySize
  /\ \A t \in Reader :
       \/ get[t] = NoGet
       \/ /\ get[t].step \in {"fetch", "written"}
          /\ get[t].cmd \in {"read", "--index", "--id", "history-get"}
          /\ get[t].id \in Id /\ get[t].named \in Item
          /\ get[t].file \in FileName \cup {None}
  /\ \A name \in FileName :
       files[name] = None \/ (files[name].item \in Item /\ files[name].by \in Reader)

HistoryInit ==
  /\ board \in Item
  /\ clock = 0
  /\ hist = NewHistoryBuffer
  /\ current \in BOOLEAN
  /\ get = [t \in Reader |-> NoGet]
  /\ files = [name \in FileName |-> None]

-----------------------------------------------------------------------------
\* List: the positions of the entries without what has expired; the oldest come first.
Listing == {i \in DOMAIN hist.entries :
              HistoryTTL = 0 \/ clock - hist.entries[i].id <= HistoryTTL}

\* The entry with an index of the list, if it has one: 1 is the most recent.
EntryAt(index) ==
  {hist.entries[i] : i \in {j \in Listing : Cardinality({k \in Listing : k >= j}) = index}}

\* The file a command writes: pastelocal-remote's own, or one named for the second.
NameOf(t, cmd) == IF cmd = "history-get" THEN clock \div PerSecond ELSE t

WriteFile(t, g, item) ==
  LET name == NameOf(t, g.cmd) IN
  /\ files' = [files EXCEPT ![name] = [item |-> item, by |-> t]]
  /\ get' = [get EXCEPT ![t] = [g EXCEPT !.step = "written", !.file = name]]

\* checkVersion: a daemon that is older is refused, one that does not say is not.
CheckVersion == current

\* pastelocal-remote: after a look at the version, GET /clipboard, which puts what it
\* reads in the history, and a file.
ReadClipboard(t) ==
  /\ CheckVersion
  /\ clock < MaxClock
  /\ clock' = clock + 1
  /\ hist' = Add(hist, clock', board, FALSE)
  /\ files' = [files EXCEPT ![t] = [item |-> board, by |-> t]]
  /\ get' = [get EXCEPT ![t] = [step |-> "written", cmd |-> "read", id |-> clock',
                                named |-> board, file |-> t]]
  /\ UNCHANGED <<board, current>>

\* pastelocal-remote --send, or a copy: another item is on the clipboard.
SendToClipboard(item) ==
  /\ item # board
  /\ board' = item
  /\ UNCHANGED <<clock, hist, current, get, files>>

\* A command has been told of entry e.
Choose(t, cmd, e) ==
  /\ get' = [get EXCEPT ![t] = [NoGet EXCEPT !.step = "fetch", !.cmd = cmd,
                                              !.id = e.id, !.named = e.item]]
  /\ UNCHANGED <<board, clock, hist, current, files>>

\* `pastelocal history get` and pastelocal-remote --list --index ask for the list first.
HistoryGet(t, index) == \E e \in EntryAt(index) : Choose(t, "history-get", e)

FetchByIndex(t, index) == \E e \in EntryAt(index) : Choose(t, "--index", e)

\* Search: of the entries that have an embedding and have not expired the ones that
\* score best, which may be any.
Found == {hist.entries[i] : i \in Listing}

\* --search prints their IDs, of which --id is given one.
SearchHistory(t) == \E e \in Found : Choose(t, "--id", e)

\* The entry with the ID: none when it has been evicted or has expired (CB1009).
Fetch(t) ==
  LET found == Get(hist, get[t].id, clock)
  IN  /\ \/ found = {} /\ get' = [get EXCEPT ![t] = NoGet] /\ UNCHANGED files
         \/ \E e \in found : WriteFile(t, get[t], e.item)
      /\ UNCHANGED <<board, clock, hist, current>>

FetchHistoryEntry(t) == get[t].step = "fetch" /\ get[t].cmd # "--id" /\ Fetch(t)

FetchByID(t) == get[t].step = "fetch" /\ get[t].cmd = "--id" /\ Fetch(t)

Pass ==
  /\ clock < MaxClock
  /\ clock' = clock + 1
  /\ UNCHANGED <<board, hist, current, get, files>>

HistoryNext ==
  \/ \E t \in Reader :
       \/ ReadClipboard(t)
       \/ \E index \in 1..HistorySize : HistoryGet(t, index) \/ FetchByIndex(t, index)
       \/ SearchHistory(t)
       \/ FetchHistoryEntry(t) \/ FetchByID(t)
  \/ \E item \in Item : SendToClipboard(item)
  \/ Pass

-----------------------------------------------------------------------------
\* The file whose name a command printed holds the entry that it was told to fetch,
\* whatever the history took in or dropped since the list, unless another command has
\* written a file with the same name since.
EntryFileIsTheEntry ==
  \A t \in Reader :
    LET g == get[t] IN
    g.step = "written" /\ files[g.file].by = t => files[g.file].item = g.named
=============================================================================
