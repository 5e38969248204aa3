----------------------------- MODULE HistoryBuffer -----------------------------
(***************************************************************************)
(* The daemon's clipboard history (internal/server/history.go) as pure     *)
(* operators: every method holds the buffer's own mutex from beginning to  *)
(* end.  A buffer is a record of the entries, oldest addition first, of    *)
(* the analysis stored for an ID and of the IDs that have an embedding     *)
(* (with the text that was embedded).  The data of an entry is encrypted   *)
(* and decrypted with one key: nothing in the daemon calls UpdateKey.      *)
(***************************************************************************)
EXTENDS Naturals, Sequences, FiniteSets, SequencesExt

CONSTANTS
  Item,         \* what can be on the clipboard
  Id,           \* entry IDs: capture times
  HistorySize,  \* history.size
  HistoryTTL,   \* history.ttl, 0 for none
  None

Entry == [id : Id, item : Item]

\* Analyses are named by what they are an analysis of.
History == [entries  : Seq(Entry),
            analyses : [Id -> Item \cup {None}],
            vectors  : SUBSET Id]

ASSUME HistoryAssumption ==
  /\ HistorySize \in Nat \ {0}
  /\ HistoryTTL \in Nat
  /\ Id \subseteq Nat
  /\ None \notin Item \cup Id /\ None \notin History

NewHistoryBuffer ==
  [entries |-> <<>>, analyses |-> [i \in Id |-> None], vectors |-> {}]

Ids(hist) == {e.id : e \in ToSet(hist.entries)}

Without(hist, id) ==
  [hist EXCEPT !.entries = Tail(@), !.analyses[id] = None, !.vectors = @ \ {id}]

\* Mistaken variants: a full buffer forgets the entry but not what is stored
\* for its ID, and it is one entry too long.
EvictEntryOnly(hist) ==
  IF Len(hist.entries) >= HistorySize THEN [hist EXCEPT !.entries = Tail(@)] ELSE hist

EvictLate(hist) ==
  IF Len(hist.entries) > HistorySize THEN Without(hist, Head(hist.entries).id) ELSE hist

\* A full buffer forgets the entry added first, with what is stored for its ID.
Evict(hist) ==
  IF Len(hist.entries) >= HistorySize THEN Without(hist, Head(hist.entries).id) ELSE hist

Add(hist, id, item, embedded) ==
  LET left == Evict(hist)
  IN  [left EXCEPT !.entries = Append(@, [id |-> id, item |-> item]),
                   !.vectors = IF embedded THEN @ \cup {id} ELSE @]

\* SetAnalysis does not look whether there is such an entry.
SetAnalysis(hist, id, analysis) == [hist EXCEPT !.analyses[id] = analysis]

\* Get: the entries it may return, none when there is none or it has expired.
Get(hist, id, now) ==
  {e \in ToSet(hist.entries) : e.id = id /\ (HistoryTTL = 0 \/ now - e.id <= HistoryTTL)}
=============================================================================
