--------------------------- MODULE Commands_proofs ---------------------------
(***************************************************************************)
(* Proofs about the three families of Commands and about Commands itself,  *)
(* for any names, versions, savers, readers, items, machines, devices and  *)
(* arguments.  Each family has an invariant of its own, that every step of *)
(* it keeps and no step of another can touch:                              *)
(*                                                                         *)
(*   - SnippetInv: no two snippets share an inode, and nobody but a save   *)
(*     that writes has one open, so that what a step does to one snippet's *)
(*     inodes is lost on the others; what is in a snippet's inodes are     *)
(*     pieces of what somebody saves under its name; a save that no other  *)
(*     overlaps finds its temporary file as it left it (Ready), and what   *)
(*     it renamed is out of the reach of any open file (Settled).          *)
(*                                                                         *)
(*   - HistoryInv: an ID is one item's and none is of a time to come, so   *)
(*     that the ID a command was told of means the same item as long as    *)
(*     there is an entry that has it.                                      *)
(*                                                                         *)
(*   - RelayInv: what each command of the relay has found out up to the    *)
(*     step it is at; all of it stays true while others work, because      *)
(*     peers and sent only grow (SoundGrows), so that each action is left  *)
(*     with the command that it is a step of (BecomeKeeps).                *)
(***************************************************************************)
EXTENDS Commands, FiniteSetTheorems, SequenceTheorems, TLAPS

-----------------------------------------------------------------------------
(* The history's commands: their invariant.                                *)

Copied == [item : Item, by : Reader]

Getting == [step : {"fetch", "written"}, cmd : {"read", "--index", "--id", "history-get"},
            id : Id, named : Item, file : FileName \cup {None}]

HistoryTypes ==
  /\ board \in Item /\ clock \in 0..MaxClock /\ current \in BOOLEAN
  /\ hist \in History /\ Len(hist.entries) <= HistorySize
  /\ get \in [Reader -> Getting \cup {NoGet}]
  /\ files \in [FileName -> Copied \cup {None}]

\* No entry is of a time to come, and an ID is one item's.
Dated(h, now) ==
  /\ \A i \in DOMAIN h.entries : h.entries[i].id <= now
  /\ \A i, j \in DOMAIN h.entries :
       h.entries[i].id = h.entries[j].id => h.entries[i].item = h.entries[j].item

\* A command that was told of an entry: what has its ID, if anything has, is what was meant.
Told(g, h, now) ==
  g.step = "fetch" =>
    /\ g.id <= now
    /\ \A i \in DOMAIN h.entries : h.entries[i].id = g.id => h.entries[i].item = g.named

\* A command that has written: its file is there, with its entry or by another command.
Left(t, g, f) ==
  g.step = "written" =>
    /\ g.file \in FileName /\ f[g.file] \in Copied
    /\ f[g.file].by = t => f[g.file].item = g.named

HistoryInv ==
  /\ HistoryTypes
  /\ Dated(hist, clock)
  /\ \A t \in Reader : Told(get[t], hist, clock) /\ Left(t, get[t], files)

-----------------------------------------------------------------------------
LEMMA NoGetIs ==
  NoGet.step = "idle" /\ ~(NoGet \in Getting)
  BY DEF NoGet, Getting

LEMMA IdsAreNumbers ==
  ASSUME NEW h \in History, NEW i \in DOMAIN h.entries
  PROVE  h.entries[i] \in Entry /\ h.entries[i].id \in Nat
<1>1. h.entries \in Seq(Entry)
  BY DEF History
<1>2. h.entries[i] \in Entry
  BY <1>1
<1>3. h.entries[i].id \in Id
  BY <1>2 DEF Entry
<1> QED
  BY <1>2, <1>3, HistoryAssumption

LEMMA EvictIs ==
  ASSUME NEW h \in History, Len(h.entries) <= HistorySize
  PROVE  /\ Evict(h) \in History
         /\ Len(Evict(h).entries) < HistorySize
         /\ \A i \in DOMAIN Evict(h).entries : \E j \in DOMAIN h.entries :
              Evict(h).entries[i] = h.entries[j]
<1>1. h.entries \in Seq(Entry) /\ HistorySize \in Nat \ {0}
  BY HistoryAssumption DEF History
<1>2. CASE Len(h.entries) < HistorySize
  BY <1>1, <1>2 DEF Evict
<1>3. CASE Len(h.entries) = HistorySize
  <2>1. PICK id : id = Head(h.entries).id
    OBVIOUS
  <2>2. PICK tail : tail = Tail(h.entries)
    OBVIOUS
  <2>3. Evict(h) = Without(h, id)
    BY <1>1, <1>3, <2>1 DEF Evict
  <2>4. h.entries # <<>>
    BY <1>1, <1>3
  <2>5. /\ tail \in Seq(Entry) /\ Len(tail) = Len(h.entries) - 1
        /\ \A i \in 1..Len(tail) : i + 1 \in 1..Len(h.entries) /\ tail[i] = h.entries[i + 1]
    BY <1>1, <2>2, <2>4
  <2>6. Head(h.entries) \in Entry
    BY <1>1, <2>4
  <2>7. id \in Id
    BY <2>1, <2>6 DEF Entry
  <2>8. Without(h, id) = [h EXCEPT !.entries = tail, !.analyses[id] = None, !.vectors = @ \ {id}]
    BY <2>2 DEF Without
  <2>9. Without(h, id) \in History /\ Without(h, id).entries = tail
    <3>1. PICK a : a = [h.analyses EXCEPT ![id] = None]
      OBVIOUS
    <3>2. PICK v : v = h.vectors \ {id}
      OBVIOUS
    <3>3. a \in [Id -> Item \cup {None}] /\ v \in SUBSET Id
      BY <3>1, <3>2 DEF History
    <3>4. Without(h, id) = [h EXCEPT !.entries = tail, !.analyses = a, !.vectors = v]
      BY <2>8, <3>1, <3>2
    <3> QED
      BY <2>5, <3>3, <3>4 DEF History
  <2>10. Len(tail) < HistorySize
    BY <1>1, <1>3, <2>5
  <2>11. \A i \in DOMAIN tail : \E j \in DOMAIN h.entries : tail[i] = h.entries[j]
    BY <1>1, <2>5
  <2> QED
    BY <2>3, <2>9, <2>10, <2>11
<1> QED
  BY <1>1, <1>2, <1>3 DEF History

\* Add puts the new entry beside entries that were there.
LEMMA AddIs ==
  ASSUME NEW h \in History, Len(h.entries) <= HistorySize, NEW id \in Id, NEW item \in Item
  PROVE  /\ Add(h, id, item, FALSE) \in History
         /\ Len(Add(h, id, item, FALSE).entries) <= HistorySize
         /\ \A i \in DOMAIN Add(h, id, item, FALSE).entries :
              \/ Add(h, id, item, FALSE).entries[i] = [id |-> id, item |-> item]
              \/ \E j \in DOMAIN h.entries : Add(h, id, item, FALSE).entries[i] = h.entries[j]
<1>1. PICK left : left = Evict(h)
  OBVIOUS
<1>2. PICK last : last = [id |-> id, item |-> item]
  OBVIOUS
<1>3. /\ left \in History /\ Len(left.entries) < HistorySize
      /\ \A i \in DOMAIN left.entries : \E j \in DOMAIN h.entries : left.entries[i] = h.entries[j]
  BY <1>1, EvictIs
<1>4. PICK longer : longer = Append(left.entries, last)
  OBVIOUS
<1>5. last \in Entry /\ left.entries \in Seq(Entry)
  BY <1>2, <1>3 DEF Entry, History
<1>6. /\ longer \in Seq(Entry) /\ Len(longer) = Len(left.entries) + 1
      /\ \A i \in DOMAIN longer : \/ longer[i] = last
                                 \/ /\ i \in DOMAIN left.entries
                                    /\ longer[i] = left.entries[i]
  <2>1. PICK s \in Seq(Entry) : s = left.entries
    BY <1>5
  <2>2. /\ longer \in Seq(Entry) /\ Len(longer) = Len(s) + 1
        /\ \A i \in 1..Len(s) : longer[i] = s[i]
        /\ longer[Len(s) + 1] = last
    BY <1>4, <1>5, <2>1
  <2>3. DOMAIN s = 1..Len(s) /\ DOMAIN longer = 1..Len(s) + 1
    BY <2>1, <2>2
  <2>4. \A i \in 1..Len(s) + 1 : i = Len(s) + 1 \/ i \in 1..Len(s)
    BY <2>1
  <2> QED
    BY <2>1, <2>2, <2>3, <2>4
<1>7. Add(h, id, item, FALSE) = [left EXCEPT !.entries = longer, !.vectors = left.vectors]
  BY <1>1, <1>2, <1>4 DEF Add
<1>8. Add(h, id, item, FALSE) \in History /\ Add(h, id, item, FALSE).entries = longer
  BY <1>3, <1>6, <1>7 DEF History
<1>9. Len(longer) <= HistorySize
  BY <1>3, <1>5, <1>6, HistoryAssumption
<1> QED
  BY <1>2, <1>3, <1>6, <1>8, <1>9

LEMMA SecondIs ==
  ASSUME NEW n \in 0..MaxClock
  PROVE  n \div PerSecond \in Second
<1>1. MaxClock \in Nat /\ PerSecond \in Nat /\ PerSecond > 0
  BY HistoryFetchAssumption
<1>2. \A a, b \in Nat, k \in Nat : k > 0 /\ a <= b => a \div k \in Nat /\ a \div k <= b \div k /\ b \div k \in Nat
  OBVIOUS
<1>3. n \div PerSecond \in Nat /\ n \div PerSecond <= MaxClock \div PerSecond
      /\ MaxClock \div PerSecond \in Nat
  BY <1>1, <1>2
<1> QED
  BY <1>3 DEF Second

-----------------------------------------------------------------------------
(* Its actions.                                                            *)

LEMMA ReadClipboardKeeps ==
  ASSUME HistoryInv, NEW t \in Reader, ReadClipboard(t)
  PROVE  HistoryInv'
<1>1. /\ board \in Item /\ clock \in Nat /\ hist \in History /\ Len(hist.entries) <= HistorySize
      /\ MaxClock \in Nat /\ clock < MaxClock
  BY HistoryFetchAssumption DEF HistoryInv, HistoryTypes, ReadClipboard
<1>2. PICK now : now = clock + 1
  OBVIOUS
<1>3. now \in 0..MaxClock /\ now \in Id /\ now > clock /\ clock' = now
  BY <1>1, <1>2, HistoryFetchAssumption DEF ReadClipboard
<1>4. PICK h : h = Add(hist, now, board, FALSE)
  OBVIOUS
<1>5. /\ h \in History /\ Len(h.entries) <= HistorySize
      /\ \A i \in DOMAIN h.entries : \/ h.entries[i] = [id |-> now, item |-> board]
                                     \/ \E j \in DOMAIN hist.entries : h.entries[i] = hist.entries[j]
  BY <1>1, <1>3, <1>4, AddIs
<1>6. PICK c : c = [item |-> board, by |-> t]
  OBVIOUS
<1>7. PICK g : g = [step |-> "written", cmd |-> "read", id |-> now, named |-> board, file |-> t]
  OBVIOUS
<1>8. /\ hist' = h /\ board' = board /\ current' = current
      /\ files' = [files EXCEPT ![t] = c] /\ get' = [get EXCEPT ![t] = g]
  BY <1>3, <1>4, <1>6, <1>7 DEF ReadClipboard
<1>9. c \in Copied /\ g \in Getting /\ t \in FileName
  BY <1>1, <1>3, <1>6, <1>7 DEF Copied, Getting, FileName
<1>10. HistoryTypes'
  BY <1>3, <1>5, <1>8, <1>9 DEF HistoryInv, HistoryTypes
<1>11. /\ \A i \in DOMAIN hist.entries : hist.entries[i].id \in Nat /\ hist.entries[i].id <= clock
       /\ \A i, j \in DOMAIN hist.entries :
            hist.entries[i].id = hist.entries[j].id => hist.entries[i].item = hist.entries[j].item
  BY <1>1, IdsAreNumbers DEF HistoryInv, Dated
<1>12. \A i \in DOMAIN h.entries :
         \/ h.entries[i].id = now /\ h.entries[i].item = board
         \/ /\ h.entries[i].id # now /\ h.entries[i].id <= now
            /\ \E j \in DOMAIN hist.entries : h.entries[i] = hist.entries[j]
  BY <1>1, <1>3, <1>5, <1>11
<1>13. Dated(h, now)
  BY <1>3, <1>11, <1>12 DEF Dated
<1>14. ASSUME NEW u \in Reader
       PROVE  Told(get'[u], h, now) /\ Left(u, get'[u], files')
  <2>1. CASE u = t
    <3>1. get'[u] = g /\ files'[t] = c /\ g.step = "written" /\ g.file = t /\ g.named = board
      BY <1>7, <1>8, <1>9, <2>1 DEF HistoryInv, HistoryTypes
    <3> QED
      BY <1>6, <1>9, <3>1 DEF Told, Left
  <2>2. CASE u # t
    <3>1. get'[u] = get[u]
      BY <1>8, <2>2
    <3>2. Told(get[u], hist, clock) /\ Left(u, get[u], files) /\ get[u] \in Getting \cup {NoGet}
      BY DEF HistoryInv, HistoryTypes
    <3>3. Told(get[u], h, now)
      <4> SUFFICES ASSUME get[u].step = "fetch"
                   PROVE  /\ get[u].id <= now
                          /\ \A i \in DOMAIN h.entries :
                               h.entries[i].id = get[u].id => h.entries[i].item = get[u].named
        BY DEF Told
      <4>1. get[u].id \in Nat
        BY <3>2, NoGetIs, HistoryAssumption DEF Getting
      <4>2. get[u].id <= clock /\ get[u].id # now
        BY <1>1, <1>3, <3>2, <4>1 DEF Told
      <4> QED
        BY <1>1, <1>3, <1>12, <3>2, <4>1, <4>2 DEF Told
    <3>4. Left(u, get[u], files')
      <4> SUFFICES ASSUME get[u].step = "written"
                   PROVE  /\ get[u].file \in FileName /\ files'[get[u].file] \in Copied
                          /\ files'[get[u].file].by = u => files'[get[u].file].item = get[u].named
        BY DEF Left
      <4>1. CASE get[u].file = t
        <5>1. files'[t] = c /\ c.by = t
          BY <1>6, <1>8, <1>9 DEF HistoryInv, HistoryTypes
        <5> QED
          BY <1>9, <2>2, <4>1, <5>1
      <4>2. CASE get[u].file # t
        <5>1. files'[get[u].file] = files[get[u].file]
          BY <1>8, <3>2, <4>2 DEF Left, HistoryInv, HistoryTypes
        <5> QED
          BY <3>2, <5>1 DEF Left
      <4> QED
        BY <4>1, <4>2
    <3> QED
      BY <3>1, <3>3, <3>4
  <2> QED
    BY <2>1, <2>2
<1> QED
  BY <1>3, <1>8, <1>10, <1>13, <1>14 DEF HistoryInv

\* Where the history stays and one command is at another point.
LEMMA GetKeeps ==
  ASSUME HistoryInv, NEW t \in Reader, NEW g \in Getting \cup {NoGet},
         Told(g, hist, clock), Left(t, g, files'),
         files' \in [FileName -> Copied \cup {None}],
         \A u \in Reader \ {t} : Left(u, get[u], files'),
         get' = [get EXCEPT ![t] = g], UNCHANGED <<board, clock, hist, current>>
  PROVE  HistoryInv'
<1>1. HistoryTypes'
  BY DEF HistoryInv, HistoryTypes
<1>2. ASSUME NEW u \in Reader
      PROVE  Told(get'[u], hist, clock) /\ Left(u, get'[u], files')
  <2>1. CASE u = t
    BY <2>1 DEF HistoryInv, HistoryTypes
  <2>2. CASE u # t
    BY <2>2 DEF HistoryInv, HistoryTypes
  <2> QED
    BY <2>1, <2>2
<1>3. Dated(hist, clock)
  BY DEF HistoryInv
<1> QED
  BY <1>1, <1>2, <1>3 DEF HistoryInv

LEMMA ChooseKeeps ==
  ASSUME HistoryInv, NEW t \in Reader, NEW cmd \in {"--index", "--id", "history-get"},
         NEW i \in DOMAIN hist.entries, Choose(t, cmd, hist.entries[i])
  PROVE  HistoryInv'
<1>1. hist.entries[i] \in Entry /\ Dated(hist, clock)
  BY DEF HistoryInv, HistoryTypes, History
<1>2. PICK e : e = hist.entries[i]
  OBVIOUS
<1>3. PICK g : g = [NoGet EXCEPT !.step = "fetch", !.cmd = cmd, !.id = e.id, !.named = e.item]
  OBVIOUS
<1>4. g \in Getting /\ g.step = "fetch" /\ g.id = e.id /\ g.named = e.item
  BY <1>1, <1>2, <1>3 DEF NoGet, Getting, Entry
<1>5. Told(g, hist, clock) /\ Left(t, g, files)
  BY <1>1, <1>2, <1>4 DEF Told, Left, Dated
<1>6. /\ get' = [get EXCEPT ![t] = g] /\ files' = files
      /\ UNCHANGED <<board, clock, hist, current>>
  BY <1>2, <1>3 DEF Choose
<1> QED
  BY <1>4, <1>5, <1>6, GetKeeps DEF HistoryInv, HistoryTypes

LEMMA FetchKeeps ==
  ASSUME HistoryInv, NEW t \in Reader, get[t].step = "fetch", Fetch(t)
  PROVE  HistoryInv'
<1>1. UNCHANGED <<board, clock, hist, current>>
  BY DEF Fetch
<1>2. CASE get' = [get EXCEPT ![t] = NoGet] /\ UNCHANGED files
  <2>1. Told(NoGet, hist, clock) /\ Left(t, NoGet, files')
    BY NoGetIs DEF Told, Left
  <2> QED
    BY <1>1, <1>2, <2>1, GetKeeps DEF HistoryInv, HistoryTypes
<1>3. ASSUME NEW e \in Get(hist, get[t].id, clock), WriteFile(t, get[t], e.item)
      PROVE  HistoryInv'
  <2>1. PICK name : name = NameOf(t, get[t].cmd)
    OBVIOUS
  <2>2. name \in FileName
    BY <2>1, SecondIs DEF NameOf, FileName, HistoryInv, HistoryTypes
  <2>3. get[t] \in Getting /\ Told(get[t], hist, clock)
    BY NoGetIs DEF HistoryInv, HistoryTypes
  <2>4. PICK i \in DOMAIN hist.entries : hist.entries[i] = e
    BY DEF Get, ToSet
  <2>5. e \in Entry /\ e.id = get[t].id
    BY <2>4 DEF Get, HistoryInv, HistoryTypes, History
  <2>6. e.item = get[t].named /\ e.item \in Item
    BY <2>3, <2>4, <2>5 DEF Told, Entry
  <2>7. PICK c : c = [item |-> e.item, by |-> t]
    OBVIOUS
  <2>8. PICK g : g = [get[t] EXCEPT !.step = "written", !.file = name]
    OBVIOUS
  <2>9. /\ g \in Getting /\ g.step = "written" /\ g.file = name /\ g.named = e.item
        /\ c \in Copied /\ c.by = t /\ c.item = e.item
    BY <2>2, <2>3, <2>6, <2>7, <2>8 DEF Getting, Copied
  <2>10. files' = [files EXCEPT ![name] = c] /\ get' = [get EXCEPT ![t] = g]
    BY <1>3, <2>1, <2>7, <2>8 DEF WriteFile
  <2>11. files' \in [FileName -> Copied \cup {None}] /\ files'[name] = c
    BY <2>2, <2>9, <2>10 DEF HistoryInv, HistoryTypes
  <2>12. Told(g, hist, clock) /\ Left(t, g, files')
    BY <2>2, <2>9, <2>11 DEF Told, Left
  <2>13. ASSUME NEW u \in Reader \ {t}
         PROVE  Left(u, get[u], files')
    <3> SUFFICES ASSUME get[u].step = "written"
                 PROVE  /\ get[u].file \in FileName /\ files'[get[u].file] \in Copied
                        /\ files'[get[u].file].by = u => files'[get[u].file].item = get[u].named
      BY DEF Left
    <3>1. Left(u, get[u], files)
      BY DEF HistoryInv
    <3>2. CASE get[u].file = name
      BY <2>2, <2>9, <2>11, <3>2
    <3>3. CASE get[u].file # name
      <4>1. files'[get[u].file] = files[get[u].file]
        BY <2>10, <3>1, <3>3 DEF Left, HistoryInv, HistoryTypes
      <4> QED
        BY <3>1, <4>1 DEF Left
    <3> QED
      BY <3>2, <3>3
  <2> QED
    BY <1>1, <2>9, <2>10, <2>11, <2>12, <2>13, GetKeeps
<1> QED
  BY <1>2, <1>3 DEF Fetch

\* Where the clock goes on, or another item is on the clipboard.
LEMMA PassKeeps ==
  ASSUME HistoryInv, UNCHANGED <<hist, current, get, files>>,
         \/ UNCHANGED clock /\ board' \in Item
         \/ UNCHANGED board /\ clock < MaxClock /\ clock' = clock + 1
  PROVE  HistoryInv'
<1>1. clock \in Nat /\ clock \in 0..MaxClock /\ MaxClock \in Nat /\ hist \in History
  BY HistoryFetchAssumption DEF HistoryInv, HistoryTypes
<1>2. clock' \in 0..MaxClock /\ clock <= clock' /\ clock' \in Nat
  BY <1>1
<1>3. HistoryTypes'
  BY <1>2 DEF HistoryInv, HistoryTypes
<1>4. PICK now : now = clock'
  OBVIOUS
<1>5. Dated(hist, now)
  <2>1. \A i \in DOMAIN hist.entries : hist.entries[i].id \in Nat
    BY <1>1, IdsAreNumbers
  <2> QED
    BY <1>1, <1>2, <1>4, <2>1 DEF Dated, HistoryInv
<1>6. ASSUME NEW t \in Reader
      PROVE  Told(get[t], hist, now) /\ Left(t, get[t], files)
  <2>1. Told(get[t], hist, clock) /\ Left(t, get[t], files) /\ get[t] \in Getting \cup {NoGet}
    BY DEF HistoryInv, HistoryTypes
  <2>2. get[t].step = "fetch" => get[t].id \in Nat
    BY <2>1, NoGetIs, HistoryAssumption DEF Getting
  <2> QED
    BY <1>1, <1>2, <1>4, <2>1, <2>2 DEF Told
<1> QED
  BY <1>3, <1>4, <1>5, <1>6 DEF HistoryInv

LEMMA HistoryInvInit == HistoryInit => HistoryInv
<1> SUFFICES ASSUME HistoryInit
             PROVE  HistoryInv
  OBVIOUS
<1>1. hist \in History /\ hist.entries = <<>>
  BY DEF HistoryInit, NewHistoryBuffer, History
<1>2. Len(hist.entries) = 0 /\ DOMAIN hist.entries = {} /\ Len(hist.entries) <= HistorySize
  BY <1>1, HistoryAssumption
<1>3. HistoryTypes
  BY <1>1, <1>2, HistoryFetchAssumption DEF HistoryInit, HistoryTypes
<1>4. \A t \in Reader : get[t] = NoGet
  BY DEF HistoryInit
<1> QED
  BY <1>2, <1>3, <1>4, NoGetIs DEF HistoryInv, Dated, Told, Left

LEMMA HistoryInvNext == HistoryInv /\ [HistoryNext]_history => HistoryInv'
<1> SUFFICES ASSUME HistoryInv, [HistoryNext]_history
             PROVE  HistoryInv'
  OBVIOUS
<1>1. ASSUME NEW t \in Reader, ReadClipboard(t)
      PROVE  HistoryInv'
  BY <1>1, ReadClipboardKeeps
<1>2. ASSUME NEW t \in Reader, NEW index \in 1..HistorySize,
             HistoryGet(t, index) \/ FetchByIndex(t, index)
      PROVE  HistoryInv'
  <2>1. PICK cmd \in {"--index", "history-get"} : \E e \in EntryAt(index) : Choose(t, cmd, e)
    BY <1>2 DEF HistoryGet, FetchByIndex
  <2>2. PICK i \in DOMAIN hist.entries : Choose(t, cmd, hist.entries[i])
    BY <2>1 DEF EntryAt, Listing
  <2> QED
    BY <2>1, <2>2, ChooseKeeps
<1>3. ASSUME NEW t \in Reader, SearchHistory(t)
      PROVE  HistoryInv'
  <2>1. PICK i \in DOMAIN hist.entries : Choose(t, "--id", hist.entries[i])
    BY <1>3 DEF SearchHistory, Found, Listing
  <2> QED
    BY <2>1, ChooseKeeps
<1>4. ASSUME NEW t \in Reader, FetchHistoryEntry(t) \/ FetchByID(t)
      PROVE  HistoryInv'
  BY <1>4, FetchKeeps DEF FetchHistoryEntry, FetchByID
<1>5. ASSUME NEW item \in Item, SendToClipboard(item)
      PROVE  HistoryInv'
  BY <1>5, PassKeeps DEF SendToClipboard
<1>6. CASE Pass
  BY <1>6, PassKeeps DEF Pass
<1>7. CASE UNCHANGED history
  BY <1>7, PassKeeps DEF history, HistoryInv, HistoryTypes
<1> QED
  BY <1>1, <1>2, <1>3, <1>4, <1>5, <1>6, <1>7 DEF HistoryNext

\* What the invariant says of the commands.
LEMMA HistoryInvImplies == HistoryInv => HistoryTypeOK /\ EntryFileIsTheEntry
<1> SUFFICES ASSUME HistoryInv
             PROVE  HistoryTypeOK /\ EntryFileIsTheEntry
  OBVIOUS
<1>1. hist.entries \in Seq(Entry)
  BY DEF HistoryInv, HistoryTypes, History
<1>2. HistoryTypeOK
  BY <1>1 DEF HistoryInv, HistoryTypes, HistoryTypeOK, Getting, Copied
<1>3. EntryFileIsTheEntry
  BY DEF HistoryInv, Left, EntryFileIsTheEntry
<1> QED
  BY <1>2, <1>3

-----------------------------------------------------------------------------
(* The snippets: their invariant.                                          *)

SaveRecord == [step : {"post", "open", "write", "rename", "remove"}, name : Name,
               version : Version, inode : Inode \cup {0}, lone : BOOLEAN]

SnippetTypes ==
  /\ content \in [Inode -> Seq(Version)]
  /\ path \in [Name -> Inode \cup {0}]
  /\ tmp \in [Name -> Inode \cup {0}]
  /\ save \in [Saver -> SaveRecord \cup {NoSave}]
  /\ sure \subseteq Name
  /\ kept \in [Name -> SUBSET Version]
  /\ saved \in [Name -> SUBSET Version]

\* Inode i is the snippet's file, its temporary file or what a save of it has open.
Has(n, i) ==
  path[n] = i \/ tmp[n] = i \/ \E t \in Saver : save[t].name = n /\ save[t].inode = i

\* The file and the temporary file are two, no two snippets share an inode, and only a
\* save that writes has one open.
Apart ==
  /\ \A n \in Name : path[n] # 0 => path[n] # tmp[n]
  /\ \A m, n \in Name : \A i \in Inode : Has(m, i) /\ Has(n, i) => m = n
  /\ \A t \in Saver : save[t].inode # 0 <=> save[t].step = "write"

\* What is in a snippet's inodes are pieces of what somebody saves.
Pieces ==
  /\ \A t \in Saver : save[t] # NoSave => save[t].version \in saved[save[t].name]
  /\ \A n \in Name : \A i \in Inode : Has(n, i) =>
       \A k \in DOMAIN content[i] : content[i][k] \in saved[n]

IsBusy(t) == save[t].step \notin {"idle", "post"}

\* What the temporary file of a save that no other overlaps holds.
Ready(s) ==
  /\ s.step # "remove"
  /\ s.step = "write" => s.inode = tmp[s.name] /\ content[s.inode] = <<>>
  /\ s.step = "rename" => tmp[s.name] # 0 /\ content[tmp[s.name]] = Whole(s.version)

Alone ==
  \A t \in Saver : IsBusy(t) /\ save[t].lone =>
    Ready(save[t]) /\ \A u \in Saver : IsBusy(u) /\ save[u].name = save[t].name => u = t

\* Version v is in the file of n, and nothing can write to it.
Settled(n, v) ==
  kept[n] = {v} /\ content[path[n]] = Whole(v) /\ \A t \in Saver : save[t].inode # path[n]

KeptInv ==
  \A n \in sure : IF path[n] = 0 THEN kept[n] = {} ELSE \E v \in Version : Settled(n, v)

SnippetInv ==
  SnippetTypes /\ Apart /\ Pieces /\ Alone /\ KeptInv /\ SnippetFileIsAVersion
  /\ (fetched = <<>> \/ fetched[1] \in Name)

-----------------------------------------------------------------------------
(* Inodes and files.                                                       *)

Below == {p \in Nat \X Nat : p[1] < p[2]}

LEMMA LeastIs ==
  ASSUME NEW S \in SUBSET Nat, S # {}
  PROVE  Min(S) \in S
<1>1. IsWellFoundedOn(Below, Nat)
  BY NatLessThanWellFounded DEF OpToRel, Below
<1>2. PICK x \in S : \A y \in S : ~(<<y, x>> \in Below)
  BY <1>1, WFMin
<1>3. \A y \in S : x <= y
  <2> SUFFICES ASSUME NEW y \in S, y < x
               PROVE  FALSE
    OBVIOUS
  <2>1. <<y, x>> \in Below
    BY DEF Below
  <2> QED
    BY <1>2, <2>1
<1> QED
  BY <1>3 DEF Min

LEMMA RangeIsSmall ==
  ASSUME NEW S, IsFiniteSet(S), NEW T, NEW f \in [S -> T]
  PROVE  IsFiniteSet(Range(f)) /\ Cardinality(Range(f)) <= Cardinality(S)
<1>1. f \in Surjection(S, Range(f))
  BY DEF Surjection, Range
<1> QED
  BY <1>1, FS_Surjection

LEMMA NumbersAre ==
  /\ 0 \notin Inode /\ 0 \notin Version
  /\ \A v \in Version : v \in Nat /\ v >= 1
  BY SnippetAssumption

LEMMA WholeIs ==
  ASSUME NEW v \in Version
  PROVE  /\ Whole(v) \in Seq(Version) /\ Len(Whole(v)) = v /\ DOMAIN Whole(v) = 1..v
         /\ \A k \in 1..v : Whole(v)[k] = v
         /\ \A w \in Version : Whole(w) = Whole(v) => w = v
<1>1. v \in Nat /\ v >= 1
  BY NumbersAre
<1>2. /\ Whole(v) \in Seq(Version) /\ Len(Whole(v)) = v /\ DOMAIN Whole(v) = 1..v
      /\ \A k \in 1..v : Whole(v)[k] = v
  BY <1>1 DEF Whole
<1>3. ASSUME NEW w \in Version, Whole(w) = Whole(v)
      PROVE  w = v
  <2>1. w \in Nat /\ w >= 1 /\ 1 \in 1..w /\ 1 \in 1..v
    BY <1>1, NumbersAre
  <2>2. Whole(w)[1] = w /\ Whole(v)[1] = v
    BY <2>1 DEF Whole
  <2> QED
    BY <1>3, <2>2
<1> QED
  BY <1>2, <1>3

LEMMA NoSaveIs ==
  /\ NoSave.step = "idle" /\ NoSave.inode = 0
  /\ \A s \in SaveRecord : s # NoSave /\ s.step # "idle"
  BY DEF NoSave, SaveRecord

\* An inode that somebody has is in use.
LEMMA UnusedIs ==
  ASSUME SnippetTypes, NEW i \in Unused
  PROVE  i \in Inode /\ \A n \in Name : ~Has(n, i)
  BY DEF SnippetTypes, Unused, Has, Range

LEMMA SomeUnused ==
  ASSUME SnippetTypes, NEW t \in Saver, save[t].inode = 0
  PROVE  Min(Unused) \in Unused
<1>1. /\ IsFiniteSet(Range(path)) /\ Cardinality(Range(path)) <= Cardinality(Name)
      /\ IsFiniteSet(Range(tmp)) /\ Cardinality(Range(tmp)) <= Cardinality(Name)
  BY RangeIsSmall, SnippetAssumption DEF SnippetTypes
<1>2. PICK others : others = Saver \ {t}
  OBVIOUS
<1>3. IsFiniteSet(others) /\ Cardinality(others) = Cardinality(Saver) - 1
  BY <1>2, FS_RemoveElement, SnippetAssumption
<1>4. PICK f : f = [u \in others |-> save[u].inode]
  OBVIOUS
<1>5. f \in [others -> Inode \cup {0}]
  BY <1>2, <1>4, NoSaveIs DEF SnippetTypes, SaveRecord
<1>6. IsFiniteSet(Range(f)) /\ Cardinality(Range(f)) <= Cardinality(others)
  BY <1>3, <1>5, RangeIsSmall
<1>7. PICK files2 : files2 = Range(path) \cup Range(tmp)
  OBVIOUS
<1>8. PICK all : all = files2 \cup Range(f)
  OBVIOUS
<1>9. /\ Cardinality(Range(path)) \in Nat /\ Cardinality(Range(tmp)) \in Nat
      /\ Cardinality(Range(f)) \in Nat /\ Cardinality(Name) \in Nat /\ Cardinality(Saver) \in Nat
      /\ Cardinality(Inode) \in Nat
  BY <1>1, <1>6, FS_CardinalityType, SnippetAssumption
<1>10. /\ IsFiniteSet(files2)
       /\ Cardinality(files2) =
            Cardinality(Range(path)) + Cardinality(Range(tmp)) - Cardinality(Range(path) \cap Range(tmp))
  BY <1>1, <1>7, FS_Union
<1>11. Cardinality(Range(path) \cap Range(tmp)) \in Nat
  BY <1>1, FS_Intersection, FS_CardinalityType
<1>12. Cardinality(files2) <= 2 * Cardinality(Name) /\ Cardinality(files2) \in Nat
  BY <1>1, <1>9, <1>10, <1>11, FS_CardinalityType
<1>13. /\ IsFiniteSet(all)
       /\ Cardinality(all) = Cardinality(files2) + Cardinality(Range(f)) - Cardinality(files2 \cap Range(f))
  BY <1>6, <1>8, <1>10, FS_Union
<1>14. Cardinality(files2 \cap Range(f)) \in Nat
  BY <1>10, FS_Intersection, FS_CardinalityType
<1>15. Cardinality(all) < Cardinality(Inode) /\ Cardinality(all) \in Nat
  BY <1>3, <1>6, <1>9, <1>12, <1>13, <1>14, FS_CardinalityType, SnippetAssumption
<1>16. ~(Inode \subseteq all)
  BY <1>9, <1>13, <1>15, FS_Subset
<1>17. \A u \in Saver : save[u].inode \in Range(f) \cup {0}
  BY <1>2, <1>4 DEF Range
<1>18. Unused # {}
  BY <1>7, <1>8, <1>16, <1>17, NumbersAre DEF Unused
<1>19. Unused \subseteq Nat
  BY SnippetAssumption DEF Unused
<1> QED
  BY <1>18, <1>19, LeastIs

\* Where no snippet gains an inode, what somebody still has is as it was made, and
\* nothing is shared.
LEMMA StillApart ==
  ASSUME SnippetInv, SnippetTypes',
         \A n \in Name : \A i \in Inode : Has(n, i)' => Has(n, i)
  PROVE  \A m, n \in Name : \A i \in Inode : Has(m, i)' /\ Has(n, i)' => m = n
  BY DEF SnippetInv, Apart

LEMMA ContentIs ==
  ASSUME SnippetTypes, path' \in [Name -> Inode \cup {0}], tmp' \in [Name -> Inode \cup {0}],
         NEW data \in [Inode -> Seq(Version)], content' = Content(data)
  PROVE  /\ content' \in [Inode -> Seq(Version)]
         /\ \A n \in Name : \A i \in Inode : Has(n, i)' => content'[i] = data[i]
<1>1. ASSUME NEW n \in Name, NEW i \in Inode, Has(n, i)'
      PROVE  i \notin Unused'
  BY <1>1 DEF Has, Unused, Range
<1> QED
  BY <1>1 DEF Content

-----------------------------------------------------------------------------
(* The actions.                                                            *)

\* A save's inode is its snippet's.
LEMMA OpenIs ==
  ASSUME SnippetInv, NEW t \in Saver
  PROVE  /\ save[t].inode \in Inode \cup {0}
         /\ \/ save[t] = NoSave
            \/ save[t] \in SaveRecord /\ save[t].name \in Name
         /\ save[t].inode # 0 => /\ save[t].name \in Name /\ save[t].step = "write"
                                 /\ Has(save[t].name, save[t].inode)
<1>1. save[t] \in SaveRecord \cup {NoSave}
  BY DEF SnippetInv, SnippetTypes
<1>2. save[t] \in SaveRecord => save[t].name \in Name /\ save[t].inode \in Inode \cup {0}
  BY DEF SaveRecord
<1>3. save[t].inode # 0 <=> save[t].step = "write"
  BY DEF SnippetInv, Apart
<1>4. Has(save[t].name, save[t].inode)
  BY DEF Has
<1> QED
  BY <1>1, <1>2, <1>3, <1>4, NoSaveIs

LEMMA SnippetSaveKeeps ==
  ASSUME SnippetInv, NEW t \in Saver, NEW n \in Name, NEW v \in Version, SnippetSave(t, n, v)
  PROVE  SnippetInv'
<1>1. PICK s : s = [NoSave EXCEPT !.step = "post", !.name = n, !.version = v]
  OBVIOUS
<1>2. /\ s \in SaveRecord /\ s.step = "post" /\ s.name = n /\ s.version = v /\ s.inode = 0
  BY <1>1, ZenonT(30) DEF NoSave, SaveRecord
<1>3. /\ save[t].step = "idle" /\ save' = [save EXCEPT ![t] = s]
      /\ saved' = [saved EXCEPT ![n] = @ \cup {v}]
      /\ UNCHANGED <<content, path, tmp, sure, kept, fetched>>
  BY <1>1 DEF SnippetSave
<1>4. SnippetTypes'
  BY <1>2, <1>3 DEF SnippetInv, SnippetTypes
<1>5. /\ save'[t] = s /\ \A u \in Saver \ {t} : save'[u] = save[u]
      /\ \A m \in Name : saved[m] \subseteq saved'[m]
      /\ v \in saved'[n] /\ save[t].inode = 0
  BY <1>3 DEF SnippetInv, SnippetTypes, Apart
<1>6. \A m \in Name : \A i \in Inode : Has(m, i)' => Has(m, i)
  BY <1>2, <1>3, <1>5, NumbersAre DEF Has
<1>7. Apart'
  BY <1>2, <1>3, <1>4, <1>5, <1>6, StillApart DEF SnippetInv, Apart
<1>8. Pieces'
  <2>1. ASSUME NEW u \in Saver, save'[u] # NoSave
        PROVE  save'[u].version \in saved'[save'[u].name]
    BY <1>2, <1>5, <2>1, OpenIs DEF SnippetInv, Pieces
  <2>2. ASSUME NEW m \in Name, NEW i \in Inode, Has(m, i)'
        PROVE  \A k \in DOMAIN content'[i] : content'[i][k] \in saved'[m]
    BY <1>3, <1>5, <1>6, <2>2 DEF SnippetInv, Pieces
  <2> QED
    BY <2>1, <2>2 DEF Pieces
<1>9. Alone'
  BY <1>2, <1>3, <1>5 DEF SnippetInv, Alone, IsBusy, Ready
<1>10. KeptInv'
  BY <1>2, <1>3, <1>5 DEF SnippetInv, KeptInv, Settled
<1>11. SnippetFileIsAVersion' /\ (fetched' = <<>> \/ fetched'[1] \in Name)
  BY <1>3, <1>5 DEF SnippetInv, SnippetFileIsAVersion
<1> QED
  BY <1>4, <1>7, <1>8, <1>9, <1>10, <1>11 DEF SnippetInv

\* Where names keep their inodes and no save has another inode open than before.
LEMMA SameInodes ==
  ASSUME SnippetInv, SnippetTypes', UNCHANGED <<content, path, tmp, sure, kept, saved, fetched>>,
         \A u \in Saver : /\ save'[u].inode = save[u].inode
                          /\ save'[u].inode # 0 => save'[u].name = save[u].name
                          /\ save'[u].inode # 0 <=> save'[u].step = "write"
                          /\ save'[u] # NoSave => /\ save[u] # NoSave
                                                  /\ save'[u].name = save[u].name
                                                  /\ save'[u].version = save[u].version,
         Alone'
  PROVE  SnippetInv'
<1>1. \A m \in Name : \A i \in Inode : Has(m, i)' => Has(m, i)
  BY NumbersAre DEF Has
<1>2. Apart'
  BY <1>1, StillApart DEF SnippetInv, Apart
<1>3. Pieces'
  BY <1>1 DEF SnippetInv, Pieces
<1>4. KeptInv'
  BY DEF SnippetInv, KeptInv, Settled
<1>5. SnippetFileIsAVersion' /\ (fetched' = <<>> \/ fetched'[1] \in Name)
  BY DEF SnippetInv, SnippetFileIsAVersion
<1> QED
  BY <1>2, <1>3, <1>4, <1>5 DEF SnippetInv

LEMMA HandleSaveKeeps ==
  ASSUME SnippetInv, NEW t \in Saver, HandleSave(t)
  PROVE  SnippetInv'
<1>1. /\ save[t].step = "post" /\ UNCHANGED <<content, path, tmp, sure, kept, saved, fetched>>
      /\ save[t] \in SaveRecord /\ save[t].name \in Name /\ save[t].inode = 0
  BY OpenIs, NoSaveIs DEF HandleSave
<1>2. \A u \in Saver : save[u] \in SaveRecord \cup {NoSave}
  BY DEF SnippetInv, SnippetTypes
<1>3. CASE save' = [save EXCEPT ![t] = NoSave]
  <2>1. save'[t] = NoSave /\ \A u \in Saver \ {t} : save'[u] = save[u]
    BY <1>3 DEF SnippetInv, SnippetTypes
  <2>2. SnippetTypes'
    BY <1>1, <1>3 DEF SnippetInv, SnippetTypes
  <2>3. Alone'
    BY <1>1, <2>1, NoSaveIs DEF SnippetInv, Alone, IsBusy, Ready
  <2>4. \A u \in Saver : save[u].inode # 0 <=> save[u].step = "write"
    BY DEF SnippetInv, Apart
  <2> QED
    BY <1>1, <2>1, <2>2, <2>3, <2>4, NoSaveIs, SameInodes
<1>4. CASE save' = [u \in Saver |->
                     IF u = t
                     THEN [save[t] EXCEPT !.step = "open", !.lone = Busy(save[t].name) = {}]
                     ELSE IF u \in Busy(save[t].name) THEN [save[u] EXCEPT !.lone = FALSE]
                     ELSE save[u]]
  <2>1. PICK lone \in BOOLEAN : lone = (Busy(save[t].name) = {})
    OBVIOUS
  <2>2. PICK s : s = [save[t] EXCEPT !.step = "open", !.lone = lone]
    OBVIOUS
  <2>3. /\ s \in SaveRecord /\ s.step = "open" /\ s.lone = lone /\ s.name = save[t].name
        /\ s.version = save[t].version /\ s.inode = 0
    BY <1>1, <2>2 DEF SaveRecord
  <2>4. save'[t] = s
    BY <1>4, <2>1, <2>2
  <2>5. ASSUME NEW u \in Saver \ {t}
        PROVE  /\ save'[u] \in SaveRecord \cup {NoSave}
               /\ save'[u] # NoSave => save[u] # NoSave
               /\ save'[u].step = save[u].step /\ save'[u].name = save[u].name
               /\ save'[u].version = save[u].version /\ save'[u].inode = save[u].inode
               /\ save'[u].lone => save[u].lone /\ u \notin Busy(save[t].name)
    <3>1. CASE u \in Busy(save[t].name)
      <4>1. save[u] \in SaveRecord
        BY <1>2, <3>1, NoSaveIs DEF Busy
      <4>2. PICK r : r = [save[u] EXCEPT !.lone = FALSE]
        OBVIOUS
      <4>3. save'[u] = r
        BY <1>4, <3>1, <4>2
      <4>4. /\ r \in SaveRecord /\ r.step = save[u].step /\ r.name = save[u].name
            /\ r.version = save[u].version /\ r.inode = save[u].inode /\ ~r.lone
        BY <4>1, <4>2 DEF SaveRecord
      <4> QED
        BY <4>1, <4>3, <4>4, NoSaveIs
    <3>2. CASE u \notin Busy(save[t].name)
      <4>1. save'[u] = save[u]
        BY <1>4, <3>2
      <4> QED
        BY <1>2, <3>2, <4>1
    <3> QED
      BY <3>1, <3>2
  <2>6. save' \in [Saver -> SaveRecord \cup {NoSave}]
    <3>1. DOMAIN save' = Saver /\ save' = [u \in Saver |-> save'[u]]
      BY <1>4
    <3> QED
      BY <2>3, <2>4, <2>5, <3>1
  <2>7. SnippetTypes'
    BY <1>1, <2>6 DEF SnippetInv, SnippetTypes
  <2>8. Alone'
    <3> SUFFICES ASSUME NEW u \in Saver, IsBusy(u)', save'[u].lone
                 PROVE  /\ Ready(save[u])'
                        /\ \A w \in Saver : IsBusy(w)' /\ save'[w].name = save'[u].name => w = u
      BY DEF Alone
    <3>1. CASE u = t
      <4>1. Busy(save[t].name) = {}
        BY <2>1, <2>3, <2>4, <3>1
      <4>2. ASSUME NEW w \in Saver \ {t}, IsBusy(w)', save'[w].name = s.name
            PROVE  FALSE
        BY <2>3, <2>5, <4>1, <4>2 DEF IsBusy, Busy
      <4> QED
        BY <2>3, <2>4, <3>1, <4>2 DEF Ready
    <3>2. CASE u # t
      <4>1. IsBusy(u) /\ save[u].lone /\ save[u].name # save[t].name
        BY <2>5, <3>2 DEF IsBusy, Busy
      <4>2. /\ Ready(save[u])
            /\ \A w \in Saver : IsBusy(w) /\ save[w].name = save[u].name => w = u
        BY <4>1 DEF SnippetInv, Alone
      <4>3. Ready(save[u])'
        BY <1>1, <2>5, <3>2, <4>2 DEF Ready
      <4>4. ASSUME NEW w \in Saver, IsBusy(w)', save'[w].name = save'[u].name
            PROVE  w = u
        <5>1. CASE w = t
          BY <2>3, <2>4, <2>5, <3>2, <4>1, <4>4, <5>1
        <5>2. CASE w # t
          BY <2>5, <3>2, <4>2, <4>4, <5>2 DEF IsBusy
        <5> QED
          BY <5>1, <5>2
      <4> QED
        BY <4>3, <4>4
    <3> QED
      BY <3>1, <3>2
  <2>9. \A u \in Saver : save[u].inode # 0 <=> save[u].step = "write"
    BY DEF SnippetInv, Apart
  <2>10. \A u \in Saver : /\ save'[u].inode = save[u].inode
                          /\ save'[u].inode # 0 => save'[u].name = save[u].name
                          /\ save'[u].inode # 0 <=> save'[u].step = "write"
                          /\ save'[u] # NoSave => /\ save[u] # NoSave
                                                  /\ save'[u].name = save[u].name
                                                  /\ save'[u].version = save[u].version
    <3>1. save[t] # NoSave
      BY <1>1, NoSaveIs
    <3> QED
      BY <1>1, <2>3, <2>4, <2>5, <2>9, <3>1
  <2> QED
    BY <1>1, <2>7, <2>8, <2>10, SameInodes
<1> QED
  BY <1>3, <1>4 DEF HandleSave

\* A lone save finds its temporary file as it was.
LEMMA StillReady ==
  ASSUME SnippetInv, NEW u \in Saver, IsBusy(u), Ready(save[u]), save'[u] = save[u],
         NEW o \in Name, o = save[u].name, tmp'[o] = tmp[o],
         \A i \in Inode : Has(o, i)' => content'[i] = content[i]
  PROVE  Ready(save[u])'
<1>1. save[u].inode \in Inode \cup {0} /\ save'[u].name = o
  BY OpenIs
<1>2. tmp[o] \in Inode \cup {0}
  BY DEF SnippetInv, SnippetTypes
<1>3. tmp[o] # 0 => content'[tmp[o]] = content[tmp[o]]
  BY <1>2 DEF Has
<1>4. save[u].step = "write" => save[u].inode # 0
  BY DEF SnippetInv, Apart
<1> QED
  BY <1>1, <1>3, <1>4 DEF Ready

LEMMA StillAlone ==
  ASSUME SnippetInv,
         \A u \in Saver : IsBusy(u)' => /\ IsBusy(u) /\ save'[u].name = save[u].name
                                        /\ save'[u].lone = save[u].lone,
         \A u \in Saver : IsBusy(u)' /\ save'[u].lone => Ready(save[u])'
  PROVE  Alone'
  BY DEF SnippetInv, Alone

\* Of two saves of one snippet at once none is lone.
LEMMA OtherName ==
  ASSUME SnippetInv, NEW t \in Saver, NEW u \in Saver, t # u, IsBusy(t), IsBusy(u), save[u].lone
  PROVE  Ready(save[u]) /\ save[u].name # save[t].name
  BY DEF SnippetInv, Alone

LEMMA KeptStays ==
  ASSUME SnippetInv, UNCHANGED <<path, kept, sure>>,
         \A m \in Name : path[m] # 0 /\ (\A u \in Saver : save[u].inode # path[m])
            => content'[path[m]] = content[path[m]] /\ \A u \in Saver : save'[u].inode # path[m]
  PROVE  KeptInv'
<1> SUFFICES ASSUME NEW n \in sure
             PROVE  IF path[n] = 0 THEN kept[n] = {} ELSE \E v \in Version : Settled(n, v)'
  BY DEF KeptInv
<1>1. n \in Name
  BY DEF SnippetInv, SnippetTypes
<1>2. CASE path[n] = 0
  BY <1>2 DEF SnippetInv, KeptInv
<1>3. CASE path[n] # 0
  <2>1. PICK v \in Version : Settled(n, v)
    BY <1>3 DEF SnippetInv, KeptInv
  <2>2. Settled(n, v)'
    BY <1>1, <1>3, <2>1 DEF Settled
  <2> QED
    BY <1>3, <2>2
<1> QED
  BY <1>2, <1>3

LEMMA OpenTmpKeeps ==
  ASSUME SnippetInv, NEW t \in Saver, OpenTmp(t)
  PROVE  SnippetInv'
<1>1. PICK n : n = save[t].name
  OBVIOUS
<1>2. PICK i : i = IF tmp[n] = 0 THEN Min(Unused) ELSE tmp[n]
  OBVIOUS
<1>3. /\ save[t].step = "open" /\ save[t] \in SaveRecord /\ n \in Name /\ save[t].inode = 0
      /\ IsBusy(t) /\ SnippetTypes
  BY <1>1, OpenIs, NoSaveIs DEF OpenTmp, IsBusy, SnippetInv
<1>4. /\ i \in Inode /\ path[n] # i
      /\ \A m \in Name : Has(m, i) => m = n
      /\ \A m \in Name : path[m] # i
  <2>1. CASE tmp[n] = 0
    <3>1. i \in Unused
      BY <1>2, <1>3, <2>1, SomeUnused
    <3>2. i \in Inode /\ \A m \in Name : ~Has(m, i)
      BY <1>3, <3>1, UnusedIs
    <3> QED
      BY <1>3, <3>2 DEF Has
  <2>2. CASE tmp[n] # 0
    <3>1. i = tmp[n] /\ i \in Inode /\ Has(n, i)
      BY <1>2, <1>3, <2>2 DEF SnippetTypes, Has
    <3>2. \A m \in Name : Has(m, i) => m = n
      BY <1>3, <3>1 DEF SnippetInv, Apart
    <3>3. path[n] # i
      BY <1>3, <3>1, NumbersAre DEF SnippetInv, Apart
    <3>4. \A m \in Name : path[m] # i
      BY <3>2, <3>3 DEF Has
    <3> QED
      BY <3>1, <3>2, <3>3, <3>4
  <2> QED
    BY <2>1, <2>2
<1>5. PICK s : s = [save[t] EXCEPT !.step = "write", !.inode = i]
  OBVIOUS
<1>6. /\ s \in SaveRecord /\ s.step = "write" /\ s.inode = i /\ s.name = n
      /\ s.version = save[t].version /\ s.lone = save[t].lone
  BY <1>1, <1>3, <1>4, <1>5 DEF SaveRecord
<1>7. /\ tmp' = [tmp EXCEPT ![n] = i] /\ content' = [content EXCEPT ![i] = <<>>]
      /\ save' = [save EXCEPT ![t] = s]
      /\ UNCHANGED <<path, sure, kept, saved, fetched>>
  <2>1. save' = [save EXCEPT ![t].step = "write", ![t].inode = i]
    BY <1>1, <1>2 DEF OpenTmp
  <2>2. save' = [save EXCEPT ![t] = s]
    BY <1>3, <1>5, <2>1 DEF SnippetTypes
  <2> QED
    BY <1>1, <1>2, <2>2 DEF OpenTmp
<1>8. <<>> \in Seq(Version)
  OBVIOUS
<1>9. SnippetTypes'
  BY <1>3, <1>4, <1>6, <1>7, <1>8 DEF SnippetTypes
<1>10. /\ save'[t] = s /\ \A u \in Saver \ {t} : save'[u] = save[u]
       /\ tmp'[n] = i /\ \A m \in Name \ {n} : tmp'[m] = tmp[m]
       /\ content'[i] = <<>> /\ \A j \in Inode \ {i} : content'[j] = content[j]
  BY <1>3, <1>4, <1>7 DEF SnippetTypes
<1>11. \A m \in Name : \A j \in Inode : Has(m, j)' => Has(m, j) \/ (m = n /\ j = i)
  BY <1>6, <1>7, <1>10 DEF Has
<1>12. Apart'
  <2>1. \A m \in Name : path'[m] # 0 => path'[m] # tmp'[m]
    BY <1>4, <1>7, <1>10 DEF SnippetInv, Apart
  <2>2. \A m, o \in Name : \A j \in Inode : Has(m, j)' /\ Has(o, j)' => m = o
    BY <1>4, <1>11 DEF SnippetInv, Apart
  <2>3. \A u \in Saver : save'[u].inode # 0 <=> save'[u].step = "write"
    BY <1>4, <1>6, <1>10, NumbersAre DEF SnippetInv, Apart
  <2> QED
    BY <2>1, <2>2, <2>3 DEF Apart
<1>13. Pieces'
  <2>1. ASSUME NEW u \in Saver, save'[u] # NoSave
        PROVE  save'[u].version \in saved'[save'[u].name]
    BY <1>1, <1>3, <1>6, <1>7, <1>10, <2>1, NoSaveIs DEF SnippetInv, Pieces
  <2>2. ASSUME NEW m \in Name, NEW j \in Inode, Has(m, j)'
        PROVE  \A k \in DOMAIN content'[j] : content'[j][k] \in saved'[m]
    <3>1. CASE j = i
      <4>1. DOMAIN content'[j] = {}
        BY <1>10, <3>1
      <4> QED
        BY <4>1
    <3>2. CASE j # i
      BY <1>7, <1>10, <1>11, <2>2, <3>2 DEF SnippetInv, Pieces
    <3> QED
      BY <3>1, <3>2
  <2> QED
    BY <2>1, <2>2 DEF Pieces
<1>14. Alone'
  <2>1. \A u \in Saver : IsBusy(u)' => /\ IsBusy(u) /\ save'[u].name = save[u].name
                                       /\ save'[u].lone = save[u].lone
    BY <1>1, <1>3, <1>6, <1>10 DEF IsBusy
  <2>2. ASSUME NEW u \in Saver, IsBusy(u)', save'[u].lone
        PROVE  Ready(save[u])'
    <3>1. CASE u = t
      BY <1>6, <1>10, <3>1 DEF Ready
    <3>2. CASE u # t
      <4>1. IsBusy(u) /\ save[u].lone /\ save'[u] = save[u]
        BY <1>10, <2>1, <2>2, <3>2
      <4>2. Ready(save[u]) /\ save[u].name # n
        BY <1>1, <1>3, <3>2, <4>1, OtherName
      <4>3. PICK o \in Name : o = save[u].name
        BY <4>1, OpenIs, NoSaveIs DEF IsBusy
      <4>4. o # n /\ tmp'[o] = tmp[o]
        BY <1>10, <4>2, <4>3
      <4>5. \A j \in Inode : Has(o, j)' => content'[j] = content[j]
        BY <1>4, <1>10, <1>11, <4>4
      <4> QED
        BY <4>1, <4>2, <4>3, <4>4, <4>5, StillReady
    <3> QED
      BY <3>1, <3>2
  <2> QED
    BY <2>1, <2>2, StillAlone
<1>15. KeptInv'
  <2>1. \A m \in Name : path[m] # 0 => path[m] \in Inode
    BY <1>3 DEF SnippetTypes
  <2> QED
    BY <1>4, <1>6, <1>7, <1>10, <2>1, KeptStays
<1>16. SnippetFileIsAVersion' /\ (fetched' = <<>> \/ fetched'[1] \in Name)
  BY <1>7 DEF SnippetInv, SnippetFileIsAVersion
<1> QED
  BY <1>9, <1>12, <1>13, <1>14, <1>15, <1>16 DEF SnippetInv

\* Steps that give no snippet an inode: what the inodes in use hold is what was left in
\* them.
LEMMA LeavesPieces ==
  ASSUME SnippetInv,
         path' \in [Name -> Inode \cup {0}], tmp' \in [Name -> Inode \cup {0}],
         save' \in [Saver -> SaveRecord \cup {NoSave}], sure' \subseteq Name,
         kept' \in [Name -> SUBSET Version], UNCHANGED saved,
         NEW data \in [Inode -> Seq(Version)], content' = Content(data),
         \A m \in Name : path'[m] # 0 => path'[m] # tmp'[m],
         \A m \in Name : \A i \in Inode : Has(m, i)' => Has(m, i),
         \A u \in Saver : /\ save'[u].inode # 0 <=> save'[u].step = "write"
                          /\ save'[u] # NoSave => /\ save[u] # NoSave
                                                  /\ save'[u].name = save[u].name
                                                  /\ save'[u].version = save[u].version,
         \A m \in Name : \A i \in Inode : Has(m, i)' =>
           \A k \in DOMAIN data[i] : data[i][k] \in saved[m]
  PROVE  /\ SnippetTypes' /\ Apart' /\ Pieces'
         /\ \A m \in Name : \A i \in Inode : Has(m, i)' => content'[i] = data[i]
<1>1. /\ content' \in [Inode -> Seq(Version)]
      /\ \A m \in Name : \A i \in Inode : Has(m, i)' => content'[i] = data[i]
  BY ContentIs DEF SnippetInv
<1>2. SnippetTypes'
  BY <1>1 DEF SnippetInv, SnippetTypes
<1>3. Apart'
  BY <1>2, StillApart DEF Apart
<1>4. Pieces'
  <2>1. ASSUME NEW u \in Saver, save'[u] # NoSave
        PROVE  save'[u].version \in saved'[save'[u].name]
    BY <2>1 DEF SnippetInv, Pieces
  <2>2. ASSUME NEW m \in Name, NEW i \in Inode, Has(m, i)'
        PROVE  \A k \in DOMAIN content'[i] : content'[i][k] \in saved'[m]
    <3>1. content'[i] = data[i]
      BY <1>1, <2>2
    <3> QED
      BY <2>2, <3>1
  <2> QED
    BY <2>1, <2>2 DEF Pieces
<1> QED
  BY <1>1, <1>2, <1>3, <1>4

\* What a write of size bytes leaves in a file.
Patch(v, size, old) == SubSeq(Whole(v), 1, size) \o SubSeq(old, size + 1, Len(old))

LEMMA PatchIs ==
  ASSUME NEW v \in Version, NEW size \in 0..v, NEW old \in Seq(Version)
  PROVE  /\ Patch(v, size, old) \in Seq(Version)
         /\ \A k \in DOMAIN Patch(v, size, old) :
              Patch(v, size, old)[k] = v \/ \E j \in DOMAIN old : Patch(v, size, old)[k] = old[j]
         /\ size = v /\ old = <<>> => Patch(v, size, old) = Whole(v)
<1> SUFFICES ASSUME NEW patch, patch = Patch(v, size, old)
             PROVE  /\ patch \in Seq(Version)
                    /\ \A k \in DOMAIN patch : patch[k] = v \/ \E j \in DOMAIN old : patch[k] = old[j]
                    /\ size = v /\ old = <<>> => patch = Whole(v)
  OBVIOUS
<1>1. v \in Nat /\ v >= 1 /\ size \in Nat /\ size <= v /\ Len(old) \in Nat
  BY NumbersAre
<1>2. PICK a : a = SubSeq(Whole(v), 1, size)
  OBVIOUS
<1>3. PICK b : b = SubSeq(old, size + 1, Len(old))
  OBVIOUS
<1>4. a \in Seq(Version) /\ Len(a) = size /\ \A k \in 1..size : a[k] = v
  BY <1>1, <1>2, WholeIs
<1>5. /\ b \in Seq(Version)
      /\ Len(b) = IF size + 1 <= Len(old) THEN Len(old) - size ELSE 0
      /\ \A k \in 1..Len(b) : b[k] = old[size + k] /\ size + k \in DOMAIN old
  BY <1>1, <1>3
<1>6. patch = a \o b
  BY <1>2, <1>3 DEF Patch
<1>7. /\ patch \in Seq(Version)
      /\ Len(patch) = size + Len(b) /\ Len(b) \in Nat
      /\ \A k \in 1..size + Len(b) :
           /\ k <= size => patch[k] = a[k]
           /\ ~(k <= size) => patch[k] = b[k - size]
  <2>1. a \in Seq(Version) /\ b \in Seq(Version) /\ Len(a) = size
    BY <1>4, <1>5
  <2>2. /\ a \o b \in Seq(Version)
        /\ Len(a \o b) = size + Len(b) /\ Len(b) \in Nat
        /\ \A k \in 1..size + Len(b) :
             /\ k <= size => (a \o b)[k] = a[k]
             /\ ~(k <= size) => (a \o b)[k] = b[k - size]
    BY <2>1
  <2> QED
    BY <1>6, <2>2
<1>8. ASSUME NEW k \in DOMAIN patch
      PROVE  patch[k] = v \/ \E j \in DOMAIN old : patch[k] = old[j]
  <2>1. k \in 1..size + Len(b) /\ k \in Nat /\ k >= 1 /\ k <= size + Len(b)
    BY <1>1, <1>7
  <2>2. CASE k <= size
    <3>1. patch[k] = a[k]
      BY <1>7, <2>1, <2>2
    <3>2. k \in 1..size
      BY <1>1, <2>1, <2>2
    <3> QED
      BY <1>4, <3>1, <3>2
  <2>3. CASE ~(k <= size)
    <3>1. patch[k] = b[k - size]
      BY <1>7, <2>1, <2>3
    <3>2. Len(b) \in Nat
      BY <1>7
    <3>3. k - size \in 1..Len(b)
      BY <1>1, <2>1, <2>3, <3>2
    <3>4. b[k - size] = old[size + (k - size)] /\ size + (k - size) \in DOMAIN old
      BY <1>5, <3>3
    <3> QED
      BY <3>1, <3>4
  <2> QED
    BY <2>2, <2>3
<1>9. ASSUME size = v, old = <<>>
      PROVE  patch = Whole(v)
  <2>1. Len(b) = 0
    BY <1>1, <1>3, <1>9
  <2>2. Len(patch) = v /\ \A k \in 1..v : patch[k] = v
    BY <1>1, <1>4, <1>7, <1>9, <2>1
  <2>3. Whole(v) \in Seq(Version) /\ Len(Whole(v)) = v /\ \A k \in 1..v : Whole(v)[k] = v
    BY WholeIs
  <2>4. Len(patch) = Len(Whole(v)) /\ \A k \in 1..Len(patch) : patch[k] = Whole(v)[k]
    BY <2>2, <2>3
  <2>5. patch \in Seq(Version)
    BY <1>7
  <2> QED
    BY <2>3, <2>4, <2>5, SeqEqual
<1> QED
  BY <1>7, <1>8, <1>9
\* The saves of other snippets stay ready, where a step is about snippet n only.
LEMMA OthersAlone ==
  ASSUME SnippetInv, NEW n \in Name, NEW t \in Saver, IsBusy(t), save[t].name = n,
         \A u \in Saver \ {t} : save'[u] = save[u],
         \A m \in Name \ {n} : tmp'[m] = tmp[m],
         \A m \in Name \ {n} : \A j \in Inode : Has(m, j)' => content'[j] = content[j],
         IsBusy(t)' => save'[t].name = n /\ save'[t].lone = save[t].lone,
         IsBusy(t)' /\ save'[t].lone => Ready(save[t])'
  PROVE  Alone'
<1>1. \A u \in Saver : IsBusy(u)' => /\ IsBusy(u) /\ save'[u].name = save[u].name
                                     /\ save'[u].lone = save[u].lone
  BY DEF IsBusy
<1>2. ASSUME NEW u \in Saver \ {t}, IsBusy(u)', save'[u].lone
      PROVE  Ready(save[u])'
  <2>1. IsBusy(u) /\ save[u].lone /\ save'[u] = save[u]
    BY <1>1, <1>2
  <2>2. Ready(save[u]) /\ save[u].name # n
    BY <2>1, OtherName
  <2>3. PICK o \in Name : o = save[u].name
    BY <2>1, OpenIs, NoSaveIs DEF IsBusy
  <2>4. tmp'[o] = tmp[o] /\ \A j \in Inode : Has(o, j)' => content'[j] = content[j]
    BY <2>2, <2>3
  <2> QED
    BY <2>1, <2>2, <2>3, <2>4, StillReady
<1> QED
  BY <1>1, <1>2, StillAlone

LEMMA WriteTmpKeeps ==
  ASSUME SnippetInv, NEW t \in Saver, WriteTmp(t)
  PROVE  SnippetInv'
<1>1. PICK s : s = save[t]
  OBVIOUS
<1>2. s.step = "write" /\ UNCHANGED <<path, tmp, sure, kept, saved, fetched>>
  BY <1>1 DEF WriteTmp
<1>3. PICK n \in Name : n = s.name
  BY <1>1, <1>2, OpenIs, NoSaveIs
<1>4. PICK v \in Version : v = s.version
  BY <1>1, <1>2, OpenIs, NoSaveIs DEF SaveRecord
<1>5. PICK i \in Inode : i = s.inode
  BY <1>1, <1>2, OpenIs DEF SnippetInv, Apart
<1>6. PICK size \in 0..v :
        /\ save' = [save EXCEPT ![t] = IF size = v
                                       THEN [s EXCEPT !.step = "rename", !.inode = 0]
                                       ELSE NoSave]
        /\ content' = Content([content EXCEPT ![i] =
                         SubSeq(Whole(v), 1, size) \o SubSeq(@, size + 1, Len(@))])
  BY <1>1, <1>4, <1>5 DEF WriteTmp
<1>7. /\ SnippetTypes /\ content[i] \in Seq(Version) /\ s \in SaveRecord /\ v \in saved[n]
      /\ Has(n, i) /\ IsBusy(t) /\ save[t].inode = i
  BY <1>1, <1>2, <1>3, <1>4, <1>5, OpenIs, NoSaveIs
     DEF SnippetInv, SnippetTypes, Pieces, Has, IsBusy
<1>8. PICK patch : patch = Patch(v, size, content[i])
  OBVIOUS
<1>9. /\ patch \in Seq(Version)
      /\ \A k \in DOMAIN patch : patch[k] = v \/ \E j \in DOMAIN content[i] : patch[k] = content[i][j]
      /\ size = v /\ content[i] = <<>> => patch = Whole(v)
  BY <1>7, <1>8, PatchIs
<1>10. PICK data : data = [content EXCEPT ![i] = patch]
  OBVIOUS
<1>11. /\ content' = Content(data) /\ data \in [Inode -> Seq(Version)] /\ data[i] = patch
       /\ \A j \in Inode \ {i} : data[j] = content[j]
  BY <1>6, <1>7, <1>8, <1>9, <1>10 DEF SnippetTypes, Patch
<1>12. PICK r : r = IF size = v THEN [s EXCEPT !.step = "rename", !.inode = 0] ELSE NoSave
  OBVIOUS
<1>13. /\ size = v => /\ r \in SaveRecord /\ r.step = "rename" /\ r.inode = 0 /\ r.name = n
                      /\ r.version = v /\ r.lone = s.lone
       /\ size # v => r = NoSave
  <2>1. PICK q : q = [s EXCEPT !.step = "rename", !.inode = 0]
    OBVIOUS
  <2>2. /\ q \in SaveRecord /\ q.step = "rename" /\ q.inode = 0 /\ q.name = n
        /\ q.version = v /\ q.lone = s.lone
    BY <1>3, <1>4, <1>7, <2>1 DEF SaveRecord
  <2> QED
    BY <1>12, <2>1, <2>2
<1>14. save' = [save EXCEPT ![t] = r]
  BY <1>6, <1>12
<1>15. /\ save'[t] = r /\ \A u \in Saver \ {t} : save'[u] = save[u]
       /\ save' \in [Saver -> SaveRecord \cup {NoSave}] /\ r.inode = 0 /\ r.step # "write"
       /\ save[t] # NoSave
  BY <1>1, <1>7, <1>13, <1>14, NoSaveIs DEF SnippetTypes
<1>16. \A m \in Name : \A j \in Inode : Has(m, j)' => Has(m, j)
  BY <1>2, <1>15, NumbersAre DEF Has
<1>17. \A u \in Saver : /\ save'[u].inode # 0 <=> save'[u].step = "write"
                        /\ save'[u] # NoSave => /\ save[u] # NoSave
                                                /\ save'[u].name = save[u].name
                                                /\ save'[u].version = save[u].version
  BY <1>1, <1>3, <1>4, <1>13, <1>15 DEF SnippetInv, Apart
<1>18. ASSUME NEW m \in Name, NEW j \in Inode, Has(m, j)'
       PROVE  \A k \in DOMAIN data[j] : data[j][k] \in saved[m]
  <2>1. Has(m, j) /\ \A k \in DOMAIN content[j] : content[j][k] \in saved[m]
    BY <1>16, <1>18 DEF SnippetInv, Pieces
  <2>2. CASE j = i
    <3>1. m = n
      BY <1>7, <2>1, <2>2 DEF SnippetInv, Apart
    <3> QED
      BY <1>7, <1>9, <1>11, <2>1, <2>2, <3>1
  <2>3. CASE j # i
    BY <1>11, <2>1, <2>3
  <2> QED
    BY <2>2, <2>3
<1>19. /\ path' \in [Name -> Inode \cup {0}] /\ tmp' \in [Name -> Inode \cup {0}]
       /\ sure' \subseteq Name /\ kept' \in [Name -> SUBSET Version] /\ saved' = saved
       /\ \A m \in Name : path'[m] # 0 => path'[m] # tmp'[m]
  BY <1>2, <1>7 DEF SnippetInv, SnippetTypes, Apart
<1>20. /\ SnippetTypes' /\ Apart' /\ Pieces'
       /\ \A m \in Name : \A j \in Inode : Has(m, j)' => content'[j] = data[j]
  BY <1>11, <1>15, <1>16, <1>17, <1>18, <1>19, LeavesPieces
<1>21. Alone'
  <2>1. ASSUME NEW m \in Name \ {n}, NEW j \in Inode, Has(m, j)'
        PROVE  content'[j] = content[j]
    <3>1. j # i
      BY <1>7, <1>16, <2>1 DEF SnippetInv, Apart
    <3> QED
      BY <1>11, <1>20, <2>1, <3>1
  <2>2. ASSUME IsBusy(t)', save'[t].lone
        PROVE  Ready(save[t])'
    <3>1. size = v /\ s.lone
      BY <1>13, <1>15, <2>2, NoSaveIs DEF IsBusy
    <3>2. tmp[n] = i /\ content[i] = <<>>
      BY <1>1, <1>2, <1>3, <1>5, <1>7, <3>1 DEF SnippetInv, Alone, Ready
    <3>3. tmp'[n] = i /\ Has(n, i)'
      BY <1>2, <3>2 DEF Has
    <3>4. content'[i] = Whole(v)
      BY <1>9, <1>11, <1>20, <3>1, <3>2, <3>3
    <3> QED
      BY <1>13, <1>15, <3>1, <3>3, <3>4, NumbersAre DEF Ready
  <2>3. IsBusy(t)' => save'[t].name = n /\ save'[t].lone = save[t].lone
    BY <1>1, <1>13, <1>15, NoSaveIs DEF IsBusy
  <2>4. save[t].name = n /\ \A m \in Name \ {n} : tmp'[m] = tmp[m]
    BY <1>1, <1>2, <1>3
  <2> QED
    BY <1>7, <1>15, <2>1, <2>2, <2>3, <2>4, OthersAlone
<1>22. KeptInv'
  <2>1. ASSUME NEW m \in Name, path[m] # 0, \A u \in Saver : save[u].inode # path[m]
        PROVE  content'[path[m]] = content[path[m]] /\ \A u \in Saver : save'[u].inode # path[m]
    <3>1. PICK j \in Inode \ {i} : j = path[m]
      BY <1>7, <2>1 DEF SnippetTypes
    <3>2. Has(m, j)'
      BY <1>2, <3>1 DEF Has
    <3>3. content'[path[m]] = content[path[m]]
      BY <1>11, <1>20, <3>1, <3>2
    <3> QED
      BY <1>15, <2>1, <3>3
  <2> QED
    BY <1>2, <2>1, KeptStays
<1>23. SnippetFileIsAVersion' /\ (fetched' = <<>> \/ fetched'[1] \in Name)
  BY <1>2 DEF SnippetInv, SnippetFileIsAVersion
<1> QED
  BY <1>20, <1>21, <1>22, <1>23 DEF SnippetInv
\* Steps that only let inodes go.
LEMMA LetsGo ==
  ASSUME SnippetInv,
         path' \in [Name -> Inode \cup {0}], tmp' \in [Name -> Inode \cup {0}],
         save' \in [Saver -> SaveRecord \cup {NoSave}], sure' \subseteq Name,
         kept' \in [Name -> SUBSET Version], UNCHANGED <<saved, fetched>>,
         content' = Content(content),
         \A m \in Name : path'[m] # 0 => path'[m] # tmp'[m],
         \A m \in Name : \A i \in Inode : Has(m, i)' => Has(m, i),
         \A u \in Saver : /\ save'[u].inode # 0 <=> save'[u].step = "write"
                          /\ save'[u] # NoSave => /\ save[u] # NoSave
                                                  /\ save'[u].name = save[u].name
                                                  /\ save'[u].version = save[u].version
  PROVE  /\ Alone' /\ KeptInv' => SnippetInv'
         /\ \A m \in Name : \A i \in Inode : Has(m, i)' => content'[i] = content[i]
<1>1. content \in [Inode -> Seq(Version)]
  BY DEF SnippetInv, SnippetTypes
<1>2. \A m \in Name : \A i \in Inode : Has(m, i)' =>
        \A k \in DOMAIN content[i] : content[i][k] \in saved[m]
  BY DEF SnippetInv, Pieces
<1>3. /\ SnippetTypes' /\ Apart' /\ Pieces'
      /\ \A m \in Name : \A i \in Inode : Has(m, i)' => content'[i] = content[i]
  BY <1>1, <1>2, LeavesPieces
<1>4. SnippetFileIsAVersion' /\ (fetched' = <<>> \/ fetched'[1] \in Name)
  BY DEF SnippetInv, SnippetFileIsAVersion
<1> QED
  BY <1>3, <1>4 DEF SnippetInv

\* What is kept of a snippet that a step leaves alone.
LEMMA StillKept ==
  ASSUME SnippetInv, NEW m \in sure, path'[m] = path[m], kept'[m] = kept[m],
         \A j \in Inode : Has(m, j)' => content'[j] = content[j],
         \A u \in Saver : save'[u].inode = save[u].inode \/ save'[u].inode = 0
  PROVE  IF path'[m] = 0 THEN kept'[m] = {} ELSE \E v \in Version : Settled(m, v)'
<1>1. m \in Name
  BY DEF SnippetInv, SnippetTypes
<1>2. CASE path[m] = 0
  BY <1>2 DEF SnippetInv, KeptInv
<1>3. CASE path[m] # 0
  <2>1. PICK v \in Version : Settled(m, v)
    BY <1>3 DEF SnippetInv, KeptInv
  <2>2. PICK j \in Inode : j = path[m]
    BY <1>1, <1>3 DEF SnippetInv, SnippetTypes
  <2>3. Has(m, j)'
    BY <2>2 DEF Has
  <2>4. content'[j] = content[j] /\ j # 0
    BY <1>3, <2>2, <2>3
  <2>5. Settled(m, v)'
    BY <2>1, <2>2, <2>4 DEF Settled
  <2> QED
    BY <1>3, <2>5
<1> QED
  BY <1>2, <1>3

LEMMA RenameKeeps ==
  ASSUME SnippetInv, NEW t \in Saver, Rename(t)
  PROVE  SnippetInv'
<1>1. PICK s : s = save[t]
  OBVIOUS
<1>2. /\ s.step = "rename" /\ content' = Content(content) /\ UNCHANGED <<saved, fetched>>
      /\ s \in SaveRecord /\ s.inode = 0 /\ IsBusy(t) /\ SnippetTypes /\ s # NoSave
  BY <1>1, OpenIs, NoSaveIs DEF Rename, IsBusy, SnippetInv, Apart
<1>3. PICK n \in Name : n = s.name
  BY <1>2 DEF SaveRecord
<1>4. PICK v \in Version : v = s.version
  BY <1>2 DEF SaveRecord
<1>5. s.lone => /\ tmp[n] # 0 /\ content[tmp[n]] = Whole(v)
                /\ \A u \in Saver : IsBusy(u) /\ save[u].name = n => u = t
  BY <1>1, <1>2, <1>3, <1>4 DEF SnippetInv, Alone, Ready
<1>6. CASE /\ tmp[n] # 0
           /\ path' = [path EXCEPT ![n] = tmp[n]]
           /\ tmp' = [tmp EXCEPT ![n] = 0]
           /\ sure' = IF s.lone THEN sure \cup {n} ELSE sure \ {n}
           /\ kept' = [kept EXCEPT ![n] = IF s.lone THEN {v} ELSE {}]
           /\ save' = [save EXCEPT ![t] = NoSave]
  <2>1. PICK i \in Inode : i = tmp[n]
    BY <1>2, <1>6 DEF SnippetTypes
  <2>2. /\ path'[n] = i /\ \A m \in Name \ {n} : path'[m] = path[m]
        /\ tmp'[n] = 0 /\ \A m \in Name \ {n} : tmp'[m] = tmp[m]
        /\ save'[t] = NoSave /\ \A u \in Saver \ {t} : save'[u] = save[u]
        /\ \A m \in Name \ {n} : kept'[m] = kept[m]
        /\ s.lone => kept'[n] = {v}
        /\ i # 0
    BY <1>2, <1>6, <2>1 DEF SnippetTypes
  <2>3. /\ path' \in [Name -> Inode \cup {0}] /\ tmp' \in [Name -> Inode \cup {0}]
        /\ save' \in [Saver -> SaveRecord \cup {NoSave}] /\ sure' \subseteq Name
        /\ kept' \in [Name -> SUBSET Version]
    BY <1>2, <1>6, <2>1 DEF SnippetTypes
  <2>4. \A m \in Name : path'[m] # 0 => path'[m] # tmp'[m]
    BY <2>2 DEF SnippetInv, Apart
  <2>5. \A m \in Name : \A j \in Inode : Has(m, j)' => Has(m, j)
    BY <1>1, <1>2, <2>1, <2>2, NoSaveIs, NumbersAre DEF Has
  <2>6. \A u \in Saver : /\ save'[u].inode # 0 <=> save'[u].step = "write"
                         /\ save'[u] # NoSave => /\ save[u] # NoSave
                                                 /\ save'[u].name = save[u].name
                                                 /\ save'[u].version = save[u].version
                         /\ save'[u].inode = save[u].inode \/ save'[u].inode = 0
    BY <2>2, NoSaveIs DEF SnippetInv, Apart
  <2>7. /\ Alone' /\ KeptInv' => SnippetInv'
        /\ \A m \in Name : \A j \in Inode : Has(m, j)' => content'[j] = content[j]
    BY <1>2, <2>3, <2>4, <2>5, <2>6, LetsGo
  <2>8. Alone'
    <3>1. ~IsBusy(t)' /\ save[t].name = n
      BY <1>1, <1>3, <2>2, NoSaveIs DEF IsBusy
    <3> QED
      BY <1>2, <2>2, <2>7, <3>1, OthersAlone
  <2>9. ASSUME NEW m \in sure'
        PROVE  IF path'[m] = 0 THEN kept'[m] = {} ELSE \E w \in Version : Settled(m, w)'
    <3>1. CASE m = n
      <4>1. s.lone
        BY <1>6, <2>9, <3>1
      <4>2. Has(n, i)' /\ Has(n, i)
        BY <2>1, <2>2 DEF Has
      <4>3. content'[i] = Whole(v)
        BY <1>5, <2>1, <2>7, <4>1, <4>2
      <4>4. ASSUME NEW u \in Saver \ {t}, save[u].inode = i
            PROVE  FALSE
        <5>1. IsBusy(u) /\ save[u].name \in Name /\ Has(save[u].name, i)
          BY <2>2, <4>4, OpenIs DEF IsBusy
        <5>2. save[u].name = n
          BY <4>2, <5>1 DEF SnippetInv, Apart
        <5> QED
          BY <1>5, <4>1, <5>1, <5>2
      <4>5. \A u \in Saver : save'[u].inode # i
        BY <2>2, <4>4, NoSaveIs
      <4>6. Settled(n, v)'
        BY <2>2, <4>1, <4>3, <4>5 DEF Settled
      <4> QED
        BY <2>2, <3>1, <4>6
    <3>2. CASE m # n
      <4>1. m \in sure /\ m \in Name
        BY <1>2, <1>6, <2>9, <3>2 DEF SnippetTypes
      <4>2. path'[m] = path[m] /\ kept'[m] = kept[m]
        BY <2>2, <3>2, <4>1
      <4> QED
        BY <2>6, <2>7, <4>1, <4>2, StillKept
    <3> QED
      BY <3>1, <3>2
  <2>10. KeptInv'
    BY <2>9 DEF KeptInv
  <2> QED
    BY <2>7, <2>8, <2>10
<1>7. CASE /\ tmp[n] = 0
           /\ save' = [save EXCEPT ![t].step = "remove"]
           /\ UNCHANGED <<path, tmp, sure, kept>>
  <2>1. PICK r : r = [s EXCEPT !.step = "remove"]
    OBVIOUS
  <2>2. /\ r \in SaveRecord /\ r.step = "remove" /\ r.inode = 0 /\ r.name = n
        /\ r.version = v /\ r.lone = s.lone
    BY <1>2, <1>3, <1>4, <2>1 DEF SaveRecord
  <2>3. /\ save'[t] = r /\ \A u \in Saver \ {t} : save'[u] = save[u]
        /\ save' \in [Saver -> SaveRecord \cup {NoSave}]
    <3>1. save' = [save EXCEPT ![t] = r]
      BY <1>1, <1>7, <2>1
    <3> QED
      BY <1>2, <2>2, <3>1 DEF SnippetTypes
  <2>4. /\ path' \in [Name -> Inode \cup {0}] /\ tmp' \in [Name -> Inode \cup {0}]
        /\ sure' \subseteq Name /\ kept' \in [Name -> SUBSET Version]
        /\ \A m \in Name : path'[m] # 0 => path'[m] # tmp'[m]
    BY <1>2, <1>7 DEF SnippetInv, SnippetTypes, Apart
  <2>5. \A m \in Name : \A j \in Inode : Has(m, j)' => Has(m, j)
    BY <1>7, <2>2, <2>3, NumbersAre DEF Has
  <2>6. \A u \in Saver : /\ save'[u].inode # 0 <=> save'[u].step = "write"
                         /\ save'[u] # NoSave => /\ save[u] # NoSave
                                                 /\ save'[u].name = save[u].name
                                                 /\ save'[u].version = save[u].version
                         /\ save'[u].inode = save[u].inode \/ save'[u].inode = 0
    BY <1>1, <1>2, <1>3, <1>4, <2>2, <2>3 DEF SnippetInv, Apart
  <2>7. /\ Alone' /\ KeptInv' => SnippetInv'
        /\ \A m \in Name : \A j \in Inode : Has(m, j)' => content'[j] = content[j]
    BY <1>2, <2>3, <2>4, <2>5, <2>6, LetsGo
  <2>8. Alone'
    <3>1. ~save'[t].lone /\ save'[t].lone = save[t].lone /\ save[t].name = n /\ save'[t].name = n
      BY <1>1, <1>3, <1>5, <1>7, <2>2, <2>3
    <3> QED
      BY <1>2, <1>7, <2>3, <2>7, <3>1, OthersAlone
  <2>9. KeptInv'
    <3> SUFFICES ASSUME NEW m \in sure
                 PROVE  IF path'[m] = 0 THEN kept'[m] = {} ELSE \E w \in Version : Settled(m, w)'
      BY <1>7 DEF KeptInv
    <3>1. m \in Name /\ path'[m] = path[m] /\ kept'[m] = kept[m]
      BY <1>2, <1>7 DEF SnippetTypes
    <3> QED
      BY <2>6, <2>7, <3>1, StillKept
  <2> QED
    BY <2>7, <2>8, <2>9
<1> QED
  BY <1>1, <1>3, <1>4, <1>6, <1>7 DEF Rename
\* Where what is kept of a snippet is as it was.
LEMMA AllKept ==
  ASSUME SnippetInv, UNCHANGED <<path, kept, sure>>,
         \A m \in Name : \A j \in Inode : Has(m, j)' => content'[j] = content[j],
         \A u \in Saver : save'[u].inode = save[u].inode \/ save'[u].inode = 0
  PROVE  KeptInv'
<1> SUFFICES ASSUME NEW m \in sure
             PROVE  IF path'[m] = 0 THEN kept'[m] = {} ELSE \E w \in Version : Settled(m, w)'
  BY DEF KeptInv
<1>1. m \in Name
  BY DEF SnippetInv, SnippetTypes
<1> QED
  BY <1>1, StillKept

LEMMA RemoveTmpKeeps ==
  ASSUME SnippetInv, NEW t \in Saver, RemoveTmp(t)
  PROVE  SnippetInv'
<1>1. /\ save[t].step = "remove" /\ content' = Content(content)
      /\ UNCHANGED <<path, sure, kept, saved, fetched>>
      /\ save' = [save EXCEPT ![t] = NoSave]
      /\ save[t] \in SaveRecord /\ IsBusy(t) /\ SnippetTypes
  BY OpenIs, NoSaveIs DEF RemoveTmp, IsBusy, SnippetInv
<1>2. PICK n \in Name : n = save[t].name
  BY <1>1 DEF SaveRecord
<1>3. tmp' = [tmp EXCEPT ![n] = 0]
  BY <1>2 DEF RemoveTmp
<1>4. /\ tmp'[n] = 0 /\ \A m \in Name \ {n} : tmp'[m] = tmp[m]
      /\ save'[t] = NoSave /\ \A u \in Saver \ {t} : save'[u] = save[u]
  BY <1>1, <1>3 DEF SnippetTypes
<1>5. /\ path' \in [Name -> Inode \cup {0}] /\ tmp' \in [Name -> Inode \cup {0}]
      /\ save' \in [Saver -> SaveRecord \cup {NoSave}] /\ sure' \subseteq Name
      /\ kept' \in [Name -> SUBSET Version]
  BY <1>1, <1>3 DEF SnippetTypes
<1>6. \A m \in Name : path'[m] # 0 => path'[m] # tmp'[m]
  BY <1>1, <1>4 DEF SnippetInv, Apart
<1>7. \A m \in Name : \A j \in Inode : Has(m, j)' => Has(m, j)
  BY <1>1, <1>4, NoSaveIs, NumbersAre DEF Has
<1>8. \A u \in Saver : /\ save'[u].inode # 0 <=> save'[u].step = "write"
                       /\ save'[u] # NoSave => /\ save[u] # NoSave
                                               /\ save'[u].name = save[u].name
                                               /\ save'[u].version = save[u].version
                       /\ save'[u].inode = save[u].inode \/ save'[u].inode = 0
  BY <1>4, NoSaveIs DEF SnippetInv, Apart
<1>9. /\ Alone' /\ KeptInv' => SnippetInv'
      /\ \A m \in Name : \A j \in Inode : Has(m, j)' => content'[j] = content[j]
  BY <1>1, <1>5, <1>6, <1>7, <1>8, LetsGo
<1>10. ~IsBusy(t)'
  BY <1>4, NoSaveIs DEF IsBusy
<1>11. Alone'
  BY <1>1, <1>2, <1>4, <1>9, <1>10, OthersAlone
<1>12. KeptInv'
  BY <1>1, <1>8, <1>9, AllKept
<1> QED
  BY <1>9, <1>11, <1>12

LEMMA DeleteKeeps ==
  ASSUME SnippetInv, NEW n \in Name, Delete(n)
  PROVE  SnippetInv'
<1>1. /\ content' = Content(content) /\ UNCHANGED <<tmp, save, saved, fetched>>
      /\ path' = [path EXCEPT ![n] = 0] /\ sure' = sure \cup {n}
      /\ kept' = [kept EXCEPT ![n] = {}] /\ SnippetTypes
  BY DEF Delete, SnippetInv
<1>2. /\ path'[n] = 0 /\ \A m \in Name \ {n} : path'[m] = path[m]
      /\ kept'[n] = {} /\ \A m \in Name \ {n} : kept'[m] = kept[m]
  BY <1>1 DEF SnippetTypes
<1>3. /\ path' \in [Name -> Inode \cup {0}] /\ tmp' \in [Name -> Inode \cup {0}]
      /\ save' \in [Saver -> SaveRecord \cup {NoSave}] /\ sure' \subseteq Name
      /\ kept' \in [Name -> SUBSET Version]
  BY <1>1 DEF SnippetTypes
<1>4. \A m \in Name : path'[m] # 0 => path'[m] # tmp'[m]
  BY <1>1, <1>2 DEF SnippetInv, Apart
<1>5. \A m \in Name : \A j \in Inode : Has(m, j)' => Has(m, j)
  BY <1>1, <1>2, NumbersAre DEF Has
<1>6. \A u \in Saver : /\ save'[u].inode # 0 <=> save'[u].step = "write"
                       /\ save'[u] # NoSave => /\ save[u] # NoSave
                                               /\ save'[u].name = save[u].name
                                               /\ save'[u].version = save[u].version
                       /\ save'[u].inode = save[u].inode \/ save'[u].inode = 0
  BY <1>1 DEF SnippetInv, Apart
<1>7. /\ Alone' /\ KeptInv' => SnippetInv'
      /\ \A m \in Name : \A j \in Inode : Has(m, j)' => content'[j] = content[j]
  BY <1>1, <1>3, <1>4, <1>5, <1>6, LetsGo
<1>8. Alone'
  <2>1. \A u \in Saver : IsBusy(u)' => /\ IsBusy(u) /\ save'[u].name = save[u].name
                                       /\ save'[u].lone = save[u].lone
    BY <1>1 DEF IsBusy
  <2>2. ASSUME NEW u \in Saver, IsBusy(u)', save'[u].lone
        PROVE  Ready(save[u])'
    <3>1. IsBusy(u) /\ save[u].lone /\ save'[u] = save[u]
      BY <1>1, <2>1, <2>2
    <3>2. Ready(save[u])
      BY <3>1 DEF SnippetInv, Alone
    <3>3. PICK o \in Name : o = save[u].name
      BY <3>1, OpenIs, NoSaveIs DEF IsBusy
    <3>4. tmp'[o] = tmp[o] /\ \A j \in Inode : Has(o, j)' => content'[j] = content[j]
      BY <1>1, <1>7
    <3> QED
      BY <3>1, <3>2, <3>3, <3>4, StillReady
  <2> QED
    BY <2>1, <2>2, StillAlone
<1>9. KeptInv'
  <2> SUFFICES ASSUME NEW m \in sure'
               PROVE  IF path'[m] = 0 THEN kept'[m] = {} ELSE \E w \in Version : Settled(m, w)'
    BY DEF KeptInv
  <2>1. CASE m = n
    BY <1>2, <2>1
  <2>2. CASE m # n
    <3>1. m \in sure /\ m \in Name
      BY <1>1, <2>2 DEF SnippetTypes
    <3>2. path'[m] = path[m] /\ kept'[m] = kept[m]
      BY <1>2, <2>2, <3>1
    <3> QED
      BY <1>6, <1>7, <3>1, <3>2, StillKept
  <2> QED
    BY <2>1, <2>2
<1> QED
  BY <1>7, <1>8, <1>9

LEMMA KillDaemonKeeps ==
  ASSUME SnippetInv, KillDaemon
  PROVE  SnippetInv'
<1>1. /\ content' = Content(content) /\ UNCHANGED <<path, tmp, sure, kept, saved, fetched>>
      /\ save' = [t \in Saver |-> IF save[t].step = "post" THEN save[t] ELSE NoSave]
      /\ SnippetTypes
  BY DEF KillDaemon, SnippetInv
<1>2. \A u \in Saver : \/ save'[u] = save[u] /\ save[u].step = "post" /\ save[u].inode = 0
                       \/ save'[u] = NoSave
  BY <1>1 DEF SnippetInv, Apart
<1>3. /\ path' \in [Name -> Inode \cup {0}] /\ tmp' \in [Name -> Inode \cup {0}]
      /\ save' \in [Saver -> SaveRecord \cup {NoSave}] /\ sure' \subseteq Name
      /\ kept' \in [Name -> SUBSET Version]
  BY <1>1 DEF SnippetTypes
<1>4. \A m \in Name : path'[m] # 0 => path'[m] # tmp'[m]
  BY <1>1 DEF SnippetInv, Apart
<1>5. \A m \in Name : \A j \in Inode : Has(m, j)' => Has(m, j)
  BY <1>1, <1>2, NoSaveIs, NumbersAre DEF Has
<1>6. \A u \in Saver : /\ save'[u].inode # 0 <=> save'[u].step = "write"
                       /\ save'[u] # NoSave => /\ save[u] # NoSave
                                               /\ save'[u].name = save[u].name
                                               /\ save'[u].version = save[u].version
                       /\ save'[u].inode = save[u].inode \/ save'[u].inode = 0
  BY <1>2, NoSaveIs
<1>7. /\ Alone' /\ KeptInv' => SnippetInv'
      /\ \A m \in Name : \A j \in Inode : Has(m, j)' => content'[j] = content[j]
  BY <1>1, <1>3, <1>4, <1>5, <1>6, LetsGo
<1>8. Alone'
  BY <1>2, NoSaveIs DEF Alone, IsBusy
<1>9. KeptInv'
  BY <1>1, <1>6, <1>7, AllKept
<1> QED
  BY <1>7, <1>8, <1>9

\* A version that can be loaded is one that somebody began to save of that snippet.
LEMMA LoadIs ==
  ASSUME SnippetInv, NEW n \in Name, NEW v \in Load(n)
  PROVE  v \in Version /\ path[n] \in Inode /\ content[path[n]] = Whole(v) /\ v \in saved[n]
<1>1. path[n] # 0 /\ v \in Version /\ content[path[n]] = Whole(v)
  BY DEF Load
<1>2. PICK i \in Inode : i = path[n]
  BY <1>1 DEF SnippetInv, SnippetTypes
<1>3. Has(n, i)
  BY <1>2 DEF Has
<1>4. \A k \in DOMAIN content[i] : content[i][k] \in saved[n]
  BY <1>3 DEF SnippetInv, Pieces
<1>5. v \in Nat /\ v >= 1 /\ DOMAIN Whole(v) = 1..v /\ \A k \in 1..v : Whole(v)[k] = v
  BY <1>1, NumbersAre, WholeIs
<1>6. 1 \in DOMAIN Whole(v) /\ Whole(v)[1] = v
  BY <1>5
<1> QED
  BY <1>1, <1>2, <1>4, <1>6

LEMMA FetchSnippetKeeps ==
  ASSUME SnippetInv, NEW n \in Name, FetchSnippet(n)
  PROVE  SnippetInv'
<1>1. /\ UNCHANGED <<content, path, tmp, save, sure, kept, saved>>
      /\ fetched' = <<n, content[path[n]]>> /\ Load(n) # {}
  BY DEF FetchSnippet, Served, Listed
<1>2. PICK v : v \in Load(n)
  BY <1>1
<1>3. v \in saved[n] /\ content[path[n]] = Whole(v)
  BY <1>2, LoadIs
<1>4. SnippetFileIsAVersion'
  BY <1>1, <1>3 DEF SnippetFileIsAVersion, Whole
<1>5. fetched'[1] = n
  BY <1>1
<1>6. SnippetTypes' /\ Apart' /\ Pieces' /\ Alone' /\ KeptInv'
  <2>1. UNCHANGED <<content, path, tmp, save, sure, kept, saved>>
    BY <1>1
  <2>2. SnippetTypes' /\ Apart' /\ Pieces'
    BY <2>1 DEF SnippetInv, SnippetTypes, Apart, Has, Pieces
  <2>3. Alone' /\ KeptInv'
    BY <2>1 DEF SnippetInv, Alone, IsBusy, Ready, KeptInv, Settled
  <2> QED
    BY <2>2, <2>3
<1> QED
  BY <1>4, <1>5, <1>6 DEF SnippetInv

LEMMA SnippetInvInit ==
  ASSUME SnippetInit
  PROVE  SnippetInv
<1>1. <<>> \in Seq(Version) /\ DOMAIN <<>> = {}
  OBVIOUS
<1>2. SnippetTypes
  BY <1>1 DEF SnippetInit, SnippetTypes
<1>3. \A n \in Name : \A i \in Inode : ~Has(n, i)
  BY NumbersAre, NoSaveIs DEF SnippetInit, Has
<1>4. Apart
  BY <1>3, NoSaveIs DEF SnippetInit, Apart
<1>5. Pieces
  BY <1>3 DEF SnippetInit, Pieces
<1>6. Alone /\ KeptInv
  BY NoSaveIs DEF SnippetInit, Alone, IsBusy, KeptInv
<1>7. SnippetFileIsAVersion /\ fetched = <<>>
  BY DEF SnippetInit, SnippetFileIsAVersion
<1> QED
  BY <1>2, <1>4, <1>5, <1>6, <1>7 DEF SnippetInv

LEMMA SnippetInvNext ==
  ASSUME SnippetInv, [SnippetNext]_snippets
  PROVE  SnippetInv'
<1>1. CASE UNCHANGED snippets
  BY <1>1 DEF snippets, SnippetInv, SnippetTypes, Apart, Has, Pieces, Alone, IsBusy, Ready, KeptInv,
              Settled, SnippetFileIsAVersion
<1>2. CASE SnippetNext
  <2>1. ASSUME NEW t \in Saver, NEW n \in Name, NEW v \in Version, SnippetSave(t, n, v)
        PROVE  SnippetInv'
    BY <2>1, SnippetSaveKeeps
  <2>2. ASSUME NEW t \in Saver, \/ HandleSave(t)
                                \/ OpenTmp(t)
                                \/ WriteTmp(t)
                                \/ Rename(t)
                                \/ RemoveTmp(t)
        PROVE  SnippetInv'
    BY <2>2, HandleSaveKeeps, OpenTmpKeeps, WriteTmpKeeps, RenameKeeps, RemoveTmpKeeps
  <2>3. ASSUME NEW n \in Name, Delete(n) \/ FetchSnippet(n)
        PROVE  SnippetInv'
    BY <2>3, DeleteKeeps, FetchSnippetKeeps
  <2>4. CASE KillDaemon
    BY <2>4, KillDaemonKeeps
  <2> QED
    BY <1>2, <2>1, <2>2, <2>3, <2>4 DEF SnippetNext
<1> QED
  BY <1>1, <1>2

LEMMA SnippetInvImplies ==
  ASSUME SnippetInv
  PROVE  SnippetTypeOK /\ LoneSaveIsKept /\ SnippetFileIsAVersion
<1>1. SnippetTypeOK
  <2>1. ASSUME NEW t \in Saver, save[t] # NoSave
        PROVE  /\ save[t].step \in {"post", "open", "write", "rename", "remove"}
               /\ save[t].name \in Name /\ save[t].version \in Version
               /\ save[t].inode \in Inode \cup {0} /\ save[t].lone \in BOOLEAN
    <3>1. save[t] \in SaveRecord
      BY <2>1, OpenIs
    <3> QED
      BY <3>1 DEF SaveRecord
  <2> QED
    BY <2>1 DEF SnippetInv, SnippetTypes, SnippetTypeOK
<1>2. ASSUME NEW n \in sure
      PROVE  Load(n) = kept[n] /\ (kept[n] = {} => path[n] = 0)
  <2>1. CASE path[n] = 0
    BY <2>1 DEF SnippetInv, KeptInv, Load
  <2>2. CASE path[n] # 0
    <3>1. PICK v \in Version : kept[n] = {v} /\ content[path[n]] = Whole(v)
      BY <2>2 DEF SnippetInv, KeptInv, Settled
    <3>2. Load(n) = {w \in Version : Whole(w) = Whole(v)}
      BY <2>2, <3>1 DEF Load
    <3>3. \A w \in Version : Whole(w) = Whole(v) => w = v
      BY WholeIs
    <3> QED
      BY <3>1, <3>2, <3>3
  <2> QED
    BY <2>1, <2>2
<1> QED
  BY <1>1, <1>2 DEF LoneSaveIsKept, SnippetInv

-----------------------------------------------------------------------------
(* The relay's commands: their invariant.                                  *)

\* What lies in a box can be read by the box's device and was sent by the one it is
\* filed under.
Sealed ==
  \A r, s \in Device : slot[r][s] # Absent =>
    slot[r][s].secret = {r, s} /\ <<s, r, slot[r][s].clip>> \in sent

Typed(j) ==
  j \in Job /\ (j.step # "done" => j.machine \in Machine /\ j.key \in Device /\ j.token \in Device)

\* What the command j knows, given the peers p and the uploads u.
Sound(j, p, u) ==
  /\ j.step = "list peers" => j.clip \in Clip /\ j.added \subseteq p[j.token] \cap j.named
  /\ j.step = "list devices" => j.clip \in Clip /\ j.added = {}
  /\ j.step = "upload" => j.clip \in Clip
  /\ j.step = "upload" /\ j.cmd = "send" =>
       /\ j.device \in Device \cap j.named
       /\ j.added # {} => j.device \in p[j.token]
  /\ j.step = "sent" =>
       /\ j.device \in j.named
       /\ j.added # {} => j.device \in p[j.token]
       /\ <<j.token, j.device, j.clip>> \in u
  /\ j.step = "fetch" => j.device \in Device \cap j.named
  /\ j.step = "find key" =>
       /\ j.device \in Device \cap j.named
       /\ j.mail \in Mail
       /\ j.mail.secret = {j.token, j.device}
       /\ <<j.device, j.token, j.mail.clip>> \in u
  /\ j.step = "no decryption" => j.key # j.token
  /\ j.step = "written" =>
       /\ j.device \in j.named
       /\ <<j.device, j.token, j.mail.clip>> \in u
       /\ j.ext = "png" <=> j.mail.clip.format = "png"

RelayInv ==
  /\ RelayTypeOK
  /\ Sealed
  /\ \A a \in Agent : Sound(agent[a], peers, sent)

-----------------------------------------------------------------------------
\* What a command knows stays true as peers are added and clips are uploaded.
LEMMA SoundGrows ==
  ASSUME NEW j, Typed(j), NEW p, NEW q, NEW u, NEW v,
         \A d \in Device : p[d] \subseteq q[d], u \subseteq v, Sound(j, p, u)
  PROVE  Sound(j, q, v)
<1>1. CASE j.step = "done"
  BY <1>1 DEF Sound
<1>2. CASE j.step # "done"
  <2>1. j.token \in Device
    BY <1>2 DEF Typed
  <2>2. p[j.token] \subseteq q[j.token]
    BY <2>1
  <2> QED
    BY <2>2 DEF Sound
<1> QED
  BY <1>1, <1>2

\* NoJob is typed and knows nothing.
LEMMA NoJobSound ==
  ASSUME NEW p, NEW u
  PROVE  Typed(NoJob) /\ Sound(NoJob, p, u)
BY DEF Typed, Sound, NoJob, Job, Step

\* Where one command takes a step, the others keep what they know.
LEMMA BecomeKeeps ==
  ASSUME RelayInv, NEW a \in Agent, NEW j, Typed(j), Become(a, j),
         \A d \in Device : peers[d] \subseteq peers'[d], sent \subseteq sent',
         Sound(j, peers', sent')
  PROVE  /\ agent' \in [Agent -> Job]
         /\ \A b \in Agent : Typed(agent'[b])
         /\ \A b \in Agent : Sound(agent'[b], peers', sent')
<1>1. agent' \in [Agent -> Job]
  BY DEF RelayInv, RelayTypeOK, Become, Typed
<1>2. ASSUME NEW b \in Agent
      PROVE  Typed(agent'[b]) /\ Sound(agent'[b], peers', sent')
  <2>1. CASE b = a
    BY <2>1 DEF RelayInv, RelayTypeOK, Become
  <2>2. CASE b # a
    <3>1. agent'[b] = agent[b]
      BY <2>2 DEF RelayInv, RelayTypeOK, Become
    <3>2. Typed(agent[b]) /\ Sound(agent[b], peers, sent)
      BY DEF RelayInv, RelayTypeOK, Typed
    <3> QED
      BY <3>1, <3>2, SoundGrows
  <2> QED
    BY <2>1, <2>2
<1> QED
  BY <1>1, <1>2

\* Where no command takes a step, all do.
LEMMA AllKeep ==
  ASSUME RelayInv, UNCHANGED agent,
         \A d \in Device : peers[d] \subseteq peers'[d], sent \subseteq sent'
  PROVE  /\ agent' \in [Agent -> Job]
         /\ \A b \in Agent : Typed(agent'[b])
         /\ \A b \in Agent : Sound(agent'[b], peers', sent')
<1>1. ASSUME NEW b \in Agent
      PROVE  Typed(agent[b]) /\ Sound(agent[b], peers', sent')
  <2>1. Typed(agent[b]) /\ Sound(agent[b], peers, sent)
    BY DEF RelayInv, RelayTypeOK, Typed
  <2> QED
    BY <2>1, SoundGrows
<1> QED
  BY <1>1 DEF RelayInv, RelayTypeOK

\* The rest of the type invariant and Sealed, where the relay's boxes are left alone.
LEMMA RelayWhole ==
  ASSUME RelayInv, UNCHANGED <<slot, sent>>,
         keyFile' \in [Machine -> Device \cup {Absent}],
         tokenFile' \in [Machine -> Device \cup {Absent}],
         daemon' \in [Machine -> [key : Device, token : Device] \cup {Absent}],
         registered' \subseteq Device, peers' \in [Device -> SUBSET Device],
         commands' \in 0..MaxCommands,
         agent' \in [Agent -> Job],
         \A b \in Agent : Typed(agent'[b]),
         \A b \in Agent : Sound(agent'[b], peers', sent')
  PROVE  RelayInv'
BY DEF RelayInv, RelayTypeOK, Sealed, Typed

\* A command begins.
LEMMA BeginTyped ==
  ASSUME RelayInv, Begin
  PROVE  commands' \in 0..MaxCommands
BY RelayClientAssumption DEF RelayInv, RelayTypeOK, Begin

\* What a command that has read its files is.
LEMMA StartedTyped ==
  ASSUME RelayInv, NEW m \in Machine, HasFiles(m), NEW cmd \in Command, NEW step \in Step
  PROVE  /\ Typed(Started(m, cmd, step))
         /\ Started(m, cmd, step).step = step
         /\ Started(m, cmd, step).cmd = cmd
         /\ Started(m, cmd, step).token = tokenFile[m]
BY DEF RelayInv, RelayTypeOK, HasFiles, Started, NoJob, Typed, Job

\* Where one command takes a step and the relay's boxes and the files are left alone.
LEMMA StepKeeps ==
  ASSUME RelayInv, NEW a \in Agent, NEW j, Typed(j), Become(a, j), Sound(j, peers, sent),
         UNCHANGED <<keyFile, tokenFile, daemon, registered, peers, slot, sent>>,
         commands' \in 0..MaxCommands
  PROVE  RelayInv'
<1>1. Sound(j, peers', sent')
  <2>1. peers' = peers /\ sent' = sent
    OBVIOUS
  <2> QED
    BY <2>1
<1>2. /\ agent' \in [Agent -> Job]
      /\ \A b \in Agent : Typed(agent'[b])
      /\ \A b \in Agent : Sound(agent'[b], peers', sent')
  BY <1>1, BecomeKeeps
<1> QED
  BY <1>2, RelayWhole DEF RelayInv, RelayTypeOK

-----------------------------------------------------------------------------
(* The actions of the files and of the relay. *)

LEMMA FileActions ==
  ASSUME RelayInv, NEW m \in Machine, NEW d \in Device,
         GenerateKey(m, d) \/ AddPeer(m, d)
  PROVE  RelayInv'
<1>1. CASE GenerateKey(m, d)
  <2>1. commands' \in 0..MaxCommands
    BY <1>1, BeginTyped DEF GenerateKey
  <2>2. keyFile' \in [Machine -> Device \cup {Absent}]
    BY <1>1 DEF GenerateKey, RelayInv, RelayTypeOK
  <2>3. UNCHANGED <<tokenFile, daemon, registered, peers, slot, agent, sent>>
    BY <1>1 DEF GenerateKey
  <2> QED
    BY <2>1, <2>2, <2>3, AllKeep, RelayWhole DEF RelayInv, RelayTypeOK
<1>2. CASE AddPeer(m, d)
  <2>1. commands' \in 0..MaxCommands
    BY <1>2, BeginTyped DEF AddPeer
  <2>2. /\ peers' \in [Device -> SUBSET Device]
        /\ \A e \in Device : peers[e] \subseteq peers'[e]
    BY <1>2 DEF AddPeer, RelayInv, RelayTypeOK
  <2>3. UNCHANGED <<keyFile, tokenFile, daemon, registered, slot, agent, sent>>
    BY <1>2 DEF AddPeer
  <2> QED
    BY <2>1, <2>2, <2>3, AllKeep, RelayWhole DEF RelayInv, RelayTypeOK
<1> QED
  BY <1>1, <1>2

LEMMA StartDaemonKeeps ==
  ASSUME RelayInv, NEW m \in Machine, StartDaemon(m)
  PROVE  RelayInv'
<1>1. daemon' \in [Machine -> [key : Device, token : Device] \cup {Absent}]
  BY DEF StartDaemon, HasFiles, RelayInv, RelayTypeOK
<1>2. UNCHANGED <<keyFile, tokenFile, registered, peers, slot, agent, commands, sent>>
  BY DEF StartDaemon
<1> QED
  BY <1>1, <1>2, AllKeep, RelayWhole DEF RelayInv, RelayTypeOK


LEMMA DropKeeps ==
  ASSUME RelayInv, NEW r \in Device, NEW s \in Device, Drop(r, s)
  PROVE  RelayInv'
<1>1. UNCHANGED <<keyFile, tokenFile, daemon, registered, peers, agent, commands, sent>>
  BY DEF Drop
<1>2. slot' \in [Device -> [Device -> Mail \cup {Absent}]]
  BY DEF Drop, RelayInv, RelayTypeOK
<1>3. \A p, q \in Device : slot'[p][q] # Absent => slot'[p][q] = slot[p][q]
  BY DEF Drop, RelayInv, RelayTypeOK
<1>4. Sealed'
  <2> SUFFICES ASSUME NEW p \in Device, NEW q \in Device, slot'[p][q] # Absent
               PROVE  slot'[p][q].secret = {p, q} /\ <<q, p, slot'[p][q].clip>> \in sent'
    BY DEF Sealed
  <2>1. slot'[p][q] = slot[p][q]
    BY <1>3
  <2>2. slot[p][q].secret = {p, q} /\ <<q, p, slot[p][q].clip>> \in sent
    BY <2>1 DEF RelayInv, Sealed
  <2> QED
    BY <1>1, <2>1, <2>2
<1>5. RelayTypeOK'
  BY <1>1, <1>2 DEF RelayInv, RelayTypeOK
<1>6. \A a \in Agent : Sound(agent'[a], peers', sent')
  BY <1>1 DEF RelayInv
<1> QED
  BY <1>4, <1>5, <1>6 DEF RelayInv

-----------------------------------------------------------------------------
(* Pairing. *)

LEMMA StartPairKeeps ==
  ASSUME RelayInv, NEW a \in Agent, NEW m \in Machine, StartPair(a, m)
  PROVE  RelayInv'
<1> DEFINE j == [Started(m, "pair", "register") EXCEPT !.token = keyFile[m]]
<1>1. commands' \in 0..MaxCommands
  BY BeginTyped DEF StartPair
<1>2. Typed(j) /\ j.step = "register"
  BY DEF StartPair, Started, NoJob, Typed, Job, Step, Command, RelayInv, RelayTypeOK
<1>3. Sound(j, peers, sent)
  BY <1>2 DEF Sound
<1>4. /\ Become(a, j)
      /\ UNCHANGED <<keyFile, tokenFile, daemon, registered, peers, slot, sent>>
  BY DEF StartPair
<1> HIDE DEF j
<1> QED
  BY <1>1, <1>2, <1>3, <1>4, StepKeeps

LEMMA PairKeeps ==
  ASSUME RelayInv, NEW a \in Agent, Register(a) \/ SaveToken(a)
  PROVE  RelayInv'
<1>1. CASE Register(a)
  <2> DEFINE j == [agent[a] EXCEPT !.step = "save token"]
  <2>0. Typed(agent[a]) /\ agent[a].step = "register"
    BY <1>1 DEF Register, RelayInv, RelayTypeOK, Typed
  <2>1. Typed(j) /\ j.step = "save token"
    BY <2>0, ZenonT(40) DEF Typed, Job, Step
  <2>2. Sound(j, peers, sent)
    BY <2>1 DEF Sound
  <2>3. /\ Become(a, j)
        /\ UNCHANGED <<keyFile, tokenFile, daemon, peers, slot, commands, sent>>
    BY <1>1 DEF Register
  <2>4. registered' \subseteq Device
    BY <1>1 DEF Register, RelayInv, RelayTypeOK
  <2> HIDE DEF j
  <2>5. Sound(j, peers', sent')
    BY <2>2, <2>3
  <2>6. /\ agent' \in [Agent -> Job]
        /\ \A b \in Agent : Typed(agent'[b])
        /\ \A b \in Agent : Sound(agent'[b], peers', sent')
    BY <2>1, <2>3, <2>5, BecomeKeeps
  <2> QED
    BY <2>3, <2>4, <2>6, RelayWhole DEF RelayInv, RelayTypeOK
<1>2. CASE SaveToken(a)
  <2>1. /\ Become(a, NoJob)
        /\ UNCHANGED <<keyFile, daemon, registered, peers, slot, commands, sent>>
    BY <1>2 DEF SaveToken, Finish
  <2>2. tokenFile' \in [Machine -> Device \cup {Absent}]
    BY <1>2 DEF SaveToken, RelayInv, RelayTypeOK
  <2>3. /\ agent' \in [Agent -> Job]
        /\ \A b \in Agent : Typed(agent'[b])
        /\ \A b \in Agent : Sound(agent'[b], peers', sent')
    BY <2>1, NoJobSound, BecomeKeeps
  <2> QED
    BY <2>1, <2>2, <2>3, RelayWhole DEF RelayInv, RelayTypeOK
<1> QED
  BY <1>1, <1>2

LEMMA FinishKeeps ==
  ASSUME RelayInv, NEW a \in Agent, Finish(a),
         UNCHANGED <<keyFile, tokenFile, daemon, registered, peers, slot, commands, sent>>
  PROVE  RelayInv'
BY NoJobSound, StepKeeps DEF Finish, RelayInv, RelayTypeOK

-----------------------------------------------------------------------------
(* Sending. *)

LEMMA StartSendKeeps ==
  ASSUME RelayInv, NEW a \in Agent, NEW m \in Machine, NEW named \in Argument, NEW clip \in Clip,
         StartSend(a, m, named, clip)
  PROVE  RelayInv'
<1> DEFINE j == [Started(m, "send", "list peers") EXCEPT
                    !.named = named, !.clip = clip, !.added = peers[tokenFile[m]] \cap named]
<1>1. commands' \in 0..MaxCommands
  BY BeginTyped DEF StartSend
<1>2. named \subseteq Device /\ tokenFile[m] \in Device
  BY RelayClientAssumption DEF StartSend, HasFiles, RelayInv, RelayTypeOK
<1>3. /\ Typed(j) /\ j.step = "list peers" /\ j.clip = clip
      /\ j.added = peers[j.token] \cap j.named
  BY <1>2, ZenonT(40) DEF StartSend, HasFiles, Started, NoJob, Typed, Job, Step, Command, RelayInv, RelayTypeOK
<1>4. Sound(j, peers, sent)
  BY <1>3 DEF Sound
<1>5. /\ Become(a, j)
      /\ UNCHANGED <<keyFile, tokenFile, daemon, registered, peers, slot, sent>>
  BY DEF StartSend
<1> HIDE DEF j
<1> QED
  BY <1>1, <1>3, <1>4, <1>5, StepKeeps

LEMMA ListPeersKeeps ==
  ASSUME RelayInv, NEW a \in Agent, ListPeers(a)
  PROVE  RelayInv'
<1>0. /\ agent[a].step = "list peers"
      /\ Typed(agent[a]) /\ Sound(agent[a], peers, sent)
      /\ UNCHANGED <<keyFile, tokenFile, daemon, registered, peers, slot, commands, sent>>
      /\ commands \in 0..MaxCommands
  BY DEF ListPeers, RelayInv, RelayTypeOK, Typed
<1>1. CASE Become(a, [agent[a] EXCEPT !.step = "list devices", !.added = {}])
  <2> DEFINE j == [agent[a] EXCEPT !.step = "list devices", !.added = {}]
  <2>1. Typed(j) /\ j.step = "list devices" /\ j.clip = agent[a].clip /\ j.added = {}
    BY <1>0, ZenonT(40) DEF Typed, Job, Step
  <2>2. Sound(j, peers, sent)
    BY <1>0, <2>1 DEF Sound
  <2> HIDE DEF j
  <2> QED
    BY <1>0, <1>1, <2>1, <2>2, StepKeeps DEF j
<1>2. ASSUME NEW d \in PeerMatch(a),
             Become(a, [agent[a] EXCEPT !.step = "upload", !.device = d])
      PROVE  RelayInv'
  <2> DEFINE j == [agent[a] EXCEPT !.step = "upload", !.device = d]
  <2>0. d \in Device /\ d \in peers[agent[a].token] /\ d \in agent[a].named
    BY <1>0 DEF PeerMatch, Typed, Job
  <2>1. /\ Typed(j) /\ j.step = "upload" /\ j.clip = agent[a].clip /\ j.device = d
        /\ j.token = agent[a].token /\ j.named = agent[a].named
    BY <1>0, <2>0, ZenonT(40) DEF Typed, Job, Step
  <2>2. Sound(j, peers, sent)
    BY <1>0, <2>0, <2>1 DEF Sound
  <2> HIDE DEF j
  <2> QED
    BY <1>0, <1>2, <2>1, <2>2, StepKeeps DEF j
<1> QED
  BY <1>1, <1>2 DEF ListPeers

LEMMA ListDevicesKeeps ==
  ASSUME RelayInv, NEW a \in Agent, ListDevices(a)
  PROVE  RelayInv'
<1>0. /\ agent[a].step = "list devices"
      /\ Typed(agent[a]) /\ Sound(agent[a], peers, sent)
      /\ UNCHANGED <<keyFile, tokenFile, daemon, registered, peers, slot, commands, sent>>
      /\ commands \in 0..MaxCommands
  BY DEF ListDevices, RelayInv, RelayTypeOK, Typed
<1>1. CASE Finish(a)
  BY <1>0, <1>1, FinishKeeps
<1>2. ASSUME NEW d \in DeviceMatch(a),
             Become(a, [agent[a] EXCEPT !.step = "upload", !.device = d])
      PROVE  RelayInv'
  <2> DEFINE j == [agent[a] EXCEPT !.step = "upload", !.device = d]
  <2>0. d \in Device /\ d \in agent[a].named
    BY <1>0 DEF DeviceMatch, Typed, Job
  <2>1. /\ Typed(j) /\ j.step = "upload" /\ j.clip = agent[a].clip /\ j.device = d
        /\ j.added = agent[a].added /\ j.named = agent[a].named
    BY <1>0, <2>0, ZenonT(40) DEF Typed, Job, Step
  <2>2. Sound(j, peers, sent)
    BY <1>0, <2>0, <2>1 DEF Sound
  <2> HIDE DEF j
  <2> QED
    BY <1>0, <1>2, <2>1, <2>2, StepKeeps DEF j
<1> QED
  BY <1>1, <1>2 DEF ListDevices

\* Upload: a mail that its receiver can read, filed under the device that sent it.
LEMMA UploadKeeps ==
  ASSUME RelayInv, NEW a \in Agent, NEW d \in Device, Upload(a, d),
         agent[a].step = "upload"
  PROVE  /\ slot' \in [Device -> [Device -> Mail \cup {Absent}]]
         /\ sent' \subseteq Device \X Device \X Clip
         /\ sent \subseteq sent'
         /\ Sealed'
         /\ agent[a].key = agent[a].token => <<agent[a].token, d, agent[a].clip>> \in sent'
<1> DEFINE t == agent[a].token
           mail == [secret |-> {agent[a].key, d}, clip |-> agent[a].clip]
<1>1. t \in Device /\ agent[a].key \in Device /\ agent[a].clip \in Clip
  BY DEF RelayInv, RelayTypeOK, Sound
<1>2. mail \in Mail
  BY <1>1 DEF Mail
<1>3. CASE agent[a].key = t
  <2>1. /\ slot' = [slot EXCEPT ![d][t] = mail]
        /\ sent' = sent \cup {<<t, d, agent[a].clip>>}
    BY <1>3 DEF Upload
  <2>2. mail.secret = {d, t} /\ mail.clip = agent[a].clip
    BY <1>3
  <2> HIDE DEF mail, t
  <2>3. slot' \in [Device -> [Device -> Mail \cup {Absent}]]
    BY <1>1, <1>2, <2>1 DEF RelayInv, RelayTypeOK
  <2>4. ASSUME NEW r \in Device, NEW s \in Device, slot'[r][s] # Absent
        PROVE  slot'[r][s].secret = {r, s} /\ <<s, r, slot'[r][s].clip>> \in sent'
    <3>1. CASE r = d /\ s = t
      BY <1>1, <2>1, <2>2, <3>1 DEF RelayInv, RelayTypeOK
    <3>2. CASE ~(r = d /\ s = t)
      <4>1. slot'[r][s] = slot[r][s]
        BY <1>1, <2>1, <3>2 DEF RelayInv, RelayTypeOK
      <4> QED
        BY <2>1, <2>4, <4>1 DEF RelayInv, Sealed
    <3> QED
      BY <3>1, <3>2
  <2>5. Sealed'
    BY <2>4 DEF Sealed
  <2> QED
    BY <1>1, <2>1, <2>3, <2>5 DEF RelayInv, RelayTypeOK, t
<1>4. CASE agent[a].key # t
  BY <1>4 DEF Upload, RelayInv, RelayTypeOK, Sealed
<1> QED
  BY <1>3, <1>4

\* Where one command uploads.
LEMMA UploadStepKeeps ==
  ASSUME RelayInv, NEW a \in Agent, NEW j, Typed(j), Become(a, j), Sound(j, peers, sent'),
         UNCHANGED <<keyFile, tokenFile, daemon, registered, peers, commands>>,
         slot' \in [Device -> [Device -> Mail \cup {Absent}]],
         sent' \subseteq Device \X Device \X Clip,
         sent \subseteq sent',
         Sealed'
  PROVE  RelayInv'
<1>1. Sound(j, peers', sent')
  OBVIOUS
<1>2. /\ agent' \in [Agent -> Job]
      /\ \A b \in Agent : Typed(agent'[b])
      /\ \A b \in Agent : Sound(agent'[b], peers', sent')
  BY <1>1, BecomeKeeps
<1> QED
  BY <1>2 DEF RelayInv, RelayTypeOK, Typed

LEMMA SendKeeps ==
  ASSUME RelayInv, NEW a \in Agent, Send(a)
  PROVE  RelayInv'
<1>0. /\ agent[a].step = "upload" /\ agent[a].cmd = "send"
      /\ Typed(agent[a]) /\ Sound(agent[a], peers, sent)
      /\ UNCHANGED <<keyFile, tokenFile, daemon, registered, peers, commands>>
      /\ Upload(a, agent[a].device)
  BY DEF Send, RelayInv, RelayTypeOK, Typed
<1>1. agent[a].device \in Device
  BY <1>0 DEF Sound
<1>2. /\ slot' \in [Device -> [Device -> Mail \cup {Absent}]]
      /\ sent' \subseteq Device \X Device \X Clip
      /\ sent \subseteq sent'
      /\ Sealed'
      /\ agent[a].key = agent[a].token
           => <<agent[a].token, agent[a].device, agent[a].clip>> \in sent'
  BY <1>0, <1>1, UploadKeeps
<1>3. CASE agent[a].key = agent[a].token /\ Become(a, [agent[a] EXCEPT !.step = "sent"])
  <2> DEFINE j == [agent[a] EXCEPT !.step = "sent"]
  <2>1. Become(a, j)
    BY <1>3
  <2>2. /\ Typed(j) /\ j.step = "sent" /\ j.device = agent[a].device
        /\ j.named = agent[a].named /\ j.added = agent[a].added
        /\ j.token = agent[a].token /\ j.clip = agent[a].clip
    BY <1>0, ZenonT(40) DEF Typed, Job, Step
  <2>3. Sound(j, peers, sent')
    BY <1>0, <1>2, <1>3, <2>2 DEF Sound
  <2> HIDE DEF j
  <2> QED
    BY <1>0, <1>2, <2>1, <2>2, <2>3, UploadStepKeeps
<1>4. CASE Finish(a)
  <2>1. Become(a, NoJob)
    BY <1>4 DEF Finish
  <2> QED
    BY <1>0, <1>2, <2>1, NoJobSound, UploadStepKeeps
<1> QED
  BY <1>3, <1>4 DEF Send

LEMMA StartPushKeeps ==
  ASSUME RelayInv, NEW a \in Agent, NEW m \in Machine, NEW clip \in Clip, StartPush(a, m, clip)
  PROVE  RelayInv'
<1> DEFINE j == [NoJob EXCEPT !.step = "upload", !.cmd = "push", !.machine = m,
                              !.key = daemon[m].key, !.token = daemon[m].token,
                              !.clip = clip, !.todo = peers[daemon[m].token]]
<1>1. commands' \in 0..MaxCommands
  BY BeginTyped DEF StartPush
<1>2. daemon[m].key \in Device /\ daemon[m].token \in Device
      /\ peers[daemon[m].token] \subseteq Device
  BY DEF StartPush, RelayInv, RelayTypeOK
<1>3. Typed(j) /\ j.step = "upload" /\ j.cmd = "push" /\ j.clip = clip
  BY <1>2, ZenonT(40) DEF NoJob, Typed, Job, Step, Command
<1>4. Sound(j, peers, sent)
  BY <1>3 DEF Sound
<1>5. /\ Become(a, j)
      /\ UNCHANGED <<keyFile, tokenFile, daemon, registered, peers, slot, sent>>
  BY DEF StartPush
<1> HIDE DEF j
<1> QED
  BY <1>1, <1>3, <1>4, <1>5, StepKeeps

LEMMA PushKeeps ==
  ASSUME RelayInv, NEW a \in Agent, NEW d \in Device, Push(a, d)
  PROVE  RelayInv'
<1>0. /\ agent[a].step = "upload" /\ agent[a].cmd = "push"
      /\ Typed(agent[a]) /\ Sound(agent[a], peers, sent)
      /\ UNCHANGED <<keyFile, tokenFile, daemon, registered, peers, commands>>
  BY DEF Push, RelayInv, RelayTypeOK, Typed
<1>1. /\ slot' \in [Device -> [Device -> Mail \cup {Absent}]]
      /\ sent' \subseteq Device \X Device \X Clip
      /\ sent \subseteq sent'
      /\ Sealed'
  <2>1. CASE Upload(a, d)
    BY <1>0, <2>1, UploadKeeps
  <2>2. CASE UNCHANGED <<slot, sent>>
    BY <2>2 DEF RelayInv, RelayTypeOK, Sealed
  <2> QED
    BY <2>1, <2>2 DEF Push
<1>2. CASE agent[a].todo = {d}
  <2>1. Become(a, NoJob)
    BY <1>2 DEF Push, Finish
  <2> QED
    BY <1>0, <1>1, <2>1, NoJobSound, UploadStepKeeps
<1>3. CASE agent[a].todo # {d}
  <2> DEFINE j == [agent[a] EXCEPT !.todo = @ \ {d}]
  <2>1. Become(a, j)
    BY <1>3 DEF Push
  <2>2. Typed(j) /\ j.step = "upload" /\ j.cmd = "push" /\ j.clip = agent[a].clip
    BY <1>0 DEF Typed, Job
  <2>3. Sound(j, peers, sent')
    BY <1>0, <2>2 DEF Sound
  <2> HIDE DEF j
  <2> QED
    BY <1>0, <1>1, <2>1, <2>2, <2>3, UploadStepKeeps
<1> QED
  BY <1>2, <1>3

-----------------------------------------------------------------------------
(* Fetching. *)

LEMMA StartFetchNewestKeeps ==
  ASSUME RelayInv, NEW a \in Agent, NEW m \in Machine, StartFetchNewest(a, m)
  PROVE  RelayInv'
<1> DEFINE j == Started(m, "fetch newest", "list inbox")
<1>1. commands' \in 0..MaxCommands
  BY BeginTyped DEF StartFetchNewest
<1>2. Typed(j) /\ j.step = "list inbox"
  BY DEF StartFetchNewest, HasFiles, Started, NoJob, Typed, Job, Step, Command, RelayInv, RelayTypeOK
<1>3. Sound(j, peers, sent)
  BY <1>2 DEF Sound
<1>4. /\ Become(a, j)
      /\ UNCHANGED <<keyFile, tokenFile, daemon, registered, peers, slot, sent>>
  BY DEF StartFetchNewest
<1> HIDE DEF j
<1> QED
  BY <1>1, <1>2, <1>3, <1>4, StepKeeps

LEMMA StartFetchKeeps ==
  ASSUME RelayInv, NEW a \in Agent, NEW m \in Machine, NEW named \in Argument,
         StartFetch(a, m, named)
  PROVE  RelayInv'
<1> DEFINE j == [Started(m, "fetch", "fetch literal") EXCEPT !.named = named]
<1>1. commands' \in 0..MaxCommands
  BY BeginTyped DEF StartFetch
<1>2. named \subseteq Device
  BY RelayClientAssumption
<1>3. Typed(j) /\ j.step = "fetch literal"
  BY <1>2, ZenonT(40) DEF StartFetch, HasFiles, Started, NoJob, Typed, Job, Step, Command, RelayInv, RelayTypeOK
<1>4. Sound(j, peers, sent)
  BY <1>3 DEF Sound
<1>5. /\ Become(a, j)
      /\ UNCHANGED <<keyFile, tokenFile, daemon, registered, peers, slot, sent>>
  BY DEF StartFetch
<1> HIDE DEF j
<1> QED
  BY <1>1, <1>3, <1>4, <1>5, StepKeeps

LEMMA ListInboxKeeps ==
  ASSUME RelayInv, NEW a \in Agent, ListInbox(a)
  PROVE  RelayInv'
<1>0. /\ agent[a].step = "list inbox"
      /\ Typed(agent[a])
      /\ UNCHANGED <<keyFile, tokenFile, daemon, registered, peers, slot, commands, sent>>
      /\ commands \in 0..MaxCommands
  BY DEF ListInbox, RelayInv, RelayTypeOK, Typed
<1>1. CASE Finish(a)
  BY <1>0, <1>1, FinishKeeps
<1>2. ASSUME NEW s \in Pending(agent[a].token),
             Become(a, [agent[a] EXCEPT !.step = "fetch", !.named = {s}, !.device = s,
                                        !.listed = slot[agent[a].token][s].clip.format])
      PROVE  RelayInv'
  <2> DEFINE f == slot[agent[a].token][s].clip.format
             j == [agent[a] EXCEPT !.step = "fetch", !.named = {s}, !.device = s, !.listed = f]
  <2>0. s \in Device /\ agent[a].token \in Device /\ slot[agent[a].token][s] # Absent
    BY <1>0 DEF Pending, Typed
  <2>1. slot[agent[a].token][s].clip \in Clip
    BY <2>0 DEF RelayInv, RelayTypeOK, Mail
  <2>2. f \in Formats
    BY <2>1 DEF Formats
  <2> HIDE DEF f
  <2>3. Typed(j) /\ j.step = "fetch" /\ j.device = s /\ j.named = {s}
    BY <1>0, <2>0, <2>2, ZenonT(40) DEF Typed, Job, Step
  <2>4. Sound(j, peers, sent)
    BY <2>0, <2>3 DEF Sound
  <2>5. Become(a, j)
    BY <1>2 DEF f
  <2> HIDE DEF j
  <2> QED
    BY <1>0, <2>3, <2>4, <2>5, StepKeeps
<1> QED
  BY <1>1, <1>2 DEF ListInbox

\* A command that has fetched what lies in its box.
LEMMA FetchedSound ==
  ASSUME RelayInv, NEW a \in Agent, Typed(agent[a]), agent[a].step # "done",
         NEW s \in Pending(agent[a].token), s \in agent[a].named
  PROVE  Typed(Fetched(a, s)) /\ Sound(Fetched(a, s), peers, sent)
<1> DEFINE j == Fetched(a, s)
<1>1. s \in Device /\ agent[a].token \in Device /\ slot[agent[a].token][s] # Absent
  BY DEF Pending, Typed
<1>2. slot[agent[a].token][s] \in Mail
  BY <1>1 DEF RelayInv, RelayTypeOK
<1>3. /\ Typed(j) /\ j.step = "find key" /\ j.device = s /\ j.named = agent[a].named
      /\ j.mail = slot[agent[a].token][s] /\ j.token = agent[a].token
  BY <1>1, <1>2, ZenonT(40) DEF Fetched, Typed, Job, Step
<1>4. /\ slot[agent[a].token][s].secret = {agent[a].token, s}
      /\ <<s, agent[a].token, slot[agent[a].token][s].clip>> \in sent
  BY <1>1 DEF RelayInv, Sealed
<1> QED
  BY <1>1, <1>2, <1>3, <1>4 DEF Sound

LEMMA FetchLiteralKeeps ==
  ASSUME RelayInv, NEW a \in Agent, FetchLiteral(a)
  PROVE  RelayInv'
<1>0. /\ agent[a].step = "fetch literal"
      /\ Typed(agent[a])
      /\ UNCHANGED <<keyFile, tokenFile, daemon, registered, peers, slot, commands, sent>>
      /\ commands \in 0..MaxCommands
  BY DEF FetchLiteral, RelayInv, RelayTypeOK, Typed
<1>1. CASE Become(a, [agent[a] EXCEPT !.step = "resolve"])
  <2> DEFINE j == [agent[a] EXCEPT !.step = "resolve"]
  <2>1. Typed(j) /\ j.step = "resolve"
    BY <1>0, ZenonT(40) DEF Typed, Job, Step
  <2>2. Sound(j, peers, sent)
    BY <2>1 DEF Sound
  <2> HIDE DEF j
  <2> QED
    BY <1>0, <1>1, <2>1, <2>2, StepKeeps DEF j
<1>2. ASSUME NEW s \in Pending(agent[a].token), agent[a].named = {s}, Become(a, Fetched(a, s))
      PROVE  RelayInv'
  <2>1. Typed(Fetched(a, s)) /\ Sound(Fetched(a, s), peers, sent)
    BY <1>0, <1>2, FetchedSound
  <2> QED
    BY <1>0, <1>2, <2>1, StepKeeps
<1> QED
  BY <1>1, <1>2 DEF FetchLiteral

LEMMA ResolveKeeps ==
  ASSUME RelayInv, NEW a \in Agent, Resolve(a)
  PROVE  RelayInv'
<1>0. /\ agent[a].step = "resolve"
      /\ Typed(agent[a])
      /\ UNCHANGED <<keyFile, tokenFile, daemon, registered, peers, slot, commands, sent>>
      /\ commands \in 0..MaxCommands
  BY DEF Resolve, RelayInv, RelayTypeOK, Typed
<1>1. CASE Finish(a)
  BY <1>0, <1>1, FinishKeeps
<1>2. ASSUME NEW s \in agent[a].named,
             Become(a, [agent[a] EXCEPT !.step = "fetch", !.device = s])
      PROVE  RelayInv'
  <2> DEFINE j == [agent[a] EXCEPT !.step = "fetch", !.device = s]
  <2>0. s \in Device /\ s \in agent[a].named
    BY <1>0 DEF Typed, Job
  <2>1. Typed(j) /\ j.step = "fetch" /\ j.device = s /\ j.named = agent[a].named
    BY <1>0, <2>0, ZenonT(40) DEF Typed, Job, Step
  <2>2. Sound(j, peers, sent)
    BY <2>0, <2>1 DEF Sound
  <2> HIDE DEF j
  <2> QED
    BY <1>0, <1>2, <2>1, <2>2, StepKeeps DEF j
<1> QED
  BY <1>1, <1>2 DEF Resolve

LEMMA FetchFromInboxKeeps ==
  ASSUME RelayInv, NEW a \in Agent, FetchFromInbox(a)
  PROVE  RelayInv'
<1> DEFINE s == agent[a].device
<1>0. /\ agent[a].step = "fetch"
      /\ Typed(agent[a]) /\ s \in agent[a].named
      /\ UNCHANGED <<keyFile, tokenFile, daemon, registered, peers, slot, commands, sent>>
      /\ commands \in 0..MaxCommands
  BY DEF FetchFromInbox, RelayInv, RelayTypeOK, Typed, Sound
<1>1. CASE s \in Pending(agent[a].token)
  <2>1. Typed(Fetched(a, s)) /\ Sound(Fetched(a, s), peers, sent)
    BY <1>0, <1>1, FetchedSound
  <2>2. Become(a, Fetched(a, s))
    BY <1>1 DEF FetchFromInbox
  <2> QED
    BY <1>0, <2>1, <2>2, StepKeeps
<1>2. CASE s \notin Pending(agent[a].token)
  BY <1>0, <1>2, FinishKeeps DEF FetchFromInbox
<1> QED
  BY <1>1, <1>2

\* The extension is png for an image and for nothing else, however the fetch is named.
LEMMA FileFormatSound ==
  ASSUME NEW a \in Agent, agent[a].mail \in Mail
  PROVE  /\ FileFormat(a) \in Formats \cup {"bin", Absent}
         /\ FileFormat(a) = "png" <=> agent[a].mail.clip.format = "png"
<1>1. agent[a].mail.clip \in Clip
  BY DEF Mail
<1>2. agent[a].mail.clip.format \in Formats
  BY <1>1 DEF Formats
<1> QED
  BY <1>2 DEF FileFormat

LEMMA DecryptKeeps ==
  ASSUME RelayInv, NEW a \in Agent, Decrypt(a)
  PROVE  RelayInv'
<1>0. /\ agent[a].step = "find key"
      /\ Typed(agent[a]) /\ Sound(agent[a], peers, sent)
      /\ UNCHANGED <<keyFile, tokenFile, daemon, registered, peers, slot, commands, sent>>
      /\ commands \in 0..MaxCommands
  BY DEF Decrypt, RelayInv, RelayTypeOK, Typed
<1>1. CASE Finish(a)
  BY <1>0, <1>1, FinishKeeps
<1>2. ASSUME NEW key \in SenderKey(a), agent[a].mail.secret = {agent[a].key, key},
             Become(a, [agent[a] EXCEPT !.step = "written", !.ext = FileFormat(a)])
      PROVE  RelayInv'
  <2> DEFINE e == FileFormat(a)
             j == [agent[a] EXCEPT !.step = "written", !.ext = e]
  <2>1. /\ e \in Formats \cup {"bin", Absent}
        /\ e = "png" <=> agent[a].mail.clip.format = "png"
    BY <1>0, FileFormatSound DEF Sound
  <2> HIDE DEF e
  <2>a. /\ agent[a] \in Job /\ agent[a].machine \in Machine
        /\ agent[a].key \in Device /\ agent[a].token \in Device
    BY <1>0 DEF Typed
  <2>b. /\ j.step = "written" /\ j.machine = agent[a].machine
        /\ j.key = agent[a].key /\ j.device = agent[a].device
        /\ j.named = agent[a].named /\ j.token = agent[a].token
        /\ j.mail = agent[a].mail /\ j.ext = e
    BY <2>a DEF Job
  <2>c. j \in Job
    BY <2>1, <2>a, ZenonT(40) DEF Job, Step
  <2>2. /\ Typed(j) /\ j.step = "written" /\ j.device = agent[a].device
        /\ j.named = agent[a].named /\ j.token = agent[a].token
        /\ j.mail = agent[a].mail /\ j.ext = e
    BY <2>a, <2>b, <2>c DEF Typed
  <2>3. Sound(j, peers, sent)
    BY <1>0, <2>1, <2>2 DEF Sound
  <2>4. Become(a, j)
    BY <1>2 DEF e
  <2> HIDE DEF j
  <2> QED
    BY <1>0, <2>2, <2>3, <2>4, StepKeeps
<1>3. ASSUME NEW key \in SenderKey(a), agent[a].mail.secret # {agent[a].key, key},
             Become(a, [agent[a] EXCEPT !.step = "no decryption"])
      PROVE  RelayInv'
  <2> DEFINE j == [agent[a] EXCEPT !.step = "no decryption"]
  <2>1. key = agent[a].device
    BY DEF SenderKey
  <2>2. agent[a].key # agent[a].token
    BY <1>0, <1>3, <2>1 DEF Sound
  <2>3. /\ Typed(j) /\ j.step = "no decryption"
        /\ j.key = agent[a].key /\ j.token = agent[a].token
    BY <1>0, ZenonT(40) DEF Typed, Job, Step
  <2>4. Sound(j, peers, sent)
    BY <2>2, <2>3 DEF Sound
  <2> HIDE DEF j
  <2> QED
    BY <1>0, <1>3, <2>3, <2>4, StepKeeps DEF j
<1> QED
  BY <1>1, <1>2, <1>3 DEF Decrypt

-----------------------------------------------------------------------------
(* The invariant. *)

LEMMA RelayInvInit == RelayInit => RelayInv
<1> SUFFICES ASSUME RelayInit
             PROVE  RelayInv
  OBVIOUS
<1>1. \A m \in Machine : keyFile[m] # Absent => keyFile[m] \in Device
  BY DEF RelayInit
<1>2. /\ keyFile \in [Machine -> Device \cup {Absent}]
      /\ tokenFile \in [Machine -> Device \cup {Absent}]
  BY DEF RelayInit
<1>3. daemon \in [Machine -> [key : Device, token : Device] \cup {Absent}]
  BY <1>1 DEF RelayInit
<1>4. registered \subseteq Device
  BY <1>1 DEF RelayInit
<1>5. peers \in [Device -> SUBSET Device]
  BY <1>4 DEF RelayInit
<1>6. slot \in [Device -> [Device -> Mail \cup {Absent}]] /\ Sealed
  BY DEF RelayInit, Sealed
<1>7. /\ agent \in [Agent -> Job]
      /\ \A a \in Agent : agent[a].step = "done"
  BY NoJobSound DEF RelayInit, NoJob, Typed
<1>8. commands \in 0..MaxCommands /\ sent \subseteq Device \X Device \X Clip
  BY RelayClientAssumption DEF RelayInit
<1>9. \A a \in Agent : Sound(agent[a], peers, sent)
  BY NoJobSound DEF RelayInit
<1> QED
  BY <1>2, <1>3, <1>4, <1>5, <1>6, <1>7, <1>8, <1>9 DEF RelayInv, RelayTypeOK

LEMMA RelayInvNext == RelayInv /\ [RelayNext]_relay => RelayInv'
<1> SUFFICES ASSUME RelayInv, [RelayNext]_relay
             PROVE  RelayInv'
  OBVIOUS
<1>1. ASSUME NEW m \in Machine, NEW d \in Device,
             GenerateKey(m, d) \/ AddPeer(m, d)
      PROVE  RelayInv'
  BY <1>1, FileActions
<1>2. ASSUME NEW m \in Machine, StartDaemon(m)
      PROVE  RelayInv'
  BY <1>2, StartDaemonKeeps
<1>3. ASSUME NEW a \in Agent, NEW m \in Machine, StartPair(a, m) \/ StartFetchNewest(a, m)
      PROVE  RelayInv'
  BY <1>3, StartPairKeeps, StartFetchNewestKeeps
<1>4. ASSUME NEW a \in Agent, NEW m \in Machine, NEW clip \in Clip, StartPush(a, m, clip)
      PROVE  RelayInv'
  BY <1>4, StartPushKeeps
<1>5. ASSUME NEW a \in Agent, NEW m \in Machine, NEW clip \in Clip, NEW named \in Argument,
             StartSend(a, m, named, clip)
      PROVE  RelayInv'
  BY <1>5, StartSendKeeps
<1>6. ASSUME NEW a \in Agent, NEW m \in Machine, NEW named \in Argument,
             StartFetch(a, m, named)
      PROVE  RelayInv'
  BY <1>6, StartFetchKeeps
<1>7. ASSUME NEW a \in Agent, Register(a) \/ SaveToken(a)
      PROVE  RelayInv'
  BY <1>7, PairKeeps
<1>8. ASSUME NEW a \in Agent, ListPeers(a) \/ ListDevices(a) \/ Send(a)
      PROVE  RelayInv'
  BY <1>8, ListPeersKeeps, ListDevicesKeeps, SendKeeps
<1>9. ASSUME NEW a \in Agent, NEW d \in Device, Push(a, d)
      PROVE  RelayInv'
  BY <1>9, PushKeeps
<1>10. ASSUME NEW a \in Agent, ListInbox(a) \/ FetchLiteral(a) \/ Resolve(a)
       PROVE  RelayInv'
  BY <1>10, ListInboxKeeps, FetchLiteralKeeps, ResolveKeeps
<1>11. ASSUME NEW a \in Agent, FetchFromInbox(a) \/ Decrypt(a)
       PROVE  RelayInv'
  BY <1>11, FetchFromInboxKeeps, DecryptKeeps
<1>12. ASSUME NEW a \in Agent, Fail(a)
       PROVE  RelayInv'
  BY <1>12, FinishKeeps DEF Fail
<1>13. ASSUME NEW r \in Device, NEW s \in Device, Drop(r, s)
       PROVE  RelayInv'
  BY <1>13, DropKeeps
<1>14. CASE UNCHANGED relay
  BY <1>14 DEF relay, RelayInv, RelayTypeOK, Sealed, Mail
<1> QED
  BY <1>1, <1>2, <1>3, <1>4, <1>5, <1>6, <1>7, <1>8, <1>9, <1>10, <1>11, <1>12, <1>13, <1>14
     DEF RelayNext

LEMMA RelayInvariance == RelaySpec => []RelayInv
BY RelayInvInit, RelayInvNext, PTL DEF RelaySpec

-----------------------------------------------------------------------------
\* Type correctness of the relay's clients, the typing of what a command at work has read
\* included.
THEOREM RelayClientTyped == RelaySpec => []RelayTypeOK
<1>1. RelayInv => RelayTypeOK
  BY DEF RelayInv
<1> QED
  BY <1>1, RelayInvariance, PTL

\* A fetch that cannot decrypt what it has got (DownloadAndDecrypt, runRelayFetch) is one
\* of a machine whose key file is no longer the one its token was given for.
THEOREM RegisteredDevicesDecrypt == RelaySpec => []FetchesDecrypt
<1>1. RelayInv => FetchesDecrypt
  BY DEF RelayInv, Sound, FetchesDecrypt
<1> QED
  BY <1>1, RelayInvariance, PTL

\* A send (runRelaySend) goes to a device its argument matches, to a peer where one
\* matches; and each mail in a box of the relay, a push's too, can be read by the box's
\* owner and its sender.
THEOREM SendsAreForTheNamed == RelaySpec => []SendsReachTheNamed
<1>1. RelayInv => SendsReachTheNamed
  BY DEF RelayInv, Sealed, Sound, SendsReachTheNamed
<1> QED
  BY <1>1, RelayInvariance, PTL

\* A fetch (runRelayFetchCLI, runRelayFetch) writes what one of the devices it named sent
\* to this one, with an image's name only if it is one.
THEOREM FetchesAreFromTheNamed == RelaySpec => []RelayFileIsFromTheNamed
<1>1. RelayInv => RelayFileIsFromTheNamed
  BY DEF RelayInv, Sound, RelayFileIsFromTheNamed
<1> QED
  BY <1>1, RelayInvariance, PTL

-----------------------------------------------------------------------------
(* The commands together.                                                  *)

CommandsInv ==
  /\ family \in {"snippets", "history", "relay"}
  /\ SnippetInv /\ HistoryInv /\ RelayInv

LEMMA CommandsInvInit == Init => CommandsInv
BY SnippetInvInit, HistoryInvInit, RelayInvInit DEF Init, CommandsInv

LEMMA CommandsInvNext == CommandsInv /\ [Next]_vars => CommandsInv'
<1> SUFFICES ASSUME CommandsInv, [Next]_vars
             PROVE  CommandsInv'
  OBVIOUS
<1>1. SnippetInv /\ HistoryInv /\ RelayInv
  BY DEF CommandsInv
<1>2. family' = family
  BY DEF Next, vars
<1>3. [SnippetNext]_snippets /\ [HistoryNext]_history /\ [RelayNext]_relay
  BY DEF Next, vars
<1>4. SnippetInv'
  BY <1>1, <1>3, SnippetInvNext
<1>5. HistoryInv'
  BY <1>1, <1>3, HistoryInvNext
<1>6. RelayInv'
  BY <1>1, <1>3, RelayInvNext
<1> QED
  BY <1>2, <1>4, <1>5, <1>6 DEF CommandsInv

LEMMA CommandsInvariance == Spec => []CommandsInv
BY CommandsInvInit, CommandsInvNext, PTL DEF Spec

\* Type correctness of the three families of commands.
THEOREM CommandsTyped == Spec => []TypeOK
<1>1. CommandsInv => TypeOK
  BY SnippetInvImplies, HistoryInvImplies DEF CommandsInv, RelayInv, TypeOK
<1> QED
  BY <1>1, CommandsInvariance, PTL

\* Store.Save (snippets.go, "Marshal and save atomically"): the version that a save which
\* no other save of the snippet overlapped has renamed is what Load returns, byte for byte,
\* and a snippet that was removed is gone, whatever saves that failed, were cut off by a
\* kill of the daemon or are at work on other snippets do, until the next save or removal.
THEOREM SavedSnippetIsKept == Spec => []LoneSaveIsKept
<1>1. CommandsInv => LoneSaveIsKept
  BY SnippetInvImplies DEF CommandsInv
<1> QED
  BY <1>1, CommandsInvariance, PTL

\* The commands that fetch to a file (runSnippetFetch; runHistoryGet, runHistoryFetch and
\* runHistoryFetchByID; runRelayFetchCLI and runRelayFetch) leave in it what their argument
\* named, whole, through requests of their own and of others that come between.
THEOREM NamedIsWritten == Spec => []FilesHoldWhatWasNamed
<1>1. RelayInv => RelayFileIsFromTheNamed
  BY DEF RelayInv, Sound, RelayFileIsFromTheNamed
<1>2. CommandsInv => FilesHoldWhatWasNamed
  BY <1>1, SnippetInvImplies, HistoryInvImplies DEF CommandsInv, FilesHoldWhatWasNamed
<1> QED
  BY <1>2, CommandsInvariance, PTL

\* Among the other commands as by themselves: a fetch that cannot decrypt what it has got
\* is one of a machine whose key file is no longer the one its token was given for, and a
\* send goes to a device its argument matches, to a peer where one matches.
THEOREM RelayCommandsAmongOthers == Spec => [](FetchesDecrypt /\ SendsReachTheNamed)
<1>1. RelayInv => FetchesDecrypt /\ SendsReachTheNamed
  BY DEF RelayInv, Sealed, Sound, FetchesDecrypt, SendsReachTheNamed
<1>2. CommandsInv => FetchesDecrypt /\ SendsReachTheNamed
  BY <1>1 DEF CommandsInv
<1> QED
  BY <1>2, CommandsInvariance, PTL
=============================================================================
