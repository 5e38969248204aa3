------------------------- MODULE ClipboardServer_proofs -------------------------
(***************************************************************************)
(* What holds of the daemon's /clipboard endpoint and its history for any  *)
(* number of requests, slots, entries and items.                           *)
(***************************************************************************)
EXTENDS ClipboardServer, FiniteSetTheorems, TLAPS

Place == {"idle", "check", "read", "lookup", "analyze", "add", "annotate",
          "answer", "write", "fetched", "reanalyze", "fetchanswer"}

Types ==
  /\ now \in 0..MaxTime
  /\ clip \in Item
  /\ hist \in History \cup {None}
  /\ hist # None => Len(hist.entries) <= HistorySize
  /\ cache \subseteq Png
  /\ pc \in [Handler -> Place]
  /\ req \in [Handler -> Request]
  /\ captured \in [Id -> Item \cup {None}]
  /\ added \in Seq(Id) /\ late \subseteq Id

\* The cache holds one image more than the limit at most.
CacheBound == IsFiniteSet(cache) /\ Cardinality(cache) <= MaxCache + 1

-----------------------------------------------------------------------------
\* A handler that is done has a blank request.
LEMMA NoRequestType == NoRequest \in Request
BY DEF NoRequest, Request

\* A new history is one.
LEMMA NewHistoryType == NewHistoryBuffer \in History /\ Len(NewHistoryBuffer.entries) = 0
BY DEF NewHistoryBuffer, History

\* What eviction leaves is a history that has room for an entry.
LEMMA EvictType ==
  ASSUME NEW hst \in History, Len(hst.entries) <= HistorySize
  PROVE  Evict(hst) \in History /\ Len(Evict(hst).entries) < HistorySize
<1> USE HistoryAssumption
<1>1. CASE Len(hst.entries) < HistorySize
  BY <1>1 DEF Evict, History
<1>2. CASE Len(hst.entries) = HistorySize
  <2>1. hst.entries \in Seq(Entry) /\ hst.entries # <<>>
    BY <1>2 DEF History
  <2>2. Head(hst.entries) \in Entry /\ Tail(hst.entries) \in Seq(Entry)
          /\ Len(Tail(hst.entries)) = HistorySize - 1
    BY <1>2, <2>1
  <2>3. Head(hst.entries).id \in Id
    BY <2>2 DEF Entry
  <2>4. Without(hst, Head(hst.entries).id) \in History
          /\ Without(hst, Head(hst.entries).id).entries = Tail(hst.entries)
    BY <2>2, <2>3 DEF Without, History
  <2>5. Evict(hst) = Without(hst, Head(hst.entries).id)
    BY <1>2 DEF Evict
  <2>6. Evict(hst).entries = Tail(hst.entries) /\ Evict(hst) \in History
    BY <2>4, <2>5
  <2>7. HistorySize - 1 < HistorySize
    OBVIOUS
  <2> QED BY <2>2, <2>6, <2>7
<1> QED BY <1>1, <1>2 DEF History

\* Add returns a history that is not too long.
LEMMA AddType ==
  ASSUME NEW hst \in History, Len(hst.entries) <= HistorySize,
         NEW id \in Id, NEW item \in Item, NEW embedded \in BOOLEAN
  PROVE  Add(hst, id, item, embedded) \in History
           /\ Len(Add(hst, id, item, embedded).entries) <= HistorySize
<1> DEFINE left == Evict(hst)
<1>1. left \in History /\ Len(left.entries) < HistorySize
  BY EvictType
<1>2. [id |-> id, item |-> item] \in Entry
  BY DEF Entry
<1> HIDE DEF left
<1>3. Append(left.entries, [id |-> id, item |-> item]) \in Seq(Entry)
        /\ Len(Append(left.entries, [id |-> id, item |-> item])) = Len(left.entries) + 1
  BY <1>1, <1>2 DEF History
<1> DEFINE vecs == IF embedded THEN left.vectors \cup {id} ELSE left.vectors
<1>4. vecs \in SUBSET Id
  <2>1. left.vectors \in SUBSET Id
    BY <1>1 DEF History
  <2> QED BY <2>1
<1> HIDE DEF vecs
<1>5. Add(hst, id, item, embedded)
        = [left EXCEPT !.entries = Append(@, [id |-> id, item |-> item]), !.vectors = vecs]
  BY Zenon DEF Add, left, vecs
<1>6. Add(hst, id, item, embedded) \in History
        /\ Add(hst, id, item, embedded).entries = Append(left.entries, [id |-> id, item |-> item])
  BY <1>1, <1>3, <1>4, <1>5 DEF History
<1> QED BY <1>1, <1>3, <1>6, HistoryAssumption DEF History

\* SetAnalysis only touches the analyses.
LEMMA SetAnalysisType ==
  ASSUME NEW hst \in History, NEW id \in Id, NEW analysis \in Item
  PROVE  SetAnalysis(hst, id, analysis) \in History
           /\ SetAnalysis(hst, id, analysis).entries = hst.entries
BY DEF SetAnalysis, History

\* Get only finds what is in the history under the ID.
LEMMA GetType ==
  ASSUME NEW hst \in History, NEW id \in Id, NEW time, NEW e \in Get(hst, id, time)
  PROVE  e \in Entry /\ e.id = id /\ \E i \in DOMAIN hst.entries : e = hst.entries[i]
<1>1. hst.entries \in Seq(Entry)
  BY DEF History
<1>2. e \in ToSet(hst.entries) /\ e.id = id
  BY DEF Get
<1>3. PICK i \in DOMAIN hst.entries : e = hst.entries[i]
  BY <1>2 DEF ToSet
<1>4. hst.entries[i] \in Entry
  BY <1>1
<1> QED BY <1>2, <1>3, <1>4

\* Eviction shifts the entries by one or not at all, and forgets analyses only.
LEMMA EvictEntries ==
  ASSUME NEW hst \in History, Len(hst.entries) <= HistorySize
  PROVE  /\ \E shift \in {0, 1} :
              /\ Len(Evict(hst).entries) = Len(hst.entries) - shift
              /\ \A i \in 1..Len(Evict(hst).entries) :
                   i + shift \in DOMAIN hst.entries
                     /\ Evict(hst).entries[i] = hst.entries[i + shift]
         /\ \A i \in Id : Evict(hst).analyses[i] \in {None, hst.analyses[i]}
<1> USE HistoryAssumption
<1>0. hst.entries \in Seq(Entry)
  BY DEF History
<1>1. CASE Len(hst.entries) < HistorySize
  <2>1. Evict(hst) = hst
    BY <1>0, <1>1 DEF Evict
  <2>2. \A i \in 1..Len(hst.entries) : i + 0 \in DOMAIN hst.entries /\ i + 0 = i
    BY <1>0
  <2> QED BY <1>0, <2>1, <2>2
<1>2. CASE Len(hst.entries) = HistorySize
  <2> DEFINE id == Head(hst.entries).id
  <2>1. Evict(hst) = Without(hst, id)
    BY <1>2 DEF Evict
  <2>2. Without(hst, id).entries = Tail(hst.entries)
    BY DEF Without, History
  <2>3. \A i \in Id : Without(hst, id).analyses[i] \in {None, hst.analyses[i]}
    BY DEF Without, History
  <2>4. /\ Len(Tail(hst.entries)) = Len(hst.entries) - 1
        /\ \A i \in 1..Len(Tail(hst.entries)) :
             i + 1 \in DOMAIN hst.entries /\ Tail(hst.entries)[i] = hst.entries[i + 1]
    BY <1>0, <1>2
  <2> QED BY <2>1, <2>2, <2>3, <2>4
<1> QED BY <1>0, <1>1, <1>2

\* All entries but the last were there before, in the same order.
LastAddedTo(old, new) ==
  \E shift \in {0, 1} : \A i \in 1..(Len(new) - 1) :
    i + shift \in DOMAIN old /\ new[i] = old[i + shift]

\* Add puts the new entry last, behind entries that were there in this order.
LEMMA AddEntries ==
  ASSUME NEW hst \in History, Len(hst.entries) <= HistorySize,
         NEW id \in Id, NEW item \in Item, NEW embedded \in BOOLEAN,
         NEW sum, sum = Add(hst, id, item, embedded)
  PROVE  /\ DOMAIN sum.entries = 1..Len(sum.entries) /\ Len(sum.entries) \in Nat \ {0}
         /\ sum.entries[Len(sum.entries)] = [id |-> id, item |-> item]
         /\ LastAddedTo(hst.entries, sum.entries)
         /\ \A i \in Id : sum.analyses[i] \in {None, hst.analyses[i]}
<1> DEFINE left == Evict(hst)
           last == [id |-> id, item |-> item]
           vecs == IF embedded THEN left.vectors \cup {id} ELSE left.vectors
<1>1. left \in History /\ Len(left.entries) < HistorySize
  BY EvictType
<1>2. PICK shift \in {0, 1} :
        \A i \in 1..Len(left.entries) :
          i + shift \in DOMAIN hst.entries /\ left.entries[i] = hst.entries[i + shift]
  BY EvictEntries
<1>3. \A i \in Id : left.analyses[i] \in {None, hst.analyses[i]}
  BY EvictEntries
<1>4. last \in Entry
  BY DEF Entry
<1>5. Add(hst, id, item, embedded)
        = [left EXCEPT !.entries = Append(@, last), !.vectors = vecs]
  BY Zenon DEF Add
<1> HIDE DEF left, last, vecs
<1>6. /\ Add(hst, id, item, embedded).entries = Append(left.entries, last)
      /\ Add(hst, id, item, embedded).analyses = left.analyses
  BY <1>1, <1>5 DEF History
<1> DEFINE new == Append(left.entries, last)
<1>7. /\ DOMAIN new = 1..Len(new) /\ Len(new) = Len(left.entries) + 1 /\ Len(new) \in Nat \ {0}
      /\ new[Len(new)] = last
      /\ \A i \in 1..Len(left.entries) : new[i] = left.entries[i]
  BY <1>1, <1>4 DEF History
<1>8. \A i \in 1..(Len(new) - 1) :
        i + shift \in DOMAIN hst.entries /\ new[i] = hst.entries[i + shift]
  <2>1. 1..(Len(new) - 1) = 1..Len(left.entries)
    BY <1>1, <1>7 DEF History
  <2> QED BY <1>2, <1>7, <2>1
<1> HIDE DEF new
<1>9. Add(hst, id, item, embedded).entries = new
  BY <1>6 DEF new
<1> QED BY <1>3, <1>6, <1>7, <1>8, <1>9 DEF last, LastAddedTo

-----------------------------------------------------------------------------
\* Every step a handler takes keeps the types.
LEMMA StartTypes ==
  ASSUME Types, NEW h \in Handler, Start(h)
  PROVE  Types'
<1>1. CASE StartGet(h)
  BY <1>1 DEF StartGet, GoTo, ghosts, Types, Place
<1>2. CASE StartPost(h)
  BY <1>2 DEF StartPost, GoTo, ghosts, Types, Place
<1>3. CASE Fetch(h)
  <2>1. PICK id \in Id : \E e \in Get(hist, id, now) :
          /\ req' = [req EXCEPT ![h].id = id, ![h].item = e.item]
          /\ GoTo(h, IF e.item \in Png THEN "fetched" ELSE "fetchanswer")
    BY <1>3 DEF Fetch
  <2>2. PICK e \in Get(hist, id, now) :
          /\ req' = [req EXCEPT ![h].id = id, ![h].item = e.item]
          /\ GoTo(h, IF e.item \in Png THEN "fetched" ELSE "fetchanswer")
    BY <2>1
  <2>3. e.item \in Item
    BY <1>3, GetType DEF Fetch, Types, Entry
  <2>4. req' \in [Handler -> Request]
    BY <2>2, <2>3 DEF Types, Request
  <2> QED BY <1>3, <2>2, <2>4 DEF Fetch, GoTo, ghosts, Types, Place
<1> QED BY <1>1, <1>2, <1>3 DEF Start

\* An analysis that is stored keeps the types, whether the entry is there or not.
LEMMA SetStoredTypes ==
  ASSUME Types, NEW h \in Handler, NEW analysis \in Item, hist # None, req[h].id \in Id,
         SetStored(h, analysis)
  PROVE  /\ hist' \in History /\ Len(hist'.entries) <= HistorySize
         /\ late' \subseteq Id
<1>1. hist \in History
  BY DEF Types
<1> QED BY <1>1, SetAnalysisType DEF SetStored, Types

\* The steps between the start and the end of a request.
LEMMA ServeTypes ==
  ASSUME Types, NEW h \in Handler, Serve(h),
         pc[h] \in {"lookup", "analyze", "add", "annotate", "fetched", "reanalyze"}
           => req[h].id \in Id /\ req[h].item \in Item,
         pc[h] = "annotate" => req[h].analysis \in Item,
         pc[h] \in {"annotate", "fetched", "reanalyze"} => hist # None
  PROVE  Types'
<1>1. CASE CheckConcealed(h)
  BY <1>1 DEF CheckConcealed, GoTo, ghosts, Types, Place, Request
<1>2. CASE Read(h)
  <2>1. now' \in 0..MaxTime /\ now' \in Id
    BY <1>2, ServerAssumption DEF Read, Types
  <2>2. req' \in [Handler -> Request]
    <3> DEFINE q == [req[h] EXCEPT !.item = clip, !.id = now']
    <3>1. q \in Request
      BY <2>1 DEF Types, Request
    <3>2. req' = [req EXCEPT ![h] = q]
      BY <1>2 DEF Read, Types, Request
    <3> QED BY <3>1, <3>2 DEF Types
  <2>3. captured' \in [Id -> Item \cup {None}]
    BY <1>2, <2>1 DEF Read, Types
  <2> QED BY <1>2, <2>1, <2>2, <2>3 DEF Read, GoTo, Types, Place
<1>3. CASE ReadFails(h) \/ Answer(h) \/ FetchAnswer(h) \/ Refuse(h)
  BY <1>3, NoRequestType
     DEF ReadFails, Answer, FetchAnswer, Refuse, Return, Finish, GoTo, ghosts, Types, Place
<1>4. CASE Write(h)
  BY <1>4, NoRequestType DEF Write, Return, Finish, GoTo, ghosts, Types, Place
<1>5. CASE LookUp(h)
  <2>1. req' \in [Handler -> Request]
    <3>1. CASE req[h].item \in cache
      <4> DEFINE q == [req[h] EXCEPT !.analysis = req[h].item]
      <4>1. q \in Request
        BY <1>5 DEF LookUp, Types, Request
      <4>2. req' = [req EXCEPT ![h] = q]
        BY <1>5, <3>1 DEF LookUp
      <4> QED BY <4>1, <4>2 DEF Types
    <3>2. CASE req[h].item \notin cache
      BY <1>5, <3>2 DEF LookUp, Types
    <3> QED BY <3>1, <3>2
  <2>2. pc' \in [Handler -> Place]
    BY <1>5 DEF LookUp, GoTo, Types, Place
  <2> QED BY <1>5, <2>1, <2>2 DEF LookUp, ghosts, Types
<1>6. CASE Analyze(h)
  <2>1. cache' \subseteq Png
    BY <1>6 DEF Analyze, Cached, Types
  <2> QED BY <1>6, <2>1 DEF Analyze, GoTo, ghosts, Types, Place, Request
<1>7. CASE Record(h)
  <2>1. req' \in [Handler -> Request]
    BY <1>7 DEF Record, Types, Request
  <2>2. hist' \in History \cup {None} /\ (hist' # None => Len(hist'.entries) <= HistorySize)
          /\ added' \in Seq(Id)
    <3>1. CASE hist = None
      BY <1>7, <3>1 DEF Record, Types
    <3>2. CASE hist # None
      <4>1. PICK embedded \in BOOLEAN : hist' = Add(hist, req[h].id, req[h].item, embedded)
        BY <1>7, <3>2 DEF Record
      <4>2. hist \in History /\ Len(hist.entries) <= HistorySize
              /\ req[h].id \in Id /\ req[h].item \in Item
        BY <1>7, <3>2 DEF Record, Types
      <4>3. hist' \in History /\ Len(hist'.entries) <= HistorySize
        BY <4>1, <4>2, AddType
      <4> QED BY <1>7, <3>2, <4>2, <4>3 DEF Record, Types
    <3> QED BY <3>1, <3>2
  <2> QED BY <1>7, <2>1, <2>2 DEF Record, GoTo, Types, Place
<1>8. CASE Annotate(h)
  BY <1>8, SetStoredTypes DEF Annotate, GoTo, Types, Place
<1>9. CASE GetStored(h)
  <2>1. hist.analyses[req[h].id] \in Item \cup {None}
    BY <1>9 DEF GetStored, Types, History
  <2> QED BY <1>9, <2>1 DEF GetStored, GoTo, ghosts, Types, Place, Request
<1>10. CASE Reanalyze(h)
  <2>1. CASE UNCHANGED <<req, hist, late>>
    BY <1>10, <2>1 DEF Reanalyze, GoTo, Types, Place
  <2>2. CASE /\ req' = [req EXCEPT ![h].analysis = req[h].item]
             /\ SetStored(h, req[h].item)
    <3>1. req' \in [Handler -> Request]
      BY <1>10, <2>2 DEF Reanalyze, Types, Request
    <3>2. hist' \in History /\ Len(hist'.entries) <= HistorySize /\ late' \subseteq Id
      BY <1>10, <2>2, SetStoredTypes DEF Reanalyze
    <3> QED BY <1>10, <2>2, <3>1, <3>2 DEF Reanalyze, GoTo, Types, Place
  <2> QED BY <1>10, <2>1, <2>2 DEF Reanalyze
<1> QED BY <1>1, <1>2, <1>3, <1>4, <1>5, <1>6, <1>7, <1>8, <1>9, <1>10 DEF Serve

-----------------------------------------------------------------------------
\* The handlers that hold a slot, which together with the free ones are all.
Slotted == {"check", "read", "lookup", "analyze", "add", "annotate", "answer", "write"}

Holders == {h \in Handler : pc[h] \in Slotted}

Slots ==
  /\ IsFiniteSet(Holders)
  /\ free \in Nat
  /\ free + Cardinality(Holders) = MaxInFlight

\* A handler that moves becomes a holder, or is none any more.
LEMMA HoldersMove ==
  ASSUME Types, NEW h \in Handler, NEW place \in Place, GoTo(h, place)
  PROVE  Holders' = IF place \in Slotted THEN Holders \cup {h} ELSE Holders \ {h}
BY DEF Types, GoTo, Holders

\* Taking a slot makes a holder of a handler that was none.
LEMMA AcquireSlots ==
  ASSUME Types, Slots, NEW h \in Handler, pc[h] = "idle", Acquire,
         NEW place \in Slotted, GoTo(h, place)
  PROVE  Slots'
<1>1. Holders' = Holders \cup {h} /\ h \notin Holders
  BY HoldersMove DEF Slotted, Place, Holders
<1>2. IsFiniteSet(Holders') /\ Cardinality(Holders') = Cardinality(Holders) + 1
  BY <1>1, FS_AddElement DEF Slots
<1>3. Cardinality(Holders) \in Nat
  BY FS_CardinalityType DEF Slots
<1> QED BY <1>2, <1>3, ServerAssumption DEF Slots, Acquire

\* Putting it back does the reverse.
LEMMA ReturnSlots ==
  ASSUME Types, Slots, NEW h \in Handler, pc[h] \in Slotted, Return(h)
  PROVE  Slots'
<1>1. Holders' = Holders \ {h} /\ h \in Holders
  BY HoldersMove DEF Return, Finish, Slotted, Place, Holders
<1>2. IsFiniteSet(Holders') /\ Cardinality(Holders') = Cardinality(Holders) - 1
  BY <1>1, FS_RemoveElement DEF Slots
<1>3. Cardinality(Holders) \in Nat
  BY FS_CardinalityType DEF Slots
<1> QED BY <1>2, <1>3, ServerAssumption DEF Slots, Return

\* A handler that neither gets nor gives up its slot changes nothing.
LEMMA KeepSlots ==
  ASSUME Types, Slots, NEW h \in Handler, NEW place \in Place, GoTo(h, place),
         pc[h] \in Slotted <=> place \in Slotted, UNCHANGED free
  PROVE  Slots'
<1>1. Holders' = Holders
  BY HoldersMove DEF Holders
<1> QED BY <1>1 DEF Slots

\* No step takes a slot without a holder, or loses one.
LEMMA StepSlots ==
  ASSUME Types, Slots, NEW h \in Handler, Start(h) \/ Serve(h)
  PROVE  Slots'
<1> USE DEF Slotted, Place
<1>1. CASE StartGet(h) \/ StartPost(h)
  BY <1>1, AcquireSlots DEF StartGet, StartPost
<1>2. CASE ReadFails(h) \/ Answer(h) \/ Refuse(h) \/ Write(h)
  BY <1>2, ReturnSlots DEF ReadFails, Answer, Refuse, Write
<1>3. CASE CheckConcealed(h) \/ Read(h)
  BY <1>3, KeepSlots DEF CheckConcealed, Read
<1>4. CASE LookUp(h) \/ Analyze(h)
  BY <1>4, KeepSlots DEF LookUp, Analyze
<1>5. CASE Record(h)
  <2>1. PICK place \in {"answer", "annotate"} : GoTo(h, place)
    BY <1>5 DEF Record
  <2> QED BY <1>5, <2>1, KeepSlots DEF Record
<1>6. CASE Annotate(h)
  BY <1>6, KeepSlots DEF Annotate
<1>7. CASE Fetch(h)
  <2>1. PICK place \in {"fetched", "fetchanswer"} : GoTo(h, place)
    BY <1>7 DEF Fetch
  <2> QED BY <1>7, <2>1, KeepSlots DEF Fetch
<1>8. CASE GetStored(h)
  <2>1. PICK place \in {"reanalyze", "fetchanswer"} : GoTo(h, place)
    BY <1>8 DEF GetStored
  <2> QED BY <1>8, <2>1, KeepSlots DEF GetStored
<1>9. CASE Reanalyze(h) \/ FetchAnswer(h)
  BY <1>9, KeepSlots DEF Reanalyze, FetchAnswer, Finish
<1> QED BY <1>1, <1>2, <1>3, <1>4, <1>5, <1>6, <1>7, <1>8, <1>9 DEF Start, Serve

\* A write to the analysis cache keeps its bound.
LEMMA CachedBound ==
  ASSUME CacheBound, NEW item, cache' \in Cached(item)
  PROVE  CacheBound'
<1>0. Cardinality(cache) \in Nat /\ MaxCache \in Nat
  BY FS_CardinalityType, ServerAssumption DEF CacheBound
<1>1. CASE Cardinality(cache) <= MaxCache
  <2>1. cache' = cache \cup {item}
    BY <1>0, <1>1 DEF Cached
  <2> QED BY <1>0, <1>1, <2>1, FS_AddElement DEF CacheBound
<1>2. CASE Cardinality(cache) > MaxCache
  <2>1. PICK old \in cache : cache' = (cache \ {old}) \cup {item}
    BY <1>0, <1>2 DEF Cached
  <2>2. IsFiniteSet(cache \ {old}) /\ Cardinality(cache \ {old}) = Cardinality(cache) - 1
    BY FS_RemoveElement DEF CacheBound
  <2>3. IsFiniteSet(cache') /\ Cardinality(cache') <= Cardinality(cache \ {old}) + 1
    BY <1>0, <2>1, <2>2, FS_AddElement
  <2>4. Cardinality(cache') \in Nat
    BY <2>3, FS_CardinalityType
  <2> QED BY <1>0, <2>2, <2>3, <2>4 DEF CacheBound
<1> QED BY <1>0, <1>1, <1>2

-----------------------------------------------------------------------------
\* What ties an ID to the read it was made for.
Unrecorded == {"lookup", "analyze", "add"}

Named(h) ==
  /\ pc[h] \in Unrecorded \cup {"annotate", "fetched", "reanalyze"} => req[h].id # None
  /\ pc[h] \in Unrecorded \cup {"annotate", "fetched", "reanalyze", "answer", "fetchanswer"}
       /\ req[h].id # None =>
       /\ req[h].id \in 1..now
       /\ req[h].item \in Item /\ req[h].item = captured[req[h].id]
       /\ req[h].analysis \in {None, req[h].item}
  /\ pc[h] = "annotate" => req[h].analysis # None
  /\ pc[h] \in {"idle", "check", "read", "fetched"} => req[h].analysis = None
  /\ pc[h] \in {"annotate", "fetched", "reanalyze"} => hist # None

\* The ID of a read that is not in the history yet is nobody else's.
Fresh(h) ==
  pc[h] \in Unrecorded =>
    /\ \A g \in Handler \ {h} : pc[g] \in Unrecorded => req[g].id # req[h].id
    /\ hist # None => \A i \in DOMAIN hist.entries : hist.entries[i].id # req[h].id

HistoryNamed ==
  hist # None =>
    /\ \A i \in DOMAIN hist.entries :
         /\ hist.entries[i].id \in 1..now
         /\ hist.entries[i].item = captured[hist.entries[i].id]
    /\ \A i, j \in DOMAIN hist.entries : hist.entries[i].id = hist.entries[j].id => i = j
    /\ \A i \in Id : hist.analyses[i] \in {None, captured[i]}

\* What has not been read yet has no analysis.
NothingAhead == hist # None => \A i \in Id : i > now => hist.analyses[i] = None

Names ==
  /\ \A h \in Handler : Named(h) /\ Fresh(h)
  /\ HistoryNamed /\ NothingAhead

\* What a client is answered, what is in the history and what is stored for it.
LEMMA NamesSuffice ==
  ASSUME Types, Names
  PROVE  IdsNameTheirRead
<1>1. ASSUME hist # None
      PROVE  /\ \A e \in ToSet(hist.entries) : e.item = captured[e.id]
             /\ IsInjective([i \in DOMAIN hist.entries |-> hist.entries[i].id])
             /\ \A i \in Id : hist.analyses[i] \in {None, captured[i]}
  BY <1>1 DEF Names, HistoryNamed, ToSet, IsInjective
<1>2. ASSUME NEW h \in Handler, pc[h] \in {"answer", "fetchanswer"}, req[h].id # None
      PROVE  req[h].item = captured[req[h].id] /\ req[h].analysis \in {None, req[h].item}
  BY <1>2 DEF Names, Named
<1> QED BY <1>1, <1>2 DEF IdsNameTheirRead

\* A handler that stands still keeps what it carries, when time goes on and
\* what has been read stays what it was.
LEMMA NamedKept ==
  ASSUME Types, NEW g \in Handler, Named(g), pc'[g] = pc[g], req'[g] = req[g],
         now' \in Nat, now <= now', \A i \in 1..now : captured'[i] = captured[i],
         hist # None => hist' # None
  PROVE  Named(g)'
<1>1. now \in Nat
  BY ServerAssumption DEF Types
<1>2. ASSUME pc[g] \in Unrecorded \cup {"annotate", "fetched", "reanalyze", "answer", "fetchanswer"},
             req[g].id # None
      PROVE  /\ req[g].id \in 1..now'
             /\ req[g].item \in Item /\ req[g].item = captured'[req[g].id]
             /\ req[g].analysis \in {None, req[g].item}
  BY <1>1, <1>2 DEF Named
<1> QED BY <1>2 DEF Named

\* A step of one handler that leaves the history alone.
LEMMA QuietNames ==
  ASSUME Types, Names, NEW h \in Handler, UNCHANGED <<now, hist, captured>>,
         \A g \in Handler \ {h} : pc'[g] = pc[g] /\ req'[g] = req[g],
         Named(h)',
         pc'[h] \in Unrecorded => pc[h] \in Unrecorded /\ req'[h].id = req[h].id
  PROVE  Names'
<1>1. now \in Nat
  BY ServerAssumption DEF Types
<1>2. ASSUME NEW g \in Handler
      PROVE  Named(g)'
  BY <1>1, <1>2, NamedKept DEF Names
<1>3. ASSUME NEW g \in Handler
      PROVE  Fresh(g)'
  BY <1>3 DEF Names, Fresh
<1>4. HistoryNamed' /\ NothingAhead'
  BY DEF Names, HistoryNamed, NothingAhead
<1> QED BY <1>2, <1>3, <1>4 DEF Names

\* Storing the analysis of what was read at a time.
LEMMA StoreNames ==
  ASSUME Types, Names, NEW h \in Handler, UNCHANGED <<now, captured>>,
         NEW id \in 1..now, id \in Id, captured[id] \in Item, hist # None,
         hist' = SetAnalysis(hist, id, captured[id]),
         \A g \in Handler \ {h} : pc'[g] = pc[g] /\ req'[g] = req[g],
         Named(h)', pc'[h] \notin Unrecorded
  PROVE  Names'
<1>1. now \in Nat /\ hist \in History
  BY ServerAssumption DEF Types
<1>2. /\ hist'.entries = hist.entries /\ hist' # None
      /\ \A i \in Id : hist'.analyses[i] = IF i = id THEN captured[id] ELSE hist.analyses[i]
  <2>1. hist' \in History /\ hist'.entries = hist.entries
    BY <1>1, SetAnalysisType
  <2>2. \A i \in Id : hist'.analyses[i] = IF i = id THEN captured[id] ELSE hist.analyses[i]
    BY <1>1 DEF SetAnalysis, History
  <2>3. hist' # None
    BY <2>1, HistoryAssumption
  <2> QED BY <2>1, <2>2, <2>3
<1>3. ASSUME NEW g \in Handler
      PROVE  Named(g)'
  BY <1>1, <1>2, <1>3, NamedKept DEF Names
<1>4. ASSUME NEW g \in Handler
      PROVE  Fresh(g)'
  BY <1>2, <1>4 DEF Names, Fresh
<1>5. HistoryNamed' /\ NothingAhead'
  BY <1>1, <1>2 DEF Names, HistoryNamed, NothingAhead
<1> QED BY <1>3, <1>4, <1>5 DEF Names

\* A read takes an ID that nobody has, and nothing that was read before changes.
LEMMA ReadNames ==
  ASSUME Types, Names, NEW h \in Handler, Read(h)
  PROVE  Names'
<1>1. /\ now \in Nat /\ now' = now + 1 /\ now' \in Id /\ now' # None
      /\ \A i \in 1..now : i \in Id
      /\ clip \in Item
  BY ServerAssumption, HistoryAssumption DEF Types, Read
<1>2. captured' = [captured EXCEPT ![now'] = clip]
  BY DEF Read
<1>3. captured'[now'] = clip /\ \A i \in 1..now : captured'[i] = captured[i]
  BY <1>1, <1>2 DEF Types
<1>4. /\ \A g \in Handler \ {h} : pc'[g] = pc[g] /\ req'[g] = req[g]
      /\ pc'[h] = "lookup" /\ req'[h].id = now' /\ req'[h].item = clip
      /\ req'[h].analysis = req[h].analysis
  BY DEF Read, GoTo, Types, Request
<1>5. req[h].analysis = None /\ UNCHANGED hist
  BY DEF Read, Names, Named
<1>6. ASSUME NEW g \in Handler
      PROVE  Named(g)'
  <2>1. CASE g = h
    BY <1>1, <1>3, <1>4, <1>5, <2>1 DEF Named, Unrecorded
  <2>2. CASE g # h
    BY <1>1, <1>3, <1>4, <1>5, <2>2, NamedKept DEF Names
  <2> QED BY <2>1, <2>2
<1>7. ASSUME NEW g \in Handler, pc[g] \in Unrecorded
      PROVE  req[g].id # now'
  BY <1>1, <1>7 DEF Names, Named
<1>8. ASSUME hist # None, NEW i \in DOMAIN hist.entries
      PROVE  hist.entries[i].id # now'
  BY <1>1, <1>8 DEF Names, HistoryNamed
<1>9. ASSUME NEW g \in Handler
      PROVE  Fresh(g)'
  <2>1. CASE g = h
    BY <1>4, <1>5, <1>7, <1>8, <2>1 DEF Fresh
  <2>2. CASE g # h
    BY <1>4, <1>5, <1>7, <2>2 DEF Fresh, Names
  <2> QED BY <2>1, <2>2
<1>10. HistoryNamed' /\ NothingAhead'
  <2>1. ASSUME hist # None
        PROVE  \A i \in Id : hist.analyses[i] \in {None, captured'[i]}
    <3>1. ASSUME NEW i \in Id, i <= now
          PROVE  hist.analyses[i] \in {None, captured'[i]}
      BY <1>1, <1>3, <2>1, <3>1, ServerAssumption DEF Names, HistoryNamed
    <3>2. ASSUME NEW i \in Id, i > now
          PROVE  hist.analyses[i] \in {None, captured'[i]}
      BY <2>1, <3>2 DEF Names, NothingAhead
    <3> QED BY <1>1, <3>1, <3>2, ServerAssumption
  <2>2. ASSUME hist # None, NEW i \in DOMAIN hist.entries
        PROVE  /\ hist.entries[i].id \in 1..now'
               /\ hist.entries[i].item = captured'[hist.entries[i].id]
    BY <1>1, <1>3, <2>2 DEF Names, HistoryNamed
  <2>3. HistoryNamed'
    BY <1>5, <2>1, <2>2 DEF Names, HistoryNamed
  <2>4. NothingAhead'
    BY <1>1, <1>5, ServerAssumption DEF Names, NothingAhead
  <2> QED BY <2>3, <2>4
<1> QED BY <1>6, <1>9, <1>10 DEF Names

\* The addition to the history keeps the ID what it was at the read.
LEMMA RecordNames ==
  ASSUME Types, Names, NEW h \in Handler, Record(h)
  PROVE  Names'
<1>1. /\ pc[h] = "add" /\ UNCHANGED <<now, captured>>
      /\ \A g \in Handler \ {h} : pc'[g] = pc[g] /\ req'[g] = req[g]
      /\ pc'[h] = IF hist = None \/ req[h].analysis = None THEN "answer" ELSE "annotate"
      /\ now \in Nat
  BY ServerAssumption DEF Record, GoTo, Types
<1>2. CASE hist = None
  <2>1. pc'[h] = "answer" /\ req'[h].id = None /\ UNCHANGED hist
    BY <1>1, <1>2 DEF Record, Types, Request
  <2>2. Named(h)'
    BY <2>1 DEF Named, Unrecorded
  <2> QED BY <1>1, <2>1, <2>2, QuietNames DEF Unrecorded
<1>3. CASE hist # None
  <2> DEFINE id == req[h].id
             item == req[h].item
  <2>1. /\ id \in 1..now /\ id \in Id /\ item \in Item /\ item = captured[id]
        /\ req[h].analysis \in {None, item} /\ id # None
    BY <1>1, ServerAssumption DEF Names, Named, Unrecorded, Types
  <2>2. PICK embedded \in BOOLEAN : hist' = Add(hist, id, item, embedded)
    BY <1>3 DEF Record
  <2>3. UNCHANGED req
    BY <1>3 DEF Record
  <2>4. hist \in History /\ Len(hist.entries) <= HistorySize
    BY <1>3 DEF Types
  <2>5. hist' \in History /\ hist' # None
    BY <2>1, <2>2, <2>4, AddType, HistoryAssumption
  <2> DEFINE new == hist'.entries
  <2> HIDE DEF id, item
  <2>6. /\ DOMAIN new = 1..Len(new) /\ Len(new) \in Nat \ {0}
        /\ new[Len(new)] = [id |-> id, item |-> item]
    BY <2>1, <2>2, <2>4, AddEntries
  <2>7. PICK shift \in {0, 1} : \A i \in 1..(Len(new) - 1) :
          i + shift \in DOMAIN hist.entries /\ new[i] = hist.entries[i + shift]
    <3>1. LastAddedTo(hist.entries, new)
      BY <2>1, <2>2, <2>4, AddEntries
    <3> QED BY <3>1 DEF LastAddedTo
  <2>8. \A i \in Id : hist'.analyses[i] \in {None, hist.analyses[i]}
    BY <2>1, <2>2, <2>4, AddEntries
  <2>9. new[Len(new)].id = id /\ new[Len(new)].item = item
    BY <2>6
  <2> HIDE DEF new
  <2>10. \A i \in 1..(Len(new) - 1) :
           new[i].id # id /\ new[i].id \in 1..now /\ new[i].item = captured[new[i].id]
    BY <1>1, <1>3, <2>7 DEF Names, Fresh, HistoryNamed, Unrecorded, id
  <2>11. HistoryNamed'
    <3>1. \A i \in DOMAIN new : new[i].id \in 1..now /\ new[i].item = captured[new[i].id]
      <4>1. \A i \in DOMAIN new : i = Len(new) \/ i \in 1..(Len(new) - 1)
        BY <2>6
      <4> QED BY <2>1, <2>9, <2>10, <4>1
    <3>2. ASSUME NEW i \in DOMAIN new, NEW j \in DOMAIN new, new[i].id = new[j].id
          PROVE  i = j
      <4>1. CASE i = Len(new) \/ j = Len(new)
        BY <2>6, <2>9, <2>10, <3>2, <4>1
      <4>2. CASE i # Len(new) /\ j # Len(new)
        <5>1. i \in 1..(Len(new) - 1) /\ j \in 1..(Len(new) - 1)
          BY <2>6, <4>2
        <5>2. hist.entries[i + shift].id = hist.entries[j + shift].id
                /\ i + shift \in DOMAIN hist.entries /\ j + shift \in DOMAIN hist.entries
          BY <2>7, <3>2, <5>1
        <5>3. i + shift = j + shift
          BY <1>3, <5>2 DEF Names, HistoryNamed
        <5> QED BY <5>1, <5>3
      <4> QED BY <4>1, <4>2
    <3>3. \A i \in Id : hist'.analyses[i] \in {None, captured[i]}
      BY <1>3, <2>8 DEF Names, HistoryNamed
    <3> QED BY <1>1, <3>1, <3>2, <3>3 DEF HistoryNamed, new
  <2>12. NothingAhead'
    BY <1>1, <1>3, <2>8 DEF Names, NothingAhead
  <2>13. ASSUME NEW g \in Handler
         PROVE  Named(g)'
    <3>1. CASE g = h
      BY <1>1, <1>3, <2>1, <2>3, <2>5, <3>1 DEF Named, Unrecorded, id, item
    <3>2. CASE g # h
      BY <1>1, <2>3, <2>5, <3>2, NamedKept DEF Names
    <3> QED BY <3>1, <3>2
  <2>14. ASSUME NEW g \in Handler
         PROVE  Fresh(g)'
    <3>1. pc'[h] \notin Unrecorded
      BY <1>1 DEF Unrecorded
    <3>2. ASSUME g # h, pc[g] \in Unrecorded
          PROVE  \A i \in DOMAIN new : new[i].id # req[g].id
      <4>1. id # req[g].id
        BY <1>1, <3>2 DEF Names, Fresh, Unrecorded, id
      <4>2. \A i \in 1..(Len(new) - 1) : new[i].id # req[g].id
        BY <1>3, <2>7, <3>2 DEF Names, Fresh
      <4>3. \A i \in DOMAIN new : i = Len(new) \/ i \in 1..(Len(new) - 1)
        BY <2>6
      <4> QED BY <2>9, <4>1, <4>2, <4>3
    <3> QED BY <1>1, <2>3, <3>1, <3>2 DEF Names, Fresh, new
  <2> QED BY <2>11, <2>12, <2>13, <2>14 DEF Names
<1> QED BY <1>2, <1>3

\* Each step of a handler keeps what the IDs name.
LEMMA StepNames ==
  ASSUME Types, Names, NEW h \in Handler, Start(h) \/ Serve(h)
  PROVE  Names'
<1> USE DEF Unrecorded
<1>1. CASE StartGet(h) \/ StartPost(h)
  <2>1. UNCHANGED <<now, hist, captured, req>> /\ pc'[h] \in {"check", "write"} /\ pc[h] = "idle"
          /\ \A g \in Handler \ {h} : pc'[g] = pc[g]
    BY <1>1 DEF StartGet, StartPost, GoTo, ghosts, Types
  <2> QED BY <2>1, QuietNames DEF Names, Named
<1>2. CASE ReadFails(h) \/ Answer(h) \/ Refuse(h) \/ Write(h) \/ FetchAnswer(h)
  <2>1. UNCHANGED <<now, hist, captured>> /\ pc'[h] = "idle" /\ req'[h] = NoRequest
          /\ \A g \in Handler \ {h} : pc'[g] = pc[g] /\ req'[g] = req[g]
    BY <1>2 DEF ReadFails, Answer, Refuse, Write, FetchAnswer, Return, Finish, GoTo, ghosts, Types
  <2>2. Named(h)'
    BY <2>1 DEF Named, NoRequest
  <2> QED BY <2>1, <2>2, QuietNames
<1>3. CASE CheckConcealed(h)
  <2>1. UNCHANGED <<now, hist, captured>> /\ pc'[h] = "read" /\ pc[h] = "check"
          /\ req'[h].analysis = req[h].analysis
          /\ \A g \in Handler \ {h} : pc'[g] = pc[g] /\ req'[g] = req[g]
    BY <1>3 DEF CheckConcealed, GoTo, ghosts, Types, Request
  <2>2. Named(h)'
    BY <2>1 DEF Names, Named
  <2> QED BY <2>1, <2>2, QuietNames
<1>4. CASE Read(h)
  BY <1>4, ReadNames
<1>5. CASE LookUp(h) \/ Analyze(h)
  <2>1. UNCHANGED <<now, hist, captured>> /\ pc'[h] \in {"analyze", "add"}
          /\ pc[h] \in {"lookup", "analyze"}
          /\ \A g \in Handler \ {h} : pc'[g] = pc[g] /\ req'[g] = req[g]
    BY <1>5 DEF LookUp, Analyze, GoTo, ghosts, Types
  <2>2. /\ req'[h].id = req[h].id /\ req'[h].item = req[h].item
        /\ req'[h].analysis \in {req[h].analysis, req[h].item}
    BY <1>5 DEF LookUp, Analyze, Types, Request
  <2>3. Named(h)'
    BY <2>1, <2>2 DEF Names, Named
  <2> QED BY <2>1, <2>2, <2>3, QuietNames
<1>6. CASE Record(h)
  BY <1>6, RecordNames
<1>7. CASE Annotate(h)
  <2> DEFINE id == req[h].id
  <2>1. /\ id \in 1..now /\ id \in Id /\ captured[id] \in Item /\ hist # None
        /\ req[h].analysis = captured[id]
    BY <1>7, ServerAssumption DEF Annotate, Names, Named, Types
  <2>2. /\ UNCHANGED <<now, captured, req>> /\ hist' = SetAnalysis(hist, id, captured[id])
        /\ pc'[h] = "answer" /\ \A g \in Handler \ {h} : pc'[g] = pc[g]
    BY <1>7, <2>1 DEF Annotate, SetStored, GoTo, Types
  <2>3. Named(h)'
    BY <1>7, <2>2 DEF Annotate, Names, Named
  <2> QED BY <2>1, <2>2, <2>3, StoreNames
<1>8. CASE Fetch(h)
  <2>1. PICK id \in Id : \E e \in Get(hist, id, now) :
          /\ req' = [req EXCEPT ![h].id = id, ![h].item = e.item]
          /\ GoTo(h, IF e.item \in Png THEN "fetched" ELSE "fetchanswer")
    BY <1>8 DEF Fetch
  <2>2. PICK e \in Get(hist, id, now) :
          /\ req' = [req EXCEPT ![h].id = id, ![h].item = e.item]
          /\ GoTo(h, IF e.item \in Png THEN "fetched" ELSE "fetchanswer")
    BY <2>1
  <2>3. hist \in History /\ hist # None
    BY <1>8 DEF Fetch, Types
  <2>4. e.id = id /\ e.item \in Item /\ \E i \in DOMAIN hist.entries : e = hist.entries[i]
    BY <2>3, GetType DEF Entry
  <2>5. id \in 1..now /\ e.item = captured[id]
    BY <2>3, <2>4 DEF Names, HistoryNamed
  <2>6. /\ UNCHANGED <<now, hist, captured>> /\ pc'[h] \in {"fetched", "fetchanswer"}
        /\ pc[h] = "idle" /\ req'[h].id = id /\ req'[h].item = e.item
        /\ req'[h].analysis = req[h].analysis
        /\ \A g \in Handler \ {h} : pc'[g] = pc[g] /\ req'[g] = req[g]
    BY <1>8, <2>2 DEF Fetch, GoTo, ghosts, Types, Request
  <2>7. req[h].analysis = None /\ id # None
    BY <2>6, HistoryAssumption DEF Names, Named
  <2>8. Named(h)'
    BY <2>3, <2>4, <2>5, <2>6, <2>7 DEF Named
  <2> QED BY <2>6, <2>8, QuietNames
<1>9. CASE GetStored(h)
  <2> DEFINE id == req[h].id
  <2>1. /\ id \in 1..now /\ id \in Id /\ id # None /\ hist # None
        /\ req[h].item \in Item /\ req[h].item = captured[id]
    BY <1>9, ServerAssumption DEF GetStored, Names, Named, Types
  <2>2. hist.analyses[id] \in {None, req[h].item}
    BY <2>1 DEF Names, HistoryNamed
  <2>3. /\ UNCHANGED <<now, hist, captured>> /\ pc'[h] \in {"reanalyze", "fetchanswer"}
        /\ req'[h].id = req[h].id /\ req'[h].item = req[h].item
        /\ req'[h].analysis = hist.analyses[id]
        /\ \A g \in Handler \ {h} : pc'[g] = pc[g] /\ req'[g] = req[g]
    BY <1>9 DEF GetStored, GoTo, ghosts, Types, Request
  <2>4. Named(h)'
    BY <2>1, <2>2, <2>3 DEF Named
  <2> QED BY <2>3, <2>4, QuietNames
<1>10. CASE Reanalyze(h)
  <2> DEFINE id == req[h].id
  <2>1. /\ id \in 1..now /\ id \in Id /\ id # None /\ hist # None
        /\ req[h].item \in Item /\ req[h].item = captured[id]
        /\ req[h].analysis \in {None, req[h].item}
    BY <1>10, ServerAssumption DEF Reanalyze, Names, Named, Types
  <2>2. /\ UNCHANGED <<now, captured>> /\ pc'[h] = "fetchanswer"
        /\ \A g \in Handler \ {h} : pc'[g] = pc[g] /\ req'[g] = req[g]
        /\ req'[h].id = req[h].id /\ req'[h].item = req[h].item
        /\ req'[h].analysis \in {req[h].analysis, req[h].item}
    BY <1>10 DEF Reanalyze, GoTo, Types, Request
  <2>3. Named(h)'
    BY <2>1, <2>2 DEF Named
  <2>4. CASE hist' = hist
    BY <2>2, <2>3, <2>4, QuietNames
  <2>5. CASE hist' = SetAnalysis(hist, id, captured[id])
    BY <2>1, <2>2, <2>3, <2>5, StoreNames
  <2> QED BY <1>10, <2>1, <2>4, <2>5 DEF Reanalyze, SetStored
<1> QED BY <1>1, <1>2, <1>3, <1>4, <1>5, <1>6, <1>7, <1>8, <1>9, <1>10 DEF Start, Serve

-----------------------------------------------------------------------------
\* What is stored for an ID: it has an entry, or the analysis came too late.
Kept(hst, overdue) ==
  /\ hst.vectors \subseteq Ids(hst)
  /\ {i \in Id : hst.analyses[i] # None} \subseteq Ids(hst) \cup overdue

\* Eviction forgets with an entry what is stored for it.
LEMMA EvictKeeps ==
  ASSUME NEW hst \in History, Len(hst.entries) <= HistorySize, NEW overdue, Kept(hst, overdue)
  PROVE  Kept(Evict(hst), overdue)
<1> DEFINE id == Head(hst.entries).id
<1>0. hst.entries \in Seq(Entry)
  BY DEF History
<1>1. CASE Len(hst.entries) < HistorySize
  BY <1>0, <1>1, HistoryAssumption DEF Evict
<1>2. CASE Len(hst.entries) = HistorySize
  <2>1. Evict(hst) = Without(hst, id)
    BY <1>2, HistoryAssumption DEF Evict
  <2>2. /\ Without(hst, id).entries = Tail(hst.entries)
        /\ Without(hst, id).vectors = hst.vectors \ {id}
        /\ \A i \in Id : Without(hst, id).analyses[i] # None => i # id /\ hst.analyses[i] # None
    BY DEF Without, History
  <2>3. Ids(hst) \ {id} \subseteq Ids(Without(hst, id))
    <3>1. ASSUME NEW i \in DOMAIN hst.entries, hst.entries[i].id # id
          PROVE  \E j \in DOMAIN Tail(hst.entries) : Tail(hst.entries)[j] = hst.entries[i]
      <4>1. i - 1 \in DOMAIN Tail(hst.entries) /\ Tail(hst.entries)[i - 1] = hst.entries[i]
        BY <1>0, <3>1
      <4> QED BY <4>1
    <3>2. ASSUME NEW e \in ToSet(hst.entries), e.id # id
          PROVE  e \in ToSet(Without(hst, id).entries)
      <4>1. PICK i \in DOMAIN hst.entries : hst.entries[i] = e
        BY <3>2 DEF ToSet
      <4>2. e \in ToSet(Tail(hst.entries))
        BY <3>1, <3>2, <4>1 DEF ToSet
      <4> QED BY <2>2, <4>2
    <3> HIDE DEF id
    <3> QED BY <3>2 DEF Ids
  <2> HIDE DEF id
  <2> QED BY <2>1, <2>2, <2>3 DEF Kept
<1> QED BY <1>0, <1>1, <1>2, HistoryAssumption

\* An addition has the entry of the embedding it brings.
LEMMA AddKeeps ==
  ASSUME NEW hst \in History, Len(hst.entries) <= HistorySize, NEW overdue, Kept(hst, overdue),
         NEW id \in Id, NEW item \in Item, NEW embedded \in BOOLEAN
  PROVE  Kept(Add(hst, id, item, embedded), overdue)
<1> DEFINE left == Evict(hst)
           last == [id |-> id, item |-> item]
           vecs == IF embedded THEN left.vectors \cup {id} ELSE left.vectors
           sum == Add(hst, id, item, embedded)
<1>1. left \in History /\ Kept(left, overdue)
  BY EvictType, EvictKeeps
<1>2. vecs \subseteq left.vectors \cup {id}
  OBVIOUS
<1>3. sum = [left EXCEPT !.entries = Append(@, last), !.vectors = vecs]
  BY Zenon DEF Add
<1>4. last.id = id /\ last \in Entry
  BY DEF Entry
<1> HIDE DEF left, last, vecs, sum
<1>5. sum.entries = Append(left.entries, last) /\ sum.analyses = left.analyses /\ sum.vectors = vecs
  BY <1>1, <1>3 DEF History
<1>6. Ids(left) \cup {id} \subseteq Ids(sum)
  <2>1. left.entries \in Seq(Entry)
    BY <1>1 DEF History
  <2>2. /\ Append(left.entries, last)[Len(left.entries) + 1] = last
        /\ Len(left.entries) + 1 \in DOMAIN Append(left.entries, last)
        /\ \A i \in DOMAIN left.entries :
             i \in DOMAIN Append(left.entries, last) /\ Append(left.entries, last)[i] = left.entries[i]
    BY <1>4, <2>1
  <2> QED BY <1>4, <1>5, <2>2 DEF Ids, ToSet
<1>7. Kept(sum, overdue)
  BY <1>1, <1>2, <1>5, <1>6 DEF Kept
<1> QED BY <1>7 DEF sum

\* A step that stores something stores it for an entry, or notes that it is late.
LEMMA StepKeeps ==
  ASSUME Types, Names, MetadataIsDropped, NEW h \in Handler, Start(h) \/ Serve(h)
  PROVE  MetadataIsDropped'
<1> USE DEF MetadataIsDropped
<1>1. CASE UNCHANGED <<hist, late>>
  BY <1>1 DEF Ids
<1>2. CASE Record(h)
  <2>1. CASE hist = None
    BY <1>1, <1>2, <2>1 DEF Record
  <2>2. CASE hist # None
    <3>1. PICK embedded \in BOOLEAN : hist' = Add(hist, req[h].id, req[h].item, embedded)
      BY <1>2, <2>2 DEF Record
    <3>2. hist \in History /\ Len(hist.entries) <= HistorySize /\ Kept(hist, late)
            /\ req[h].id \in Id /\ req[h].item \in Item
      BY <1>2, <2>2, ServerAssumption DEF Record, Types, Names, Named, Unrecorded, Kept
    <3>3. Kept(hist', late')
      BY <1>2, <3>1, <3>2, AddKeeps DEF Record
    <3> QED BY <3>3 DEF Kept
  <2> QED BY <2>1, <2>2
<1>3. ASSUME NEW analysis \in Item, SetStored(h, analysis), req[h].id \in Id, hist # None
      PROVE  MetadataIsDropped'
  <2>1. hist \in History /\ hist' \in History /\ hist'.entries = hist.entries
    BY <1>3, SetAnalysisType DEF SetStored, Types
  <2>2. /\ Ids(hist') = Ids(hist) /\ hist'.vectors = hist.vectors
        /\ \A i \in Id : i # req[h].id => hist'.analyses[i] = hist.analyses[i]
        /\ late \subseteq late' /\ req[h].id \in Ids(hist) \cup late'
    BY <1>3, <2>1 DEF SetStored, SetAnalysis, History, Ids
  <2> QED BY <1>3, <2>2
<1>4. CASE Annotate(h) \/ Reanalyze(h)
  <2>1. hist # None /\ req[h].id \in Id /\ req[h].item \in Item
          /\ (Annotate(h) => req[h].analysis \in Item)
    BY <1>4, ServerAssumption DEF Annotate, Reanalyze, Types, Names, Named, Unrecorded
  <2> QED BY <1>1, <1>3, <1>4, <2>1 DEF Annotate, Reanalyze
<1>5. CASE ~Record(h) /\ ~Annotate(h) /\ ~Reanalyze(h)
  <2>1. UNCHANGED <<hist, late>>
    BY <1>5 DEF Start, Serve, StartGet, StartPost, Fetch, CheckConcealed, Read, ReadFails, LookUp,
                Analyze, Answer, Write, GetStored, FetchAnswer, Refuse, ghosts
  <2> QED BY <1>1, <2>1
<1> QED BY <1>2, <1>4, <1>5

-----------------------------------------------------------------------------
\* The entries behind the i-th that were read before it, and the reads before a
\* time that are not in the history yet and may still get there.
Behind(i) == {j \in DOMAIN added : j > i /\ added[j] < added[i]}

Pending(id) == {h \in Handler : pc[h] \in Unrecorded /\ req[h].id < id}

Few ==
  \A i \in DOMAIN added :
    /\ added[i] \in 1..now
    /\ IsFiniteSet(Behind(i))
    /\ Cardinality(Behind(i)) + Cardinality(Pending(added[i])) < MaxInFlight

\* A read that is pending holds a slot.
LEMMA PendingHold ==
  ASSUME Slots, NEW id
  PROVE  /\ Pending(id) \subseteq Holders
         /\ IsFiniteSet(Pending(id)) /\ Cardinality(Pending(id)) \in Nat
<1>1. Pending(id) \subseteq Holders
  BY DEF Pending, Holders, Unrecorded, Slotted
<1>2. IsFiniteSet(Pending(id))
  BY <1>1, FS_Subset DEF Slots
<1> QED BY <1>1, <1>2, FS_CardinalityType

\* It is enough that nobody joins those that may still be overtaken.
LEMMA QuietFew ==
  ASSUME Types, Slots, Few, UNCHANGED added, now' \in Nat, now <= now',
         \A id \in 1..now : Pending(id)' \subseteq Pending(id)
  PROVE  Few'
<1> SUFFICES ASSUME NEW i \in DOMAIN added
             PROVE  /\ added[i] \in 1..now' /\ IsFiniteSet(Behind(i)')
                    /\ Cardinality(Behind(i)') + Cardinality(Pending(added[i])') < MaxInFlight
  BY DEF Few
<1>1. now \in Nat /\ MaxInFlight \in Nat
  BY ServerAssumption DEF Types
<1>2. added[i] \in 1..now /\ added[i] \in 1..now'
  BY <1>1 DEF Few
<1>3. Behind(i)' = Behind(i) /\ IsFiniteSet(Behind(i)) /\ Cardinality(Behind(i)) \in Nat
  BY FS_CardinalityType DEF Behind, Few
<1>4. Pending(added[i])' \subseteq Pending(added[i])
  BY <1>2 DEF Pending
<1>5. /\ Cardinality(Pending(added[i])') \in Nat /\ Cardinality(Pending(added[i])) \in Nat
      /\ Cardinality(Pending(added[i])') <= Cardinality(Pending(added[i]))
  BY <1>4, PendingHold, FS_Subset, FS_CardinalityType
<1>6. Cardinality(Behind(i)) + Cardinality(Pending(added[i])) < MaxInFlight
  BY DEF Few
<1> QED BY <1>1, <1>2, <1>3, <1>5, <1>6

\* An addition is itself no longer pending when it counts as behind another.
LEMMA RecordFew ==
  ASSUME Types, Slots, Names, Few, NEW h \in Handler, Record(h), hist # None
  PROVE  Few'
<1>1. /\ now \in Nat /\ MaxInFlight \in Nat /\ pc[h] = "add"
      /\ req[h].id \in 1..now /\ req[h].id \in Id
  BY ServerAssumption DEF Types, Names, Named, Unrecorded, Record
<1>2. PICK x \in Id : x = req[h].id
  BY <1>1
<1>3. /\ added \in Seq(Id) /\ added' = Append(added, x) /\ UNCHANGED <<now, req>>
      /\ pc'[h] \notin Unrecorded /\ \A g \in Handler \ {h} : pc'[g] = pc[g]
  BY <1>2 DEF Record, GoTo, Types, Unrecorded
<1>4. PICK n \in Nat \ {0} : n = Len(added) + 1
  BY <1>3
<1>5. /\ DOMAIN added' = 1..n /\ DOMAIN added = 1..(n - 1)
      /\ added'[n] = x /\ \A i \in 1..(n - 1) : added'[i] = added[i] /\ added[i] \in Nat
  BY <1>3, <1>4, ServerAssumption
<1>6. \A id : Pending(id)' = Pending(id) \ {h}
  BY <1>3 DEF Pending
<1>7. x \in Nat /\ Behind(n)' = {}
  BY <1>1, <1>2, <1>5 DEF Behind
<1>8. Cardinality(Pending(x)') < MaxInFlight /\ Cardinality(Pending(x)') \in Nat
  <2>1. h \in Holders /\ Pending(x)' \subseteq Holders \ {h}
    BY <1>1, <1>6, PendingHold DEF Holders, Slotted
  <2>2. /\ IsFiniteSet(Holders \ {h})
        /\ Cardinality(Holders \ {h}) = Cardinality(Holders) - 1
        /\ Cardinality(Holders) \in Nat /\ Cardinality(Holders) <= MaxInFlight
    BY <1>1, <2>1, FS_RemoveElement, FS_CardinalityType DEF Slots
  <2>3. Cardinality(Pending(x)') <= Cardinality(Holders \ {h}) /\ Cardinality(Pending(x)') \in Nat
    BY <2>1, <2>2, FS_Subset, FS_CardinalityType
  <2> QED BY <1>1, <2>2, <2>3
<1>9. ASSUME NEW i \in 1..(n - 1), NEW y \in Nat, y = added[i]
      PROVE  /\ y \in 1..now /\ IsFiniteSet(Behind(i)')
             /\ Cardinality(Behind(i)') + Cardinality(Pending(y)') < MaxInFlight
  <2>1. /\ added'[i] = y /\ y \in 1..now /\ IsFiniteSet(Behind(i))
        /\ Cardinality(Behind(i)) + Cardinality(Pending(y)) < MaxInFlight
        /\ Cardinality(Behind(i)) \in Nat /\ Cardinality(Pending(y)) \in Nat
        /\ IsFiniteSet(Pending(y))
    BY <1>5, <1>9, FS_CardinalityType, PendingHold DEF Few
  <2>2. CASE x < y
    <3>1. Behind(i)' = Behind(i) \cup {n} /\ n \notin Behind(i)
      BY <1>5, <1>9, <2>1, <2>2 DEF Behind
    <3>2. h \in Pending(y)
      BY <1>1, <1>2, <2>2 DEF Pending, Unrecorded
    <3>3. IsFiniteSet(Behind(i)') /\ Cardinality(Behind(i)') = Cardinality(Behind(i)) + 1
      BY <2>1, <3>1, FS_AddElement
    <3>4. Cardinality(Pending(y)') = Cardinality(Pending(y)) - 1
      BY <1>6, <2>1, <3>2, FS_RemoveElement
    <3> QED BY <1>1, <2>1, <3>3, <3>4
  <2>3. CASE ~(x < y)
    <3>1. Behind(i)' = Behind(i)
      BY <1>5, <1>9, <2>1, <2>3 DEF Behind
    <3>2. Pending(y)' = Pending(y)
      BY <1>2, <1>6, <2>3 DEF Pending
    <3> QED BY <2>1, <3>1, <3>2
  <2> QED BY <2>2, <2>3
<1>10. ASSUME NEW i \in 1..n, NEW y \in Nat, y = added'[i]
       PROVE  /\ y \in 1..now /\ IsFiniteSet(Behind(i)')
              /\ Cardinality(Behind(i)') + Cardinality(Pending(y)') < MaxInFlight
  <2>1. CASE i = n
    <3>1. Cardinality(Behind(n)') = 0 /\ IsFiniteSet(Behind(n)')
      BY <1>7, FS_EmptySet
    <3> QED BY <1>1, <1>2, <1>5, <1>8, <1>10, <2>1, <3>1
  <2>2. CASE i # n
    <3>1. i \in 1..(n - 1) /\ y = added[i]
      BY <1>5, <1>10, <2>2
    <3> QED BY <1>9, <1>10, <3>1
  <2> QED BY <2>1, <2>2
<1>11. \A i \in DOMAIN added' : added'[i] \in Nat
  BY <1>5, <1>7
<1>12. ASSUME NEW i \in DOMAIN added'
       PROVE  /\ added'[i] \in 1..now' /\ IsFiniteSet(Behind(i)')
              /\ Cardinality(Behind(i)') + Cardinality(Pending(added[i])') < MaxInFlight
  <2>1. PICK y \in Nat : y = added'[i]
    BY <1>11
  <2>2. Pending(added[i])' = Pending(y)'
    BY <2>1 DEF Pending
  <2> QED BY <1>3, <1>5, <1>10, <2>1, <2>2
<1> QED BY <1>12 DEF Few

\* Each step keeps the bound on how often an entry is overtaken.
LEMMA StepFew ==
  ASSUME Types, Slots, Names, Few, NEW h \in Handler, Start(h) \/ Serve(h)
  PROVE  Few'
<1> USE DEF Unrecorded
<1>0. now \in Nat
  BY ServerAssumption DEF Types
<1>1. CASE Read(h)
  <2>1. /\ now' = now + 1 /\ UNCHANGED added /\ req'[h].id = now'
        /\ \A g \in Handler \ {h} : pc'[g] = pc[g] /\ req'[g] = req[g]
    BY <1>1 DEF Read, GoTo, Types, Request
  <2>2. \A id \in 1..now : Pending(id)' \subseteq Pending(id)
    BY <1>0, <2>1 DEF Pending
  <2> QED BY <1>0, <2>1, <2>2, QuietFew
<1>2. CASE Record(h) /\ hist # None
  BY <1>2, RecordFew
<1>3. ASSUME UNCHANGED <<now, added>>, pc'[h] \in Unrecorded => pc[h] \in Unrecorded,
             pc'[h] \in Unrecorded => req'[h].id = req[h].id,
             \A g \in Handler \ {h} : pc'[g] = pc[g] /\ req'[g] = req[g]
      PROVE  Few'
  <2>1. \A id \in 1..now : Pending(id)' \subseteq Pending(id)
    BY <1>3 DEF Pending
  <2> QED BY <1>0, <1>3, <2>1, QuietFew
<1>4. CASE Record(h) /\ hist = None
  BY <1>3, <1>4 DEF Record, GoTo, Types
<1>5. CASE StartGet(h) \/ StartPost(h)
  BY <1>3, <1>5 DEF StartGet, StartPost, GoTo, ghosts, Types
<1>6. CASE ReadFails(h) \/ Answer(h) \/ Refuse(h) \/ Write(h) \/ FetchAnswer(h)
  BY <1>3, <1>6 DEF ReadFails, Answer, Refuse, Write, FetchAnswer, Return, Finish, GoTo, ghosts, Types
<1>7. CASE CheckConcealed(h)
  BY <1>3, <1>7 DEF CheckConcealed, GoTo, ghosts, Types
<1>8. CASE LookUp(h) \/ Analyze(h)
  <2>1. req'[h].id = req[h].id
    BY <1>8 DEF LookUp, Analyze, Types, Request
  <2> QED BY <1>3, <1>8, <2>1 DEF LookUp, Analyze, GoTo, ghosts, Types
<1>9. CASE Annotate(h)
  BY <1>3, <1>9 DEF Annotate, GoTo, Types
<1>10. CASE Fetch(h)
  <2>1. PICK place \in {"fetched", "fetchanswer"} : GoTo(h, place)
    BY <1>10 DEF Fetch
  <2>2. \A g \in Handler \ {h} : req'[g] = req[g]
    BY <1>10 DEF Fetch, Types
  <2> QED BY <1>3, <1>10, <2>1, <2>2 DEF Fetch, GoTo, ghosts, Types
<1>11. CASE GetStored(h)
  BY <1>3, <1>11 DEF GetStored, GoTo, ghosts, Types
<1>12. CASE Reanalyze(h)
  BY <1>3, <1>12 DEF Reanalyze, GoTo, Types
<1> QED BY <1>1, <1>2, <1>4, <1>5, <1>6, <1>7, <1>8, <1>9, <1>10, <1>11, <1>12 DEF Start, Serve

-----------------------------------------------------------------------------
\* The inductive invariant.  What an ID names and how often an entry is overtaken
\* need Slots, the types need Names (an ID and an item are there when used).
IInv == Types /\ CacheBound /\ Slots /\ Names /\ MetadataIsDropped /\ Few

\* At the start nothing was read and nobody is served.
LEMMA InitIInv == Init => IInv
<1> SUFFICES ASSUME Init PROVE IInv
  OBVIOUS
<1> USE DEF Init
<1>1. Types
  <2>1. hist \in History \cup {None} /\ (hist # None => Len(hist.entries) <= HistorySize)
    <3>1. 0 <= HistorySize
      BY HistoryAssumption
    <3> QED BY <3>1, NewHistoryType
  <2>2. now \in 0..MaxTime /\ clip \in Item /\ cache \subseteq Png
    BY ServerAssumption
  <2>3. pc \in [Handler -> Place] /\ req \in [Handler -> Request]
    BY NoRequestType DEF Place
  <2>4. captured \in [Id -> Item \cup {None}]
    OBVIOUS
  <2>5. added \in Seq(Id) /\ late \subseteq Id
    OBVIOUS
  <2> QED BY <2>1, <2>2, <2>3, <2>4, <2>5 DEF Types
<1>2. CacheBound
  BY ServerAssumption, FS_EmptySet DEF CacheBound
<1>3. Slots
  <2>1. Holders = {}
    BY DEF Holders, Slotted
  <2> QED BY <2>1, ServerAssumption, FS_EmptySet DEF Slots
<1>4. Names
  <2>1. \A h \in Handler : Named(h) /\ Fresh(h)
    BY DEF Named, Fresh, Unrecorded, NoRequest
  <2>2. HistoryNamed /\ NothingAhead
    BY NewHistoryType DEF HistoryNamed, NothingAhead, NewHistoryBuffer
  <2> QED BY <2>1, <2>2 DEF Names
<1>5. MetadataIsDropped
  BY DEF MetadataIsDropped, NewHistoryBuffer
<1>6. Few
  BY DEF Few
<1> QED BY <1>1, <1>2, <1>3, <1>4, <1>5, <1>6 DEF IInv

\* What happens without a request: somebody copies, the watcher analyzes, or the
\* configuration is reloaded.
LEMMA OtherIInv ==
  ASSUME IInv, Copy \/ Proactive \/ Reload
  PROVE  IInv'
<1> USE DEF IInv
<1>1. now \in Nat
  BY ServerAssumption DEF Types
<1>2. UNCHANGED <<now, free, pc, req, captured, added, late>>
  BY DEF Copy, Proactive, Reload, ghosts
<1>3. UNCHANGED hist \/ (hist = None /\ hist' = NewHistoryBuffer)
  BY DEF Copy, Proactive, Reload
<1>4. CacheBound' /\ cache' \subseteq Png
  <2>1. CASE Proactive
    <3>1. PICK item \in Png : cache' \in Cached(item)
      BY <2>1 DEF Proactive
    <3> QED BY <3>1, CachedBound DEF Cached, Types
  <2>2. CASE UNCHANGED cache
    BY <2>2 DEF CacheBound, Types
  <2> QED BY <2>1, <2>2 DEF Copy, Reload
<1>5. Types'
  <2>1. clip' \in Item
    BY DEF Copy, Proactive, Reload, Types
  <2>2. hist' \in History \cup {None} /\ (hist' # None => Len(hist'.entries) <= HistorySize)
    BY <1>3, NewHistoryType, HistoryAssumption DEF Types
  <2> QED BY <1>2, <1>4, <2>1, <2>2 DEF Types
<1>6. Slots'
  BY <1>2 DEF Slots, Holders
<1>7. Names'
  <2>1. hist # None => hist' # None
    BY <1>3
  <2>2. ASSUME NEW g \in Handler
        PROVE  Named(g)'
    BY <1>1, <1>2, <2>1, NamedKept DEF Names
  <2>3. DOMAIN NewHistoryBuffer.entries = {} /\ \A i \in Id : NewHistoryBuffer.analyses[i] = None
    BY DEF NewHistoryBuffer
  <2>4. ASSUME NEW g \in Handler
        PROVE  Fresh(g)'
    BY <1>2, <1>3, <2>3 DEF Names, Fresh
  <2>5. HistoryNamed' /\ NothingAhead'
    BY <1>2, <1>3, <2>3 DEF Names, HistoryNamed, NothingAhead
  <2> QED BY <2>2, <2>4, <2>5 DEF Names
<1>8. MetadataIsDropped'
  <2>1. CASE UNCHANGED hist
    BY <1>2, <2>1 DEF MetadataIsDropped, Ids
  <2>2. CASE hist' = NewHistoryBuffer
    BY <2>2 DEF MetadataIsDropped, NewHistoryBuffer
  <2> QED BY <1>3, <2>1, <2>2
<1>9. Few'
  BY <1>2 DEF Few, Behind, Pending
<1> QED BY <1>4, <1>5, <1>6, <1>7, <1>8, <1>9

\* Every step of the endpoint keeps the invariant.
LEMMA NextIInv == IInv /\ [Next]_vars => IInv'
<1> SUFFICES ASSUME IInv, [Next]_vars PROVE IInv'
  OBVIOUS
<1>1. ASSUME NEW h \in Handler, Start(h) \/ Serve(h)
      PROVE  IInv'
  <2> USE DEF IInv
  <2>1. Types'
    <3>1. CASE Start(h)
      BY <3>1, StartTypes
    <3>2. CASE Serve(h)
      <4>1. /\ pc[h] \in {"lookup", "analyze", "add", "annotate", "fetched", "reanalyze"}
                 => req[h].id \in Id /\ req[h].item \in Item
            /\ pc[h] = "annotate" => req[h].analysis \in Item
            /\ pc[h] \in {"annotate", "fetched", "reanalyze"} => hist # None
        BY ServerAssumption DEF Names, Named, Unrecorded, Types
      <4> QED BY <3>2, <4>1, ServeTypes
    <3> QED BY <1>1, <3>1, <3>2
  <2>2. CacheBound'
    <3>1. CASE Analyze(h)
      BY <3>1, CachedBound DEF Analyze, CacheBound
    <3>2. CASE ~Analyze(h)
      <4>1. UNCHANGED cache
        BY <1>1, <3>2 DEF Start, Serve, StartGet, StartPost, Fetch, CheckConcealed, Read, ReadFails,
             LookUp, Record, Annotate, Answer, Write, GetStored, Reanalyze, FetchAnswer, Refuse
      <4> QED BY <4>1 DEF CacheBound
    <3> QED BY <3>1, <3>2
  <2>3. Slots' /\ Names' /\ MetadataIsDropped' /\ Few'
    BY <1>1, StepSlots, StepNames, StepKeeps, StepFew
  <2> QED BY <2>1, <2>2, <2>3
<1>2. CASE UNCHANGED vars
  <2> USE <1>2 DEF vars, ghosts, IInv
  <2>1. Types' /\ CacheBound' /\ Slots' /\ MetadataIsDropped'
    BY DEF Types, CacheBound, Slots, Holders, MetadataIsDropped, Ids
  <2>2. Names'
    BY DEF Names, Named, Fresh, HistoryNamed, NothingAhead
  <2>3. Few'
    BY DEF Few, Behind, Pending
  <2> QED BY <2>1, <2>2, <2>3
<1> QED BY <1>1, <1>2, OtherIInv DEF Next

\* The invariant holds of every behaviour.
THEOREM Invariant == Spec => []IInv
BY InitIInv, NextIInv, PTL DEF Spec

\* Every variable keeps its type: the history is never longer than history.size,
\* the analysis cache never holds more than one image above its limit, and no more
\* slots are given back than there are.
THEOREM Typed == Spec => []TypeOK
<1>1. IInv => TypeOK
  <2> SUFFICES ASSUME IInv PROVE TypeOK
    OBVIOUS
  <2>1. free \in 0..MaxInFlight
    BY ServerAssumption, FS_CardinalityType DEF IInv, Slots
  <2> QED BY <2>1 DEF IInv, Types, CacheBound, TypeOK, Place
<1> QED BY <1>1, Invariant, PTL

\* Whatever a request ended with, its slot of the semaphore is back.
THEOREM SlotsReturned == Spec => []SlotsAreReturned
<1>1. IInv => SlotsAreReturned
  <2> SUFFICES ASSUME IInv, \A h \in Handler : pc[h] = "idle"
               PROVE  free = MaxInFlight
    BY DEF SlotsAreReturned
  <2>1. Holders = {}
    BY DEF Holders, Slotted
  <2> QED BY <2>1, FS_EmptySet, ServerAssumption DEF IInv, Slots
<1> QED BY <1>1, Invariant, PTL

\* However requests, evictions and analyses overlap, an ID stands for what was
\* read at its time, in the history, in the analyses and in what is answered.
THEOREM IdsStayNamed == Spec => []IdsNameTheirRead
<1>1. IInv => IdsNameTheirRead
  BY NamesSuffice DEF IInv
<1> QED BY <1>1, Invariant, PTL

\* The history forgets with an entry what it has stored for it, and all that can be
\* left behind is an analysis that came after the entry had gone.
THEOREM StoredIsDropped == Spec => []MetadataIsDropped
<1>1. IInv => MetadataIsDropped
  BY DEF IInv
<1> QED BY <1>1, Invariant, PTL

\* An entry of the history is overtaken by fewer earlier reads than there are slots.
THEOREM OvertakenByFew == Spec => []FewOvertaken
<1>1. IInv => FewOvertaken
  <2> SUFFICES ASSUME IInv, NEW i \in DOMAIN added
               PROVE  Cardinality(Behind(i)) < MaxInFlight
    BY DEF FewOvertaken, Behind
  <2>1. /\ IsFiniteSet(Behind(i))
        /\ Cardinality(Behind(i)) + Cardinality(Pending(added[i])) < MaxInFlight
    BY DEF IInv, Few
  <2>2. Cardinality(Behind(i)) \in Nat /\ Cardinality(Pending(added[i])) \in Nat
    BY <2>1, FS_CardinalityType, PendingHold DEF IInv
  <2> QED BY <2>1, <2>2, ServerAssumption
<1> QED BY <1>1, Invariant, PTL
=============================================================================
