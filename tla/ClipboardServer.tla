---------------------------- MODULE ClipboardServer ----------------------------
(***************************************************************************)
(* The daemon's /clipboard endpoint and its history: GET and POST          *)
(* /clipboard, and GET /clipboard/history/{id} (internal/server/           *)
(* handlers.go), with the analysis cache and the reload of server.go.      *)
(*                                                                         *)
(* Every request has a goroutine.  A GET or a POST first takes a slot of   *)
(* the semaphore and is refused at once when there is none.  A read holds  *)
(* s.mu from the call of the platform's tool to the time of capture, which *)
(* is the entry's ID; analysis, embedding and the history come after it,   *)
(* each under a mutex of its own or none, so a handler may overtake        *)
(* another.  Reads and writes of the OS clipboard are single steps, and    *)
(* other programs copy at any time.  What a request is refused for (rate,  *)
(* token, permission, the concealed mark, size, format, a blocking rule, a *)
(* failing tool or processor) is a free choice: the mark is looked up in a *)
(* step of its own, and says nothing of what is read after it.  An item    *)
(* that is redacted or processed keeps its name.                           *)
(***************************************************************************)
EXTENDS HistoryBuffer

CONSTANTS
  Handler,      \* goroutines that serve a request
  Png,          \* the items that are images
  Embeddable,   \* those of which the recall command may make an embedding
  MaxInFlight,  \* max_in_flight
  MaxCache,     \* entries above which the analysis cache evicts, 50
  MaxTime       \* bound on the reads

ASSUME ServerAssumption ==
  /\ Id = 1..MaxTime
  /\ Png \subseteq Item /\ Embeddable \subseteq Item
  /\ MaxInFlight \in Nat \ {0} /\ MaxCache \in Nat /\ MaxTime \in Nat

VARIABLES
  now,       \* the time, in reads
  clip,      \* the OS clipboard
  free,      \* slots in the semaphore
  hist,      \* s.history, None when it is disabled
  cache,     \* analysisCache: the images it has an analysis of
  pc, req,   \* per handler: where it is and what it works with
  captured,  \* history: what was read at a time
  added,     \* history: the IDs in the order in which they were added
  late       \* history: IDs that got an analysis when they had no entry

ghosts == <<captured, added, late>>
vars == <<now, clip, free, hist, cache, pc, req, ghosts>>

Request == [item : Item \cup {None}, id : Id \cup {None}, analysis : Item \cup {None}]

NoRequest == [item |-> None, id |-> None, analysis |-> None]

TypeOK ==
  /\ now \in 0..MaxTime
  /\ clip \in Item
  /\ free \in 0..MaxInFlight
  /\ hist \in History \cup {None}
  /\ hist # None => Len(hist.entries) <= HistorySize
  /\ cache \subseteq Png
  /\ Cardinality(cache) <= MaxCache + 1
  /\ pc \in [Handler -> {"idle", "check", "read", "lookup", "analyze", "add", "annotate",
                         "answer", "write", "fetched", "reanalyze", "fetchanswer"}]
  /\ req \in [Handler -> Request]
  /\ captured \in [Id -> Item \cup {None}]
  /\ added \in Seq(Id) /\ late \subseteq Id

\* The history is created at the start when it is enabled.
Init ==
  /\ now = 0
  /\ clip \in Item
  /\ free = MaxInFlight
  /\ hist \in {None, NewHistoryBuffer}
  /\ cache = {}
  /\ pc = [h \in Handler |-> "idle"]
  /\ req = [h \in Handler |-> NoRequest]
  /\ captured = [i \in Id |-> None]
  /\ added = <<>> /\ late = {}

-----------------------------------------------------------------------------
GoTo(h, place) == pc' = [pc EXCEPT ![h] = place]

\* The handler is done.
Finish(h) == GoTo(h, "idle") /\ req' = [req EXCEPT ![h] = NoRequest]

\* The deferred send puts the slot back, whatever the handler returns with.
Return(h) == Finish(h) /\ free' = free + 1

\* A mistaken variant: the semaphore is looked at but nothing is taken.
AcquireNothing == free > 0 /\ UNCHANGED free

\* The select that refuses with CB4002 when there is no slot.
Acquire == free > 0 /\ free' = free - 1

\* GET /clipboard.
StartGet(h) ==
  /\ pc[h] = "idle"
  /\ Acquire
  /\ GoTo(h, "check")
  /\ UNCHANGED <<now, clip, hist, cache, req, ghosts>>

\* Rate limit, token or permission; a concealed item; or a POST's content.
Refuse(h) ==
  /\ pc[h] \in {"check", "write"}
  /\ Return(h)
  /\ UNCHANGED <<now, clip, hist, cache, ghosts>>

\* The concealed filter lets the request pass: the item has no mark, the detector
\* fails, or the filter is off.
CheckConcealed(h) ==
  /\ pc[h] = "check"
  /\ GoTo(h, "read")
  /\ UNCHANGED <<now, clip, free, hist, cache, req, ghosts>>

\* A mistaken variant: an early return without the slot.
ReadFailsKeeping(h) ==
  /\ pc[h] = "read"
  /\ Finish(h)
  /\ UNCHANGED <<now, clip, free, hist, cache, ghosts>>

\* The tool, a limit, a rule or a processor ends the read.
ReadFails(h) ==
  /\ pc[h] = "read"
  /\ Return(h)
  /\ UNCHANGED <<now, clip, hist, cache, ghosts>>

\* What s.mu protects: the read, the redaction and the time of capture.
Read(h) ==
  /\ pc[h] = "read"
  /\ now < MaxTime
  /\ now' = now + 1
  /\ req' = [req EXCEPT ![h].item = clip, ![h].id = now']
  /\ captured' = [captured EXCEPT ![now'] = clip]
  /\ GoTo(h, "lookup")
  /\ UNCHANGED <<clip, free, hist, cache, added, late>>

-----------------------------------------------------------------------------
\* lookupCachedAnalysis.
LookUp(h) ==
  /\ pc[h] = "lookup"
  /\ IF req[h].item \in cache
     THEN req' = [req EXCEPT ![h].analysis = req[h].item] /\ GoTo(h, "add")
     ELSE GoTo(h, "analyze") /\ UNCHANGED req
  /\ UNCHANGED <<now, clip, free, hist, cache, ghosts>>

\* cacheAnalysis evicts an arbitrary entry of a cache that is over the limit.
Cached(item) ==
  IF Cardinality(cache) > MaxCache THEN {(cache \ {old}) \cup {item} : old \in cache}
  ELSE {cache \cup {item}}

\* The analysis commands run without any lock; there is no analysis of a text.
Analyze(h) ==
  /\ pc[h] = "analyze"
  /\ \/ /\ req[h].item \in Png
        /\ req' = [req EXCEPT ![h].analysis = req[h].item]
        /\ cache' \in Cached(req[h].item)
     \/ UNCHANGED <<req, cache>>
  /\ GoTo(h, "add")
  /\ UNCHANGED <<now, clip, free, hist, ghosts>>

\* A mistaken variant: the ID is made from the time of the addition.
RecordLate(h) ==
  /\ pc[h] = "add"
  /\ IF hist = None THEN UNCHANGED <<hist, req, added>>
     ELSE /\ hist' = Add(hist, now, req[h].item, FALSE)
          /\ req' = [req EXCEPT ![h].id = now]
          /\ added' = Append(added, now)
  /\ GoTo(h, IF hist = None \/ req[h].analysis = None THEN "answer" ELSE "annotate")
  /\ UNCHANGED <<now, clip, free, cache, captured, late>>

\* HistoryBuffer.Add, with an embedding if there is one, cached or new.
Record(h) ==
  /\ pc[h] = "add"
  /\ IF hist = None
     THEN req' = [req EXCEPT ![h].id = None] /\ UNCHANGED <<hist, added>>
     ELSE /\ \E embedded \in BOOLEAN :
               /\ embedded => req[h].item \in Embeddable
               /\ hist' = Add(hist, req[h].id, req[h].item, embedded)
          /\ added' = Append(added, req[h].id)
          /\ UNCHANGED req
  /\ GoTo(h, IF hist = None \/ req[h].analysis = None THEN "answer" ELSE "annotate")
  /\ UNCHANGED <<now, clip, free, cache, captured, late>>

SetStored(h, analysis) ==
  /\ hist' = SetAnalysis(hist, req[h].id, analysis)
  /\ late' = IF req[h].id \in Ids(hist) THEN late ELSE late \cup {req[h].id}

\* SetAnalysis, when the entry may have been evicted already.
Annotate(h) ==
  /\ pc[h] = "annotate"
  /\ SetStored(h, req[h].analysis)
  /\ GoTo(h, "answer")
  /\ UNCHANGED <<now, clip, free, cache, req, captured, added>>

\* The watchers are notified, and the client gets its answer.
Answer(h) ==
  /\ pc[h] = "answer"
  /\ Return(h)
  /\ UNCHANGED <<now, clip, hist, cache, ghosts>>

-----------------------------------------------------------------------------
\* POST /clipboard.
StartPost(h) ==
  /\ pc[h] = "idle"
  /\ Acquire
  /\ GoTo(h, "write")
  /\ UNCHANGED <<now, clip, hist, cache, req, ghosts>>

\* The write does not hold s.mu.  The push to the relay's peers goes on in a
\* goroutine of its own.
Write(h) ==
  /\ pc[h] = "write"
  /\ clip' \in Item
  /\ Return(h)
  /\ UNCHANGED <<now, hist, cache, ghosts>>

\* GET /clipboard/history/{id} takes no slot.
Fetch(h) ==
  /\ pc[h] = "idle"
  /\ hist # None
  /\ \E id \in Id : \E e \in Get(hist, id, now) :
       /\ req' = [req EXCEPT ![h].id = id, ![h].item = e.item]
       /\ GoTo(h, IF e.item \in Png THEN "fetched" ELSE "fetchanswer")
  /\ UNCHANGED <<now, clip, free, hist, cache, ghosts>>

\* GetAnalysis.
GetStored(h) ==
  /\ pc[h] = "fetched"
  /\ LET analysis == hist.analyses[req[h].id]
     IN  /\ req' = [req EXCEPT ![h].analysis = analysis]
         /\ GoTo(h, IF analysis = None THEN "reanalyze" ELSE "fetchanswer")
  /\ UNCHANGED <<now, clip, free, hist, cache, ghosts>>

\* The commands run again; the entry may be gone when they are done.
Reanalyze(h) ==
  /\ pc[h] = "reanalyze"
  /\ \/ /\ req' = [req EXCEPT ![h].analysis = req[h].item]
        /\ SetStored(h, req[h].item)
     \/ UNCHANGED <<req, hist, late>>
  /\ GoTo(h, "fetchanswer")
  /\ UNCHANGED <<now, clip, free, cache, captured, added>>

FetchAnswer(h) ==
  /\ pc[h] = "fetchanswer"
  /\ Finish(h)
  /\ UNCHANGED <<now, clip, free, hist, cache, ghosts>>

-----------------------------------------------------------------------------
\* The user or a program copies something.
Copy ==
  /\ clip' \in Item
  /\ UNCHANGED <<now, free, hist, cache, pc, req, ghosts>>

\* The analysis of an image that the clipboard watcher has started is ready.
Proactive ==
  /\ \E item \in Png : cache' \in Cached(item)
  /\ UNCHANGED <<now, clip, free, hist, pc, req, ghosts>>

\* reloadConfig creates a history that was disabled; it never drops one.
Reload ==
  /\ hist = None
  /\ hist' = NewHistoryBuffer
  /\ UNCHANGED <<now, clip, free, cache, pc, req, ghosts>>

Start(h) == StartGet(h) \/ StartPost(h) \/ Fetch(h)

\* A step of a handler that has a request.
Serve(h) ==
  \/ CheckConcealed(h) \/ Read(h) \/ ReadFails(h) \/ LookUp(h) \/ Analyze(h) \/ Record(h)
  \/ Annotate(h) \/ Answer(h) \/ Write(h) \/ GetStored(h) \/ Reanalyze(h) \/ FetchAnswer(h)
  \/ Refuse(h)

Next == (\E h \in Handler : Start(h) \/ Serve(h)) \/ Copy \/ Proactive \/ Reload

Spec == Init /\ [][Next]_vars

-----------------------------------------------------------------------------
\* The history is in the order of the additions, not of the reads, and evicts in
\* that order: but an entry is never followed by more entries that were read
\* before it than there may be other reads in flight.
FewOvertaken ==
  \A i \in DOMAIN added :
    Cardinality({j \in DOMAIN added : j > i /\ added[j] < added[i]}) < MaxInFlight

\* Whatever handlers run at the same time, an ID stands for what was read at its
\* time: in the history, in its analyses and in what a client is answered.
IdsNameTheirRead ==
  /\ hist # None =>
       /\ \A e \in ToSet(hist.entries) : e.item = captured[e.id]
       /\ IsInjective([i \in DOMAIN hist.entries |-> hist.entries[i].id])
       /\ \A i \in Id : hist.analyses[i] \in {None, captured[i]}
  /\ \A h \in Handler :
       pc[h] \in {"answer", "fetchanswer"} /\ req[h].id # None =>
         /\ req[h].item = captured[req[h].id]
         /\ req[h].analysis \in {None, req[h].item}

\* "so they do not grow unbounded": nothing is stored for an ID without an entry,
\* except the analyses that were stored after the entry had been evicted.
MetadataIsDropped ==
  hist # None =>
    /\ hist.vectors \subseteq Ids(hist)
    /\ {i \in Id : hist.analyses[i] # None} \subseteq Ids(hist) \cup late

\* However the requests ended, when none is being served all slots are free.
SlotsAreReturned == (\A h \in Handler : pc[h] = "idle") => free = MaxInFlight
=============================================================================
