------------------------------ MODULE RelayServer ------------------------------
(***************************************************************************)
(* The relay server's request handlers and its cleanup goroutine over the  *)
(* in-memory maps (cmd/relay-server/main.go with internal/relay/store.go). *)
(*                                                                         *)
(* Handlers take the server's RWMutex s.mu (mu and readers below).         *)
(* Compact, which the cleanup goroutine calls after it has released s.mu,  *)
(* takes the store's own mutex, which no handler takes: its steps          *)
(* interleave with those of a handler that holds s.mu.  So a handler's     *)
(* critical section is split where a step of Compact can fall in between,  *)
(* and Compact is split at each of its reads and writes of the maps: what  *)
(* it has collected may have changed when it deletes it.                   *)
(* RelayPersistence has the state file.                                    *)
(***************************************************************************)
EXTENDS RelayStore

CONSTANTS
  Handler,        \* goroutines that serve requests
  Cleaner,        \* the cleanup goroutine
  MaxTime,        \* bound on now
  ClockAdvances   \* TRUE: no two reads of the wall clock return the same value

ASSUME ServerAssumption ==
  /\ Cleaner \notin Handler
  /\ None \notin Handler \cup {Cleaner}
  /\ MaxTime \in Nat
  /\ ClockAdvances \in BOOLEAN
  /\ None \notin [blob : Blob, to : Device, via : {"upload", "upload_to"}]

VARIABLES
  now,       \* the server's clock (seconds)
  devices,   \* Devices: registered devices; a device's token stands for it
  blobs,     \* Blobs
  blobIdx,   \* BlobIdx: device -> its latest upload to itself
  inbox,     \* Inbox: receiver -> sender -> blob ID
  boxes,     \* receivers whose inner map Inbox[receiver] exists
  mu,        \* holder of s.mu's write lock, or None
  readers,   \* handlers that hold its read lock across steps
  waiting,   \* the writer that waits for them and keeps new readers out, or None
  pc, req,   \* per handler: where it is, and its request and answer
  cpc,       \* where the cleanup goroutine is
  doomed,    \* Compact's toDelete, what is left of it
  victim,    \* its id, or None
  dids,      \* its idxToDelete
  rest,      \* what its range over Inbox may still produce
  rcv,       \* the receiver it is at, or None
  snds,      \* the senders whose slots it has found to hold victim
  prune,     \* its rcvToPrune
  sent       \* history: the upload each ID was last given to

store    == <<blobs, blobIdx, inbox, boxes>>
lock     == <<mu, readers, waiting>>
cleaning == <<cpc, doomed, victim, dids, rest, rcv, snds, prune>>
vars     == <<now, devices, store, lock, pc, req, cleaning, sent>>

Letter == [blob : Blob, to : Device, via : {"upload", "upload_to"}]

Op == {"none", "register", "upload", "upload_to", "download", "list", "fetch"}

Request == [op     : Op,
            dev    : Device \cup {None},     \* the caller
            peer   : Device \cup {None},     \* the device the path names
            id     : BlobId \cup {None},
            blob   : Blob \cup {None},       \* uploaded, or sent in the answer
            status : {"none", "ok", "unauthorized", "not_found"},
            items  : SUBSET (Device \X BlobId)]

NoRequest == [op |-> "none", dev |-> None, peer |-> None, id |-> None,
              blob |-> None, status |-> "none", items |-> {}]

PC == {"idle", "lock_register", "lock_self", "put_idx", "lock_to", "make_box", "load_box",
       "put_slot", "read_blob", "list", "read_slot", "read_slot_blob",
       "reply", "panicked"}

CPC == {"wait", "scan", "delete", "index", "unindex", "range", "visit", "clear",
        "count", "prune"}

TypeOK ==
  /\ now \in 0..MaxTime
  /\ devices \subseteq Device
  /\ blobs \in BlobMap
  /\ blobIdx \in IdxMap
  /\ inbox \in InboxMap
  /\ boxes \subseteq Device
  /\ mu \in Handler \cup {None}
  /\ readers \subseteq Handler
  /\ waiting \in Handler \cup {Cleaner, None}
  /\ pc \in [Handler -> PC]
  /\ req \in [Handler -> Request]
  /\ cpc \in CPC
  /\ doomed \subseteq BlobId
  /\ victim \in BlobId \cup {None}
  /\ dids \subseteq Device
  /\ rest \subseteq Device
  /\ rcv \in Device \cup {None}
  /\ rcv # None <=> cpc \in {"clear", "count"}
  /\ snds \subseteq Device
  /\ prune \subseteq Device
  /\ sent \in [BlobId -> Letter \cup {None}]

Init ==
  /\ now = 0
  /\ devices = {}
  /\ blobs = [id \in BlobId |-> None]
  /\ blobIdx = [d \in Device |-> None]
  /\ inbox = [r \in Device |-> EmptyBox]
  /\ boxes = {}
  /\ mu = None
  /\ readers = {}
  /\ waiting = None
  /\ pc = [h \in Handler |-> "idle"]
  /\ req = [h \in Handler |-> NoRequest]
  /\ cpc = "wait"
  /\ doomed = {}
  /\ victim = None
  /\ dids = {}
  /\ rest = {}
  /\ rcv = None
  /\ snds = {}
  /\ prune = {}
  /\ sent = [id \in BlobId |-> None]

-----------------------------------------------------------------------------
\* s.mu is Go's RWMutex.  A writer that finds readers announces itself, one
\* writer at a time, and holds later readers up until it has had the lock.
CanRLock    == mu = None /\ waiting = None
CanLock(w)  == mu = None /\ readers = {} /\ waiting \in {w, None}
Lock(h)     == CanLock(h) /\ mu' = h /\ waiting' = None /\ UNCHANGED readers
CanAnnounce == mu = None /\ readers # {} /\ waiting = None

Goto(h, to) == pc' = [pc EXCEPT ![h] = to]

Answer(h, r) == Goto(h, "reply") /\ req' = [req EXCEPT ![h] = r]

\* The Tokens lookup every authenticated handler starts with: 401 for a caller
\* that is not registered, else on to the step named.
Authenticate(h, r, next) ==
  /\ pc[h] = "idle"
  /\ CanRLock
  /\ \/ r.dev \in devices /\ Goto(h, next) /\ req' = [req EXCEPT ![h] = r]
     \/ r.dev \notin devices /\ Answer(h, [r EXCEPT !.status = "unauthorized",
                                                    !.id = None, !.blob = None])
  /\ UNCHANGED <<now, devices, store, lock, cleaning>>

\* generateBlobID: the wall clock in nanoseconds, read outside the lock.
FreshId(id) == ClockAdvances => sent[id] = None

\* Both uploads: authenticate, check the body, name the blob.
BeginUpload(h, op, d, r, next) ==
  \E id \in BlobId, ts \in Timestamp, ttl \in TTL :
    LET blob == [sender |-> d, timestamp |-> ts, ttl |-> ttl]
    IN  /\ FreshId(id)
        /\ Authenticate(h, [NoRequest EXCEPT !.op = op, !.dev = d, !.peer = r,
                                             !.id = id, !.blob = blob], next)
        /\ sent' = IF d \notin devices THEN sent
                   ELSE [sent EXCEPT ![id] = [blob |-> blob, to |-> r, via |-> op]]

\* handleRegister holds s.mu from the lookup to the answer.
BeginRegister(h, d) ==
  /\ pc[h] = "idle"
  /\ Goto(h, "lock_register")
  /\ req' = [req EXCEPT ![h] = [NoRequest EXCEPT !.op = "register", !.dev = d]]
  /\ UNCHANGED <<now, devices, store, lock, cleaning, sent>>

Register(h) ==
  /\ pc[h] = "lock_register"
  /\ CanLock(h)
  /\ waiting' = None
  /\ devices' = devices \cup {req[h].dev}
  /\ Answer(h, [req[h] EXCEPT !.status = "ok"])
  /\ UNCHANGED <<now, store, mu, readers, cleaning, sent>>

\* A handler that wants s.mu for writing while others read.
Announce(h) ==
  /\ pc[h] \in {"lock_register", "lock_self", "lock_to"}
  /\ CanAnnounce
  /\ waiting' = h
  /\ UNCHANGED <<now, devices, store, mu, readers, pc, req, cleaning, sent>>

-----------------------------------------------------------------------------
\* handleUpload: a blob for the sender itself.
BeginUploadSelf(h, d) == BeginUpload(h, "upload", d, d, "lock_self")

PutBlob(h) == blobs' = [blobs EXCEPT ![req[h].id] = req[h].blob]

LockSelf(h) ==
  /\ pc[h] = "lock_self"
  /\ Lock(h)
  /\ PutBlob(h)
  /\ Goto(h, "put_idx")
  /\ UNCHANGED <<now, devices, blobIdx, inbox, boxes, req, cleaning, sent>>

PutIdx(h) ==
  /\ pc[h] = "put_idx"
  /\ blobIdx' = [blobIdx EXCEPT ![req[h].dev] = req[h].id]
  /\ mu' = None
  /\ Answer(h, [req[h] EXCEPT !.status = "ok"])
  /\ UNCHANGED <<now, devices, blobs, inbox, boxes, readers, waiting, cleaning, sent>>

\* handleDownload: anyone; two critical sections.
ReadIdx(h, d) ==
  /\ pc[h] = "idle"
  /\ CanRLock
  /\ LET r == [NoRequest EXCEPT !.op = "download", !.peer = d, !.id = blobIdx[d]]
     IN  IF blobIdx[d] = None
         THEN Answer(h, [r EXCEPT !.status = "not_found"])
         ELSE Goto(h, "read_blob") /\ req' = [req EXCEPT ![h] = r]
  /\ UNCHANGED <<now, devices, store, lock, cleaning, sent>>

\* The answer to a read of the blob that was looked up.
AnswerBlob(h) ==
  LET blob == IF req[h].id = None THEN None ELSE blobs[req[h].id]
  IN  Answer(h, [req[h] EXCEPT !.blob = blob,
                               !.status = IF blob = None THEN "not_found" ELSE "ok"])

ReadBlob(h) ==
  /\ pc[h] = "read_blob"
  /\ CanRLock
  /\ AnswerBlob(h)
  /\ UNCHANGED <<now, devices, store, lock, cleaning, sent>>

-----------------------------------------------------------------------------
\* handleUploadTo.
BeginUploadTo(h, d, r) == BeginUpload(h, "upload_to", d, r, "lock_to")

LockTo(h) ==
  /\ pc[h] = "lock_to"
  /\ Lock(h)
  /\ PutBlob(h)
  /\ Goto(h, "make_box")
  /\ UNCHANGED <<now, devices, blobIdx, inbox, boxes, req, cleaning, sent>>

\* if Inbox[receiver] == nil, make it.
MakeBox(h) ==
  /\ pc[h] = "make_box"
  /\ boxes' = boxes \cup {req[h].peer}
  /\ Goto(h, "load_box")
  /\ UNCHANGED <<now, devices, blobs, blobIdx, inbox, lock, req, cleaning, sent>>

\* Inbox[receiver][sender] = id loads the inner map and then assigns to it.  A
\* nil inner map panics; net/http recovers the handler, which never unlocks s.mu.
LoadBox(h) ==
  /\ pc[h] = "load_box"
  /\ Goto(h, IF req[h].peer \in boxes THEN "put_slot" ELSE "panicked")
  /\ UNCHANGED <<now, devices, store, lock, req, cleaning, sent>>

\* The assignment and the cap; it is lost if Compact took the map out of Inbox.
PutSlot(h) ==
  LET r == req[h].peer IN
  /\ pc[h] = "put_slot"
  /\ \/ /\ r \in boxes
        /\ \E box \in PutResults(inbox[r], req[h].dev, req[h].id) :
             inbox' = [inbox EXCEPT ![r] = box]
     \/ r \notin boxes /\ UNCHANGED inbox
  /\ mu' = None
  /\ Answer(h, [req[h] EXCEPT !.status = "ok"])
  /\ UNCHANGED <<now, devices, blobs, blobIdx, boxes, readers, waiting, cleaning, sent>>

-----------------------------------------------------------------------------
\* handleInboxList: the entries whose blob exists.
BeginList(h, d) ==
  /\ Authenticate(h, [NoRequest EXCEPT !.op = "list", !.dev = d], "list")
  /\ UNCHANGED sent

PendingAll(box) == {<<s, box[s]>> : s \in Device}   \* a mistaken variant

Pending(box) == {<<s, box[s]>> : s \in {t \in Senders(box) : blobs[box[t]] # None}}

ListInbox(h) ==
  /\ pc[h] = "list"
  /\ CanRLock
  /\ Answer(h, [req[h] EXCEPT !.status = "ok", !.items = Pending(inbox[req[h].dev])])
  /\ UNCHANGED <<now, devices, store, lock, cleaning, sent>>

\* handleInboxFetch: both lookups under one read lock, which does not keep
\* Compact out.
BeginFetch(h, d, s) ==
  /\ Authenticate(h, [NoRequest EXCEPT !.op = "fetch", !.dev = d, !.peer = s],
                  "read_slot")
  /\ UNCHANGED sent

\* A mistaken variant: the two names swapped.
ReadSlotSwapped(h) ==
  /\ pc[h] = "read_slot"
  /\ CanRLock
  /\ readers' = readers \cup {h}
  /\ Goto(h, "read_slot_blob")
  /\ req' = [req EXCEPT ![h].id = inbox[req[h].peer][req[h].dev]]
  /\ UNCHANGED <<now, devices, store, mu, waiting, cleaning, sent>>

ReadSlot(h) ==
  /\ pc[h] = "read_slot"
  /\ CanRLock
  /\ readers' = readers \cup {h}
  /\ Goto(h, "read_slot_blob")
  /\ req' = [req EXCEPT ![h].id = inbox[req[h].dev][req[h].peer]]
  /\ UNCHANGED <<now, devices, store, mu, waiting, cleaning, sent>>

\* A mistaken variant: the return for a missing blob skips RUnlock.
ReadSlotBlobKeepsLock(h) ==
  /\ pc[h] = "read_slot_blob"
  /\ readers' = IF req[h].id = None THEN readers ELSE readers \ {h}
  /\ AnswerBlob(h)
  /\ UNCHANGED <<now, devices, store, mu, waiting, cleaning, sent>>

ReadSlotBlob(h) ==
  /\ pc[h] = "read_slot_blob"
  /\ readers' = readers \ {h}
  /\ AnswerBlob(h)
  /\ UNCHANGED <<now, devices, store, mu, waiting, cleaning, sent>>

\* The answer reaches the client and the goroutine is done.
Reply(h) ==
  /\ pc[h] = "reply"
  /\ Goto(h, "idle")
  /\ req' = [req EXCEPT ![h] = NoRequest]
  /\ UNCHANGED <<now, devices, store, lock, cleaning, sent>>

-----------------------------------------------------------------------------
\* The ticker fires and the cleanup goroutine finds s.mu held by readers.
AnnounceCleaner ==
  /\ cpc = "wait"
  /\ CanAnnounce
  /\ waiting' = Cleaner
  /\ UNCHANGED <<now, devices, store, mu, readers, pc, req, cleaning, sent>>

\* cleanupExpiredBlobs: one tick.  Inner maps found empty go while an expired
\* blob is removed; without one, none is looked at.
CleanExpired ==
  LET dead == ExpiredIds(blobs, now)
      left == InboxWithout(inbox, dead)
  IN  /\ cpc = "wait"
      /\ CanLock(Cleaner)
      /\ waiting' = None
      /\ blobs' = BlobsWithout(blobs, dead)
      /\ blobIdx' = RefsWithout(blobIdx, dead)
      /\ inbox' = left
      /\ boxes' = IF dead = {} THEN boxes
                  ELSE {r \in boxes : Senders(left[r]) # {}}
      /\ cpc' = "scan"
      /\ UNCHANGED <<now, devices, mu, readers, pc, req, doomed, victim, dids, rest,
                     rcv, snds, prune, sent>>

\* Compact, under the store's mutex only: none of its steps waits for s.mu.
CompactScan ==
  /\ cpc = "scan"
  /\ doomed' = ExpiredIds(blobs, now)
  /\ cpc' = IF ExpiredIds(blobs, now) = {} THEN "wait" ELSE "delete"
  /\ UNCHANGED <<now, devices, store, lock, pc, req, victim, dids, rest, rcv, snds,
                 prune, sent>>

\* The blob of one ID of toDelete.
CompactBlob(id) ==
  /\ cpc = "delete"
  /\ id \in doomed
  /\ doomed' = doomed \ {id}
  /\ victim' = id
  /\ blobs' = BlobsWithout(blobs, {id})
  /\ cpc' = "index"
  /\ UNCHANGED <<now, devices, blobIdx, inbox, boxes, lock, pc, req, dids, rest, rcv,
                 snds, prune, sent>>

\* The devices whose BlobIdx entry is that ID are collected,
CompactCollect ==
  /\ cpc = "index"
  /\ dids' = {d \in Device : blobIdx[d] = victim}
  /\ cpc' = IF dids' = {} THEN "range" ELSE "unindex"
  /\ UNCHANGED <<now, devices, store, lock, pc, req, doomed, victim, rest, rcv, snds,
                 prune, sent>>

\* and their entries deleted, whatever these hold now.
CompactUnindex ==
  /\ cpc = "unindex"
  /\ blobIdx' = [d \in Device |-> IF d \in dids THEN None ELSE blobIdx[d]]
  /\ dids' = {}
  /\ cpc' = "range"
  /\ UNCHANGED <<now, devices, blobs, inbox, boxes, lock, pc, req, doomed, victim,
                 rest, rcv, snds, prune, sent>>

\* The range over Inbox: an inner map that a handler adds while it lasts may be
\* produced or not.
CompactRange ==
  /\ cpc = "range"
  /\ \E late \in SUBSET (Device \ boxes) : rest' = boxes \cup late
  /\ cpc' = "visit"
  /\ UNCHANGED <<now, devices, store, lock, pc, req, doomed, victim, dids, rcv, snds,
                 prune, sent>>

\* The slots of one receiver that hold the ID: one at most, as IDs are unique.
CompactVisit(r) ==
  /\ cpc = "visit"
  /\ r \in rest \cap boxes
  /\ rest' = rest \ {r}
  /\ rcv' = r
  /\ snds' = {s \in Device : inbox[r][s] = victim}
  /\ cpc' = IF snds' = {} THEN "count" ELSE "clear"
  /\ UNCHANGED <<now, devices, store, lock, pc, req, doomed, victim, dids, prune, sent>>

\* They are deleted, whatever they hold now.
CompactClear ==
  /\ cpc = "clear"
  /\ inbox' = [inbox EXCEPT ![rcv] = [s \in Device |->
                                        IF s \in snds THEN None ELSE inbox[rcv][s]]]
  /\ snds' = {}
  /\ cpc' = "count"
  /\ UNCHANGED <<now, devices, blobs, blobIdx, boxes, lock, pc, req, doomed, victim,
                 dids, rest, rcv, prune, sent>>

\* len(senders) == 0.
CompactCount ==
  /\ cpc = "count"
  /\ prune' = IF Senders(inbox[rcv]) = {} THEN prune \cup {rcv} ELSE prune
  /\ rcv' = None
  /\ cpc' = "visit"
  /\ UNCHANGED <<now, devices, store, lock, pc, req, doomed, victim, dids, rest, snds,
                 sent>>

CompactRangeEnds ==
  /\ cpc = "visit"
  /\ rest \cap boxes = {}
  /\ rest' = {}
  /\ cpc' = "prune"
  /\ UNCHANGED <<now, devices, store, lock, pc, req, doomed, victim, dids, rcv, snds,
                 prune, sent>>

\* delete(Inbox, rcv) of a receiver that was collected, whatever its map holds now.
CompactPrune(r) ==
  /\ cpc = "prune"
  /\ r \in prune
  /\ prune' = prune \ {r}
  /\ boxes' = boxes \ {r}
  /\ inbox' = [inbox EXCEPT ![r] = EmptyBox]
  /\ UNCHANGED <<now, devices, blobs, blobIdx, lock, pc, req, cpc, doomed, victim, dids,
                 rest, rcv, snds, sent>>

\* On to the next ID, or Compact is done.
CompactNext ==
  /\ cpc = "prune"
  /\ prune = {}
  /\ victim' = None
  /\ cpc' = IF doomed = {} THEN "wait" ELSE "delete"
  /\ UNCHANGED <<now, devices, store, lock, pc, req, doomed, dids, rest, rcv, snds,
                 prune, sent>>

Tick ==
  /\ now < MaxTime
  /\ now' = now + 1
  /\ UNCHANGED <<devices, store, lock, pc, req, cleaning, sent>>

-----------------------------------------------------------------------------
\* What clients ask for.
Arrive(h) ==
  \E d \in Device :
    \/ BeginRegister(h, d)
    \/ BeginUploadSelf(h, d)
    \/ ReadIdx(h, d)
    \/ BeginList(h, d)
    \/ \E e \in Device : BeginUploadTo(h, d, e) \/ BeginFetch(h, d, e)

\* Steps that wait for s.mu, and steps that do not.
Acquire(h) == Announce(h) \/ Register(h) \/ LockSelf(h) \/ LockTo(h)
                \/ ReadBlob(h) \/ ListInbox(h) \/ ReadSlot(h)
Proceed(h) == PutIdx(h) \/ MakeBox(h) \/ LoadBox(h) \/ PutSlot(h)
                \/ ReadSlotBlob(h) \/ Reply(h)

Compact ==
  \/ CompactScan
  \/ \E id \in BlobId : CompactBlob(id)
  \/ CompactCollect \/ CompactUnindex
  \/ CompactRange
  \/ \E r \in Device : CompactVisit(r)
  \/ CompactClear \/ CompactCount \/ CompactRangeEnds
  \/ \E r \in Device : CompactPrune(r)
  \/ CompactNext

Next ==
  \/ \E h \in Handler : Arrive(h) \/ Acquire(h) \/ Proceed(h)
  \/ AnnounceCleaner \/ CleanExpired
  \/ Compact
  \/ Tick

Spec == Init /\ [][Next]_vars

\* Every started goroutine is scheduled; Go's RWMutex starves neither readers
\* nor writers; the ticker keeps firing and time passes.  Clients owe nothing.
Fairness ==
  /\ \A h \in Handler : WF_vars(Proceed(h)) /\ SF_vars(Acquire(h))
  /\ SF_vars(AnnounceCleaner \/ CleanExpired)
  /\ WF_vars(Compact)
  /\ WF_vars(Tick)

FairSpec == Spec /\ Fairness

-----------------------------------------------------------------------------
\* An ID was given to an upload of s to r, by the handler named.
IsLetter(id, s, r, via) ==
  sent[id] # None /\ sent[id].blob.sender = s /\ sent[id].to = r /\ sent[id].via = via

RightAnswer(r) ==
  /\ r.op = "fetch" => IsLetter(r.id, r.peer, r.dev, "upload_to") /\ r.blob = sent[r.id].blob
  /\ r.op = "download" => IsLetter(r.id, r.peer, r.peer, "upload") /\ r.blob = sent[r.id].blob
  /\ r.op = "list" => \A item \in r.items : IsLetter(item[2], item[1], r.dev, "upload_to")

\* What is answered is what the one named sent, and to whom: a fetch returns what
\* the named sender uploaded to the caller, a listing names what each sender it
\* names uploaded to the caller, and a download is what the named device uploaded
\* to itself, whoever asks for it: handleDownload looks at no token, although
\* main.go:64 says that it requires auth.  The lookups are in several steps and IDs
\* are clock readings, so this needs IDs to be unique.
AnswerIsTheSenders ==
  \A h \in Handler : pc[h] = "reply" /\ req[h].status = "ok" => RightAnswer(req[h])

\* A reference to a blob that is not there only ever remains of one whose TTL is
\* over, or does not fit into a Duration: any other upload can be fetched as long
\* as it is referenced, whatever Compact does beside its handler.
DanglingOnlyExpired ==
  \A id \in BlobId, d \in Device :
    blobs[id] = None /\ (blobIdx[d] = id \/ \E s \in Device : inbox[d][s] = id)
      => sent[id] # None /\ MayGo(sent[id].blob, now)

\* No receiver's inbox ever has more than maxInboxPerDevice entries.
InboxWithinCap == \A r \in Device : Cardinality(Senders(inbox[r])) <= MaxInbox

\* A blob leaves the store only after its TTL, unless that is one of those that
\* time.Duration(TTL) * time.Second does not hold.
DropsOnlyExpired ==
  [][\A id \in BlobId : blobs[id] # None /\ blobs'[id] = None
                           => MayGo(blobs[id], now)]_vars

\* Compact is "Safe to call periodically" (store.go:204): running it beside the
\* handlers makes none of them panic.  One that does, in handleUploadTo, leaves
\* s.mu locked for good.
NoHandlerPanics == \A h \in Handler : pc[h] # "panicked"

Stuck == ~NoHandlerPanics

\* Every request is answered, unless a handler has panicked with s.mu held.
RequestsAreAnswered ==
  \A h \in Handler : pc[h] # "idle" ~> (pc[h] = "idle" \/ Stuck)

\* Every expired blob is eventually removed from memory, unless the same.
ExpiredBlobsAreRemoved ==
  \A id \in BlobId :
    (blobs[id] # None /\ Expired(sent[id].blob, now)) ~> (blobs[id] = None \/ Stuck)

-----------------------------------------------------------------------------
\* The mail that can be fetched, the mail whose handler is done placing it, and the
\* mail whose time to live is over, or none that the relay can count.
Fetchable == [r \in Device |-> [s \in Device |->
                IF inbox[r][s] = None \/ blobs[inbox[r][s]] = None THEN None
                ELSE inbox[r][s]]]

Placed == {id \in BlobId : sent[id] # None /\ sent[id].via = "upload_to"
             /\ \A h \in Handler : req[h].id = id /\ req[h].op = "upload_to"
                                      => pc[h] = "reply"}

Stale == {id \in BlobId : sent[id] # None /\ MayGo(sent[id].blob, now)}

Mailbox == INSTANCE RelayMailbox
             WITH Mail <- BlobId, Cap <- MaxInbox, slot <- Fetchable, used <- Placed,
                  stale <- Stale

\* The handlers and the cleanup goroutine implement the mailbox: newest upload
\* per sender, never an older one again, eviction only from a full inbox.
ImplementsMailbox == Mailbox!Spec
=============================================================================
