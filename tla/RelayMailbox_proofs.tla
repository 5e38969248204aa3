-------------------------- MODULE RelayMailbox_proofs --------------------------
(***************************************************************************)
(* The relay server implements RelayMailbox: for every number of devices,  *)
(* blobs and handlers and every TTL, each step of a handler, of the        *)
(* cleanup or of Compact is a step of the mailbox or none.                 *)
(***************************************************************************)
EXTENDS RelayServer_proofs

\* A handler that has mail of its own: an upload to an inbox, with its ID.
Carries(h) == req[h].op = "upload_to" /\ req[h].id # None

Placing == {"lock_to", "make_box", "load_box", "put_slot"}

\* Beside Inv: each upload to an inbox has an ID of its own, which no inbox holds
\* before its handler writes it there; the box it writes to is gone only while
\* there is stale mail; what Compact is removing is stale, and the slots it is
\* about to delete are of one sender, where it has found placed mail.
IdleIsBlank == \A h \in Handler : pc[h] = "idle" => req[h] = NoRequest

OwnMail ==
  /\ \A h \in Handler : Carries(h) => sent[req[h].id] # None
  /\ \A g, h \in Handler : Carries(g) /\ Carries(h) /\ req[g].id = req[h].id => g = h

NotYetThere ==
  \A h \in Handler : Carries(h) /\ pc[h] # "reply"
                        => \A r, s \in Device : inbox[r][s] # req[h].id

BoxThereOrStale ==
  \A h \in Handler : pc[h] \in {"load_box", "put_slot"} => req[h].peer \in boxes \/ Stale # {}

VictimIsStale == cpc \notin {"wait", "scan", "delete"} => victim \in Stale

SweepsOne == cpc = "clear" => victim \in Placed /\ \A s, t \in snds : s = t

MailInv == /\ IdleIsBlank
           /\ OwnMail
           /\ NotYetThere
           /\ BoxThereOrStale
           /\ VictimIsStale
           /\ SweepsOne

-----------------------------------------------------------------------------
\* What a step does to one handler: nothing, or ...
Rests(h)   == pc'[h] = pc[h] /\ req'[h] = req[h]
\* ... a request arrives that carries no mail, ...
Calls(h)   == pc[h] = "idle" /\ pc'[h] \notin Placing \cup {"idle"} /\ ~Carries(h)'
\* ... an upload comes nearer to its inbox, or panics before it, ...
Nears(h)   == /\ pc[h] \in {"lock_to", "make_box", "load_box"}
              /\ pc'[h] \in {"make_box", "load_box", "put_slot", "panicked"}
              /\ req'[h] = req[h]
              /\ pc'[h] = "load_box" => MakeBox(h)
              /\ pc'[h] = "put_slot" => LoadBox(h)
\* ... another request gets on, ...
Serves(h)  == /\ pc[h] \notin Placing \cup {"idle", "reply"}
              /\ pc'[h] \notin Placing \cup {"idle"}
              /\ ~Carries(h) /\ ~Carries(h)'
\* ... or is done.
Ends(h)    == pc[h] = "reply" /\ pc'[h] = "idle" /\ req'[h] = NoRequest

\* A new upload has an ID that was never given away; a caller that is not
\* registered gets none.
NewUpload(h, op, p) ==
  /\ pc[h] = "idle"
  /\ UNCHANGED <<now, blobs, inbox, boxes, cpc>>
  /\ \A g \in Handler \ {h} : Rests(g)
  /\ \/ sent' = sent /\ pc'[h] = "reply" /\ ~Carries(h)'
     \/ \E id \in BlobId, l \in Letter :
          /\ sent[id] = None
          /\ sent' = [sent EXCEPT ![id] = l]
          /\ l.via = op
          /\ pc'[h] = p /\ req'[h].op = op /\ req'[h].id = id

LEMMA NewUploads ==
  ASSUME ClockAdvances, TypeOK, NEW h \in Handler, NEW d \in Device, NEW r \in Device
  PROVE  /\ BeginUploadSelf(h, d) => NewUpload(h, "upload", "lock_self")
         /\ BeginUploadTo(h, d, r) => NewUpload(h, "upload_to", "lock_to")
<1>1. ASSUME NEW op \in {"upload", "upload_to"}, NEW to \in Device,
             NEW p \in {"lock_self", "lock_to"}, BeginUpload(h, op, d, to, p)
      PROVE  NewUpload(h, op, p)
  <2>1. PICK id \in BlobId, ts \in Timestamp, ttl \in TTL :
          LET blob == [sender |-> d, timestamp |-> ts, ttl |-> ttl]
          IN  /\ FreshId(id)
              /\ Authenticate(h, [NoRequest EXCEPT !.op = op, !.dev = d, !.peer = to,
                                                   !.id = id, !.blob = blob], p)
              /\ sent' = IF d \notin devices THEN sent
                         ELSE [sent EXCEPT ![id] = [blob |-> blob, to |-> to, via |-> op]]
    BY <1>1 DEF BeginUpload
  <2> DEFINE blob == [sender |-> d, timestamp |-> ts, ttl |-> ttl]
             q == [NoRequest EXCEPT !.op = op, !.dev = d, !.peer = to, !.id = id, !.blob = blob]
             u == [q EXCEPT !.status = "unauthorized", !.id = None, !.blob = None]
             l == [blob |-> blob, to |-> to, via |-> op]
  <2>2. q.dev = d /\ q.op = op /\ q.id = id /\ u.id = None
    BY DEF NoRequest
  <2>3. l \in Letter /\ l.via = op
    BY DEF Letter, Blob
  <2> HIDE DEF q, l
  <2>4. /\ Authenticate(h, q, p) /\ sent[id] = None
        /\ sent' = IF d \notin devices THEN sent ELSE [sent EXCEPT ![id] = l]
    BY <2>1 DEF q, l, FreshId
  <2>5. /\ pc[h] = "idle"
        /\ UNCHANGED <<now, blobs, inbox, boxes, cpc>>
        /\ \A g \in Handler \ {h} : pc'[g] = pc[g] /\ req'[g] = req[g]
        /\ \/ d \in devices /\ pc'[h] = p /\ req'[h] = q
           \/ d \notin devices /\ pc'[h] = "reply" /\ req'[h] = u
    BY <2>2, <2>4 DEF Authenticate, Answer, Goto, TypeOK, store, lock, cleaning
  <2> HIDE DEF u
  <2>6. CASE d \in devices
    BY <2>2, <2>3, <2>4, <2>5, <2>6 DEF NewUpload, Rests
  <2>7. CASE d \notin devices
    <3>1. sent' = sent /\ pc'[h] = "reply" /\ ~Carries(h)'
      BY <2>2, <2>4, <2>5, <2>7 DEF Carries
    <3> QED BY <2>5, <3>1 DEF NewUpload, Rests
  <2> QED BY <2>6, <2>7
<1> QED BY <1>1 DEF BeginUploadSelf, BeginUploadTo

\* Every other step does to each handler what is named above.
LEMMA Moves ==
  ASSUME Inv, IdleIsBlank, [Next]_vars, NEW h \in Handler
  PROVE  \/ Rests(h) \/ Calls(h) \/ Nears(h) \/ PutSlot(h) \/ Serves(h) \/ Ends(h)
         \/ \E d, r \in Device : BeginUploadSelf(h, d) \/ BeginUploadTo(h, d, r)
<1> DEFINE Goal == \/ Rests(h) \/ Calls(h) \/ Nears(h) \/ PutSlot(h) \/ Serves(h) \/ Ends(h)
                   \/ \E d, r \in Device : BeginUploadSelf(h, d) \/ BeginUploadTo(h, d, r)
<1> USE DEF store, lock, cleaning
<1>1. pc \in [Handler -> PC] /\ req \in [Handler -> Request] /\ blobIdx \in IdxMap
  BY DEF Inv, TypeOK
<1>2. ASSUME NEW g \in Handler, g # h, Arrive(g) \/ Acquire(g) \/ Proceed(g)
      PROVE  Rests(h)
  <2>1. CASE Arrive(g)
    <3>1. ASSUME NEW r, NEW to, Authenticate(g, r, to) PROVE Rests(h)
      BY <1>1, <1>2, <3>1 DEF Authenticate, Answer, Goto, Rests
    <3>2. ASSUME NEW d \in Device, BeginRegister(g, d) \/ ReadIdx(g, d) PROVE Rests(h)
      BY <1>1, <1>2, <3>2 DEF BeginRegister, ReadIdx, Answer, Goto, Rests
    <3> QED BY <2>1, <3>1, <3>2, Arrivals
  <2>2. CASE Acquire(g)
    BY <1>1, <1>2, <2>2 DEF Acquire, Announce, Register, LockSelf, LockTo, ReadBlob, AnswerBlob,
       ListInbox, ReadSlot, Answer, Goto, Rests
  <2>3. CASE Proceed(g)
    BY <1>1, <1>2, <2>3 DEF Proceed, PutIdx, MakeBox, LoadBox, PutSlot, ReadSlotBlob, AnswerBlob,
       Reply, Answer, Goto, Rests
  <2> QED BY <1>2, <2>1, <2>2, <2>3
<1>3. CASE Arrive(h)
  <2>1. PICK d \in Device, e \in Device :
          \/ BeginRegister(h, d) \/ ReadIdx(h, d) \/ BeginList(h, d) \/ BeginFetch(h, d, e)
          \/ BeginUploadSelf(h, d) \/ BeginUploadTo(h, d, e)
    BY <1>3 DEF Arrive
  <2>2. ASSUME NEW op \in {"list", "fetch"}, NEW r \in Request, r.op = op,
               NEW to \in {"list", "read_slot"}, Authenticate(h, r, to)
        PROVE  Calls(h)
    <3>1. [r EXCEPT !.status = "unauthorized", !.id = None, !.blob = None].op = op
      BY <2>2 DEF Request
    <3>2. pc[h] = "idle" /\ pc'[h] \in {"list", "read_slot", "reply"} /\ req'[h].op = op
      BY <1>1, <2>2, <3>1 DEF Authenticate, Answer, Goto
    <3> QED BY <3>2 DEF Calls, Carries, Placing
  <2>3. CASE BeginList(h, d) \/ BeginFetch(h, d, e)
    <3> DEFINE l == [NoRequest EXCEPT !.op = "list", !.dev = d]
               f == [NoRequest EXCEPT !.op = "fetch", !.dev = d, !.peer = e]
    <3>1. l \in Request /\ f \in Request /\ l.op = "list" /\ f.op = "fetch"
      BY DEF NoRequest, Request, Op
    <3> HIDE DEF l, f
    <3>2. Authenticate(h, l, "list") \/ Authenticate(h, f, "read_slot")
      BY <2>3 DEF BeginList, BeginFetch, l, f
    <3> QED BY <2>2, <3>1, <3>2
  <2>4. CASE BeginRegister(h, d)
    <3>1. [NoRequest EXCEPT !.op = "register", !.dev = d].op = "register"
      BY DEF NoRequest
    <3>2. pc[h] = "idle" /\ pc'[h] = "lock_register" /\ req'[h].op = "register"
      BY <1>1, <2>4, <3>1 DEF BeginRegister, Goto
    <3> QED BY <3>2 DEF Calls, Carries, Placing
  <2>5. CASE ReadIdx(h, d)
    <3> DEFINE r == [NoRequest EXCEPT !.op = "download", !.peer = d, !.id = blobIdx[d]]
    <3>1. r.op = "download" /\ [r EXCEPT !.status = "not_found"].op = "download"
      BY DEF NoRequest
    <3>2. /\ pc[h] = "idle" /\ pc'[h] \in {"read_blob", "reply"}
          /\ req'[h] \in {r, [r EXCEPT !.status = "not_found"]}
      BY <1>1, <2>5 DEF ReadIdx, Answer, Goto
    <3> HIDE DEF r
    <3> QED BY <3>1, <3>2 DEF Calls, Carries, Placing
  <2> QED BY <2>1, <2>3, <2>4, <2>5
<1>4. Shape(pc[h], req[h])
  BY DEF Inv, Shapes
<1>5. CASE Acquire(h) \/ (Proceed(h) /\ ~PutSlot(h))
  <2>1. CASE LockTo(h) \/ MakeBox(h) \/ LoadBox(h)
    BY <1>1, <2>1 DEF LockTo, MakeBox, LoadBox, Goto, Nears
  <2>2. CASE Announce(h)
    BY <2>2 DEF Announce, Rests
  <2>3. CASE Reply(h)
    BY <1>1, <2>3 DEF Reply, Goto, Ends
  <2>4. ASSUME pc[h] \in {"lock_register", "lock_self", "put_idx", "read_blob", "list",
                          "read_slot", "read_slot_blob"},
               pc'[h] \in {"put_idx", "read_slot_blob", "reply"},
               req'[h].op = req[h].op
        PROVE  Serves(h)
    BY <1>4, <2>4 DEF Shape, Serves, Carries, Placing
  <2>5. CASE Register(h) \/ LockSelf(h) \/ ReadBlob(h) \/ ListInbox(h) \/ ReadSlot(h)
               \/ PutIdx(h) \/ ReadSlotBlob(h)
    <3>2. req'[h].op = req[h].op
      <4>1. CASE Register(h) \/ PutIdx(h)
        BY <1>1, <4>1 DEF Register, PutIdx, Answer, Request
      <4>2. CASE LockSelf(h)
        BY <4>2 DEF LockSelf
      <4>3. CASE ReadBlob(h) \/ ReadSlotBlob(h)
        <5> DEFINE blob == IF req[h].id = None THEN None ELSE blobs[req[h].id]
                   status == IF blob = None THEN "not_found" ELSE "ok"
        <5>1. req' = [req EXCEPT ![h] = [req[h] EXCEPT !.blob = blob, !.status = status]]
          BY <4>3 DEF ReadBlob, ReadSlotBlob, AnswerBlob, Answer
        <5> HIDE DEF blob, status
        <5> QED BY <1>1, <5>1 DEF Request
      <4>4. CASE ListInbox(h)
        BY <1>1, <4>4 DEF ListInbox, Answer, Request
      <4>5. CASE ReadSlot(h)
        BY <1>1, <4>5 DEF ReadSlot, Request
      <4> QED BY <2>5, <4>1, <4>2, <4>3, <4>4, <4>5
    <3>3. /\ pc[h] \in {"lock_register", "lock_self", "put_idx", "read_blob", "list",
                        "read_slot", "read_slot_blob"}
          /\ pc'[h] \in {"put_idx", "read_slot_blob", "reply"}
      BY <1>1, <2>5 DEF Register, LockSelf, ReadBlob, ListInbox, ReadSlot, PutIdx, ReadSlotBlob,
         AnswerBlob, Answer, Goto
    <3> QED BY <2>4, <3>2, <3>3
  <2> QED BY <1>5, <2>1, <2>2, <2>3, <2>5 DEF Acquire, Proceed
<1>6. CASE AnnounceCleaner \/ CleanExpired \/ Compact \/ Tick \/ UNCHANGED vars
  BY <1>6, CleanerFrame DEF Rests, Inv
<1> QED BY <1>2, <1>3, <1>5, <1>6 DEF Next

\* A handler's mail keeps its ID; only a new upload to an inbox brings mail.
LEMMA CarriesOn ==
  ASSUME Inv, IdleIsBlank, [Next]_vars, NEW h \in Handler, Carries(h)'
  PROVE  \/ Carries(h) /\ req'[h].id = req[h].id
         \/ \E d, r \in Device : BeginUploadSelf(h, d) \/ BeginUploadTo(h, d, r)
<1>1. req \in [Handler -> Request]
  BY DEF Inv, TypeOK
<1>2. PutSlot(h) => Carries(h) /\ req'[h].id = req[h].id
  <2>1. PutSlot(h) => req'[h].op = req[h].op /\ req'[h].id = req[h].id
    BY <1>1 DEF PutSlot, Answer, Request
  <2> QED BY <2>1 DEF Carries
<1>3. Ends(h) => ~Carries(h)'
  BY DEF Ends, NoRequest, Carries
<1>4. Rests(h) \/ Nears(h) => Carries(h) /\ req'[h].id = req[h].id
  BY DEF Rests, Nears, Carries
<1> QED BY <1>2, <1>3, <1>4, Moves DEF Calls, Serves

\* What is stale stays stale.
LEMMA StaleStays == ASSUME ClockAdvances, Inv, [Next]_vars PROVE Stale \subseteq Stale'
<1>1. SentGrows /\ now \in Nat /\ sent \in [BlobId -> Letter \cup {None}]
  BY SentStep, ServerAssumption DEF Inv, TypeOK
<1>2. now' \in {now, now + 1}
  BY ArriveFrame, HandlerFrame, CleanerFrame DEF Next, Inv
<1> QED BY <1>1, <1>2, MayGoStays DEF Stale

\* Only PutSlot writes to an inbox, and only the ID of its own upload.
LEMMA InboxWrites ==
  ASSUME Inv, [Next]_vars, NEW r \in Device, NEW s \in Device
  PROVE  \/ inbox'[r][s] \in {None, inbox[r][s]}
         \/ \E h \in Handler : PutSlot(h) /\ inbox'[r][s] = req[h].id
<1>1. ASSUME NEW h \in Handler, PutSlot(h), inbox' # inbox
      PROVE  inbox'[r][s] \in {None, inbox[r][s]} \/ inbox'[r][s] = req[h].id
  <2>1. req[h].peer \in Device /\ req[h].dev \in Device /\ req[h].id \in BlobId
    BY <1>1 DEF PutSlot, Inv, Shapes, Shape
  <2>2. PICK box \in PutResults(inbox[req[h].peer], req[h].dev, req[h].id) :
          inbox' = [inbox EXCEPT ![req[h].peer] = box]
    BY <1>1 DEF PutSlot
  <2>3. \A t \in Device : box[t] \in {None, inbox[req[h].peer][t]} \/ box[t] = req[h].id
    BY <2>1, PutResultsType DEF Inv, TypeOK, InboxMap
  <2> QED BY <2>1, <2>2, <2>3 DEF Inv, TypeOK, InboxMap
<1>2. CASE CleanExpired
  BY <1>2 DEF CleanExpired, InboxWithout, RefsWithout
<1>3. CASE Compact
  BY <1>3, CompactFrame DEF Inv
<1> QED BY <1>1, <1>2, <1>3, InboxFrame

\* Boxes go in the presence of stale mail only.
LEMMA BoxesStay ==
  ASSUME Inv, VictimIsStale, [Next]_vars
  PROVE  boxes \subseteq boxes' \/ Stale # {}
<1> USE DEF store, lock, cleaning
<1>1. ASSUME NEW h \in Handler, Acquire(h) PROVE boxes' = boxes
  BY <1>1 DEF Acquire, Announce, Register, LockSelf, LockTo, ReadBlob, ListInbox, ReadSlot
<1>2. ASSUME NEW h \in Handler, Proceed(h) PROVE boxes \subseteq boxes'
  BY <1>2 DEF Proceed, PutIdx, MakeBox, LoadBox, PutSlot, ReadSlotBlob, Reply
<1>3. CASE CleanExpired
  <2>1. CASE ExpiredIds(blobs, now) = {}
    BY <1>3, <2>1 DEF CleanExpired
  <2>2. CASE ExpiredIds(blobs, now) # {}
    <3>1. PICK id \in ExpiredIds(blobs, now) : TRUE
      BY <2>2
    <3>2. id \in Stale
      BY <3>1, ExpiredAreSent DEF Inv, Stale, ExpiredIds, LiveIds
    <3> QED BY <3>2
  <2> QED BY <2>1, <2>2
<1>4. ASSUME NEW r \in Device, CompactPrune(r) PROVE Stale # {}
  BY <1>4 DEF CompactPrune, VictimIsStale
<1>5. CASE Compact
  BY <1>4, <1>5 DEF Compact, CompactScan, CompactBlob, CompactCollect, CompactUnindex, CompactRange,
     CompactVisit, CompactClear, CompactCount, CompactRangeEnds, CompactNext
<1>6. AnnounceCleaner \/ Tick \/ UNCHANGED vars => boxes' = boxes
  BY DEF AnnounceCleaner, Tick, vars
<1> QED BY <1>1, <1>2, <1>3, <1>4, <1>5, <1>6, ArriveFrame DEF Next

\* Only the cleanup goroutine moves what Compact has collected.
LEMMA CleaningFrame ==
  ASSUME [Next]_vars PROVE UNCHANGED cleaning \/ CleanExpired \/ Compact
<1>1. ASSUME NEW h \in Handler, Arrive(h) PROVE UNCHANGED cleaning
  <2>1. ASSUME NEW r, NEW p, Authenticate(h, r, p) PROVE UNCHANGED cleaning
    BY <2>1 DEF Authenticate
  <2>2. ASSUME NEW d \in Device, BeginRegister(h, d) \/ ReadIdx(h, d) PROVE UNCHANGED cleaning
    BY <2>2 DEF BeginRegister, ReadIdx
  <2> QED BY <1>1, <2>1, <2>2, Arrivals
<1>2. ASSUME NEW h \in Handler, Acquire(h) \/ Proceed(h) PROVE UNCHANGED cleaning
  BY <1>2 DEF Acquire, Proceed, Announce, Register, LockSelf, LockTo, ReadBlob, ListInbox,
     ReadSlot, PutIdx, MakeBox, LoadBox, PutSlot, ReadSlotBlob, Reply
<1>3. AnnounceCleaner \/ Tick \/ UNCHANGED vars => UNCHANGED cleaning
  BY DEF AnnounceCleaner, Tick, vars
<1> QED BY <1>1, <1>2, <1>3 DEF Next

\* What Compact removes is stale.
LEMMA VictimStep ==
  ASSUME ClockAdvances, Inv, VictimIsStale, [Next]_vars PROVE VictimIsStale'
<1>1. ASSUME NEW id \in BlobId, CompactBlob(id) PROVE victim' \in Stale
  BY <1>1 DEF CompactBlob, Inv, DoomedExpired, Stale
<1>2. CASE CleanExpired \/ CompactScan \/ CompactNext
  BY <1>2 DEF CleanExpired, CompactScan, CompactNext, VictimIsStale
<1>3. CASE \/ CompactCollect
           \/ CompactUnindex
           \/ CompactRange
           \/ \E r \in Device : CompactVisit(r) \/ CompactPrune(r)
           \/ CompactClear
           \/ CompactCount
           \/ CompactRangeEnds
  <2>1. victim' = victim /\ victim \in Stale
    BY <1>3 DEF CompactCollect, CompactUnindex, CompactRange, CompactVisit, CompactClear,
       CompactCount, CompactRangeEnds, CompactPrune, VictimIsStale
  <2> QED BY <2>1, StaleStays DEF VictimIsStale
<1>4. CASE UNCHANGED cleaning
  BY <1>4, StaleStays DEF cleaning, VictimIsStale
<1> QED BY <1>1, <1>2, <1>3, <1>4, CleaningFrame, StaleStays DEF Compact, VictimIsStale

-----------------------------------------------------------------------------
\* A handler whose mail is not placed yet.
Awaits(h, id) == req[h].op = "upload_to" /\ req[h].id = id /\ pc[h] # "reply"

\* Only a new upload, and PutSlot, change what a handler has yet to place.
LEMMA AwaitsStay ==
  ASSUME Inv, IdleIsBlank, [Next]_vars, NEW h \in Handler, ~PutSlot(h),
         ~\E d, r \in Device : BeginUploadSelf(h, d) \/ BeginUploadTo(h, d, r),
         NEW id \in BlobId
  PROVE  Awaits(h, id)' <=> Awaits(h, id)
<1>1. Carries(h) \/ ~Awaits(h, id)
  BY RelayAssumption DEF Carries, Awaits
<1>2. Carries(h)' \/ ~Awaits(h, id)'
  BY RelayAssumption DEF Carries, Awaits
<1>3. CASE Rests(h) \/ Nears(h)
  BY <1>3 DEF Rests, Nears, Awaits
<1>4. CASE Calls(h)
  BY <1>2, <1>4 DEF Calls, IdleIsBlank, NoRequest, Awaits
<1>5. CASE Serves(h)
  BY <1>1, <1>2, <1>5 DEF Serves
<1>6. CASE Ends(h)
  BY <1>6 DEF Ends, NoRequest, Awaits
<1> QED BY <1>3, <1>4, <1>5, <1>6, Moves

\* Where no handler's upload is sent or placed, what is placed is the same.
LEMMA SamePlaced ==
  ASSUME sent' = sent, \A h \in Handler, id \in BlobId : Awaits(h, id)' <=> Awaits(h, id)
  PROVE  Placed' = Placed
BY DEF Placed, Awaits

\* Blobs that come or go without being referred to do not change what can be fetched.
LEMMA SameFetchable ==
  ASSUME inbox' = inbox,
         \A r, s \in Device : inbox[r][s] # None => blobs'[inbox[r][s]] = blobs[inbox[r][s]]
  PROVE  Fetchable' = Fetchable
BY DEF Fetchable

\* Where nothing is placed and nothing goes, the mailbox at most ages.
LEMMA Ages ==
  ASSUME ClockAdvances, Inv, [Next]_vars, Fetchable' = Fetchable, Placed' = Placed
  PROVE  Mailbox!Next
<1>1. Stale \subseteq Stale' /\ Stale' \in SUBSET BlobId
  BY StaleStays DEF Stale
<1>2. Mailbox!Age
  BY <1>1 DEF Mailbox!Age
<1> QED BY <1>2 DEF Mailbox!Next

\* A new upload is not placed yet.
LEMMA UploadPlacesNone ==
  ASSUME Inv, MailInv, NEW h \in Handler,
         NewUpload(h, "upload", "lock_self") \/ NewUpload(h, "upload_to", "lock_to")
  PROVE  Placed' = Placed
<1>2. ASSUME NEW g \in Handler, g # h, NEW id \in BlobId
      PROVE  Awaits(g, id)' <=> Awaits(g, id)
  BY <1>2 DEF NewUpload, Rests, Awaits
<1>3. ASSUME NEW id \in BlobId PROVE ~Awaits(h, id)
  BY DEF NewUpload, MailInv, IdleIsBlank, NoRequest, Awaits
<1>4. Placed' = Placed
  <2>1. CASE sent' = sent /\ pc'[h] = "reply"
    <3>1. \A id \in BlobId : ~Awaits(h, id)'
      BY <2>1 DEF Awaits
    <3> QED BY <1>2, <1>3, <2>1, <3>1, SamePlaced
  <2>2. ASSUME NEW id \in BlobId, NEW l \in Letter, NEW op \in {"upload", "upload_to"},
               sent[id] = None, sent' = [sent EXCEPT ![id] = l], l.via = op,
               req'[h].op = op, req'[h].id = id, pc'[h] \in {"lock_self", "lock_to"}
        PROVE  Placed' = Placed
    <3>1. id \notin Placed
      BY <2>2 DEF Placed
    <3>2. id \notin Placed'
      <4>1. sent'[id].via = op
        BY <2>2 DEF Inv, TypeOK
      <4>2. op = "upload_to" => Awaits(h, id)'
        BY <2>2 DEF Awaits
      <4> QED BY <4>1, <4>2 DEF Placed, Awaits
    <3>3. ASSUME NEW x \in BlobId, x # id
          PROVE  x \in Placed' <=> x \in Placed
      <4>1. sent'[x] = sent[x]
        BY <2>2, <3>3 DEF Inv, TypeOK
      <4>2. ~Awaits(h, x)'
        BY <2>2, <3>3 DEF Awaits
      <4>3. \A g \in Handler : Awaits(g, x)' <=> Awaits(g, x)
        BY <1>2, <1>3, <4>2
      <4> QED BY <4>1, <4>3 DEF Placed, Awaits
    <3>4. Placed \subseteq BlobId /\ Placed' \subseteq BlobId
      BY DEF Placed
    <3> QED BY <3>1, <3>2, <3>3, <3>4
  <2> QED BY <2>1, <2>2 DEF NewUpload
<1> QED BY <1>4

\* A new upload changes nothing that a user sees.
LEMMA UploadAges ==
  ASSUME ClockAdvances, Inv, MailInv, [Next]_vars, NEW h \in Handler,
         NewUpload(h, "upload", "lock_self") \/ NewUpload(h, "upload_to", "lock_to")
  PROVE  Mailbox!Next
<1>1. Fetchable' = Fetchable
  BY SameFetchable DEF NewUpload
<1> QED BY <1>1, UploadPlacesNone, Ages

\* Removing expired blobs, with or without the slots that refer to them: the mailbox
\* expires them.
LEMMA RemovalExpires ==
  ASSUME Inv, NEW ids \in SUBSET Stale,
         blobs' = BlobsWithout(blobs, ids), inbox' \in {inbox, InboxWithout(inbox, ids)},
         sent' = sent, now' = now, Placed' = Placed
  PROVE  Mailbox!Next
<1>1. blobs \in BlobMap /\ inbox \in InboxMap /\ None \notin BlobId /\ ids \subseteq BlobId
  BY RelayAssumption DEF Inv, TypeOK, Stale
<1>2. ASSUME NEW r \in Device, NEW s \in Device
      PROVE  Fetchable'[r][s] = IF Fetchable[r][s] \in ids THEN None ELSE Fetchable[r][s]
  <2>1. inbox[r][s] \in BlobId \cup {None}
    BY <1>1 DEF InboxMap, IdxMap
  <2>2. inbox'[r][s] \in {inbox[r][s], IF inbox[r][s] \in ids THEN None ELSE inbox[r][s]}
    BY DEF InboxWithout, RefsWithout
  <2>3. \A id \in BlobId : blobs'[id] = IF id \in ids THEN None ELSE blobs[id]
    BY DEF BlobsWithout
  <2> QED BY <1>1, <2>1, <2>2, <2>3 DEF Fetchable
<1>3. Fetchable' = [r \in Device |-> [s \in Device |->
                      IF Fetchable[r][s] \in ids THEN None ELSE Fetchable[r][s]]]
  <2>1. Fetchable' = [r \in Device |-> [s \in Device |-> Fetchable'[r][s]]]
    BY DEF Fetchable
  <2> QED BY <1>2, <2>1
<1>4. Stale' = Stale
  BY DEF Stale
<1>5. Mailbox!Expire
  BY <1>3, <1>4 DEF Mailbox!Expire
<1> QED BY <1>5 DEF Mailbox!Next

\* Taking out a condemned box, whatever it holds by now: the mailbox purges it.
LEMMA PrunePurges ==
  ASSUME Inv, MailInv, NEW q \in Device, CompactPrune(q), Placed' = Placed
  PROVE  Mailbox!Next
<1>1. Stale # {} /\ Stale' = Stale
  BY DEF MailInv, VictimIsStale, CompactPrune, Stale
<1>2. blobs' = blobs /\ inbox' = [inbox EXCEPT ![q] = EmptyBox] /\ inbox \in InboxMap
  BY DEF CompactPrune, Inv, TypeOK
<1>3. Fetchable' = [r \in Device |-> IF r \in {q} THEN [s \in Device |-> None] ELSE Fetchable[r]]
  <2>1. ASSUME NEW r \in Device
        PROVE  Fetchable'[r] = IF r \in {q} THEN [s \in Device |-> None] ELSE Fetchable[r]
    BY <1>2 DEF Fetchable, EmptyBox, InboxMap
  <2>2. Fetchable' = [r \in Device |-> Fetchable'[r]]
    BY DEF Fetchable
  <2> QED BY <2>1, <2>2
<1>4. {q} \in SUBSET Device
  OBVIOUS
<1>5. Mailbox!Purge
  BY <1>1, <1>3, <1>4 DEF Mailbox!Purge
<1> QED BY <1>5 DEF Mailbox!Next

\* PutSlot places the mail of its handler, which was not placed before.
LEMMA PutSlotPlaces ==
  ASSUME Inv, MailInv, NEW h \in Handler, PutSlot(h)
  PROVE  req[h].id \notin Placed /\ Placed' = Placed \cup {req[h].id}
<1> DEFINE m == req[h].id
<1>1. /\ pc \in [Handler -> PC] /\ req \in [Handler -> Request] /\ None \notin BlobId
      /\ sent' = sent
  BY RelayAssumption DEF Inv, TypeOK, PutSlot
<1>2. /\ pc[h] = "put_slot" /\ req[h].op = "upload_to" /\ m \in BlobId
      /\ sent[m] # None /\ sent[m].via = "upload_to"
  BY DEF PutSlot, Inv, Shapes, Shape, Traced, IsLetter
<1>3. pc'[h] = "reply" /\ \A g \in Handler : g # h => Rests(g)
  BY <1>1 DEF PutSlot, Answer, Goto, Rests
<1>4. Awaits(h, m)
  BY <1>2 DEF Awaits
<1>5. \A g \in Handler : g # h => ~Awaits(g, m)
  BY <1>1, <1>2 DEF MailInv, OwnMail, Carries, Awaits
<1>6. \A id \in BlobId : ~Awaits(h, id)' /\ (id # m => ~Awaits(h, id))
  BY <1>3 DEF Awaits
<1>7. \A g \in Handler, id \in BlobId : g # h => (Awaits(g, id)' <=> Awaits(g, id))
  BY <1>3 DEF Awaits, Rests
<1>8. /\ Placed = {id \in BlobId : sent[id] # None /\ sent[id].via = "upload_to"
                                     /\ \A g \in Handler : ~Awaits(g, id)}
      /\ Placed' = {id \in BlobId : sent'[id] # None /\ sent'[id].via = "upload_to"
                                     /\ \A g \in Handler : ~Awaits(g, id)'}
  BY DEF Placed, Awaits
<1> HIDE DEF m
<1>9. m \notin Placed /\ m \in Placed'
  BY <1>1, <1>2, <1>4, <1>5, <1>6, <1>7, <1>8
<1>10. ASSUME NEW id \in BlobId, id # m PROVE id \in Placed' <=> id \in Placed
  BY <1>1, <1>6, <1>7, <1>8, <1>10
<1>11. Placed \subseteq BlobId /\ Placed' \subseteq BlobId
  BY DEF Placed
<1>12. Placed' = Placed \cup {m}
  BY <1>2, <1>9, <1>10, <1>11
<1> QED BY <1>9, <1>12 DEF m

\* Writing to one slot of a table.
LEMMA SlotAt ==
  ASSUME NEW F \in InboxMap, NEW r \in Device, NEW s \in Device, NEW v \in BlobId \cup {None}
  PROVE  /\ [F EXCEPT ![r][s] = v] \in InboxMap
         /\ \A q, t \in Device :
              [F EXCEPT ![r][s] = v][q][t] = IF q = r /\ t = s THEN v ELSE F[q][t]
<1> DEFINE E == [F EXCEPT ![r][s] = v]
<1>1. E \in InboxMap /\ \A q \in Device : q # r => E[q] = F[q]
      /\ E[r] = [F[r] EXCEPT ![s] = v]
  BY DEF InboxMap, IdxMap
<1>2. \A q, t \in Device : E[q][t] = IF q = r /\ t = s THEN v ELSE F[q][t]
  BY <1>1 DEF InboxMap, IdxMap
<1> QED BY <1>1, <1>2

\* Two tables that differ in one slot only.
LEMMA OneSlot ==
  ASSUME NEW F \in InboxMap, NEW G \in InboxMap, NEW r \in Device, NEW s \in Device,
         NEW v \in BlobId \cup {None},
         G[r][s] = v, \A q, t \in Device : q # r \/ t # s => G[q][t] = F[q][t]
  PROVE  G = [F EXCEPT ![r][s] = v]
<1> DEFINE E == [F EXCEPT ![r][s] = v]
<1>1. E \in InboxMap /\ \A q, t \in Device : E[q][t] = IF q = r /\ t = s THEN v ELSE F[q][t]
  BY SlotAt
<1> HIDE DEF E
<1>2. ASSUME NEW q \in Device PROVE G[q] = E[q]
  <2>1. G[q] \in IdxMap /\ E[q] \in IdxMap /\ \A t \in Device : G[q][t] = E[q][t]
    BY <1>1 DEF InboxMap
  <2> QED BY <2>1 DEF IdxMap
<1>3. G = E
  BY <1>1, <1>2 DEF InboxMap
<1> QED BY <1>3 DEF E

\* PutSlot delivers; into a map that Compact has taken out of Inbox, it mislays.
LEMMA PutSlotDelivers ==
  ASSUME Inv, MailInv, InboxWithinCap, NEW h \in Handler, PutSlot(h)
  PROVE  Mailbox!Next
<1> DEFINE r == req[h].peer
           s == req[h].dev
           m == req[h].id
           left == IF blobs[m] = None THEN None ELSE m
<1>1. pc[h] = "put_slot" /\ r \in Device /\ s \in Device /\ m \in BlobId
  BY DEF PutSlot, Inv, Shapes, Shape
<1>2. /\ blobs \in BlobMap /\ inbox \in InboxMap /\ None \notin BlobId
      /\ blobs' = blobs /\ Stale' = Stale
  BY RelayAssumption DEF Inv, TypeOK, PutSlot, Stale
<1>3. m \notin Placed /\ Placed' = Placed \cup {m}
  BY PutSlotPlaces
<1>4. CASE r \notin boxes
  <2>1. Stale # {}
    BY <1>1, <1>4 DEF MailInv, BoxThereOrStale
  <2>2. inbox' = inbox
    BY <1>4 DEF PutSlot
  <2>3. Fetchable' = Fetchable
    BY <1>2, <2>2, SameFetchable
  <2>4. Mailbox!Mislay(m)
    BY <1>2, <1>3, <2>1, <2>3 DEF Mailbox!Mislay
  <2> QED BY <1>1, <2>4 DEF Mailbox!Next
<1>5. CASE r \in boxes
  <2>1. PICK box \in PutResults(inbox[r], s, m) : inbox' = [inbox EXCEPT ![r] = box]
    BY <1>5 DEF PutSlot
  <2>2. left \in {m} \cup {None : x \in Stale \cap {m}}
    <3>1. blobs[m] = None => m \in Stale
      BY <1>1 DEF Inv, LandingKept, KeptOrExpired, Stale
    <3> QED BY <3>1
  <2>3. inbox[r] \in IdxMap /\ Cardinality(Senders(inbox[r])) <= MaxInbox
    BY <1>1, <1>2 DEF InboxMap, InboxWithinCap
  <2>4. \/ box = [inbox[r] EXCEPT ![s] = m]
        \/ /\ inbox[r][s] = None /\ Cardinality(Senders(inbox[r])) >= MaxInbox
           /\ \E t \in Device \ {s} : box = Drop([inbox[r] EXCEPT ![s] = m], t)
    BY <1>1, <2>1, <2>3, PutResultsCap
  <2> HIDE DEF r, s, m
  <2>5. ASSUME NEW q \in Device, NEW t \in Device
        PROVE  Fetchable'[q][t] = IF q # r THEN Fetchable[q][t]
                                  ELSE IF box[t] = None \/ blobs[box[t]] = None THEN None
                                  ELSE box[t]
    BY <1>1, <1>2, <2>1 DEF Fetchable, InboxMap
  <2>6. Fetchable \in InboxMap /\ Fetchable' \in InboxMap /\ left \in BlobId \cup {None}
    <3>1. Fetchable \in InboxMap
      BY <1>2 DEF Fetchable, InboxMap, IdxMap
    <3>2. box \in IdxMap
      BY <1>1, <2>1, <2>3, PutResultsType DEF r, s, m
    <3>3. inbox' \in InboxMap
      BY <1>1, <1>2, <2>1, <3>2 DEF InboxMap
    <3>4. Fetchable' \in InboxMap
      BY <3>3 DEF Fetchable, InboxMap, IdxMap
    <3> QED BY <1>1, <3>1, <3>4
  <2>7. CASE box = [inbox[r] EXCEPT ![s] = m]
    <3>1. \A t \in Device : box[t] = IF t = s THEN m ELSE inbox[r][t]
      BY <1>1, <2>3, <2>7 DEF IdxMap
    <3>2. \A q, t \in Device : Fetchable'[q][t] = IF q = r /\ t = s THEN left ELSE Fetchable[q][t]
      BY <1>1, <1>2, <2>5, <3>1 DEF Fetchable
    <3>3. Fetchable' = [Fetchable EXCEPT ![r][s] = left]
      <4> HIDE DEF left
      <4>1. PICK F \in InboxMap, G \in InboxMap : F = Fetchable /\ G = Fetchable'
        BY <2>6
      <4>2. G[r][s] = left /\ \A q, t \in Device : q # r \/ t # s => G[q][t] = F[q][t]
        BY <1>1, <3>2, <4>1
      <4>3. G = [F EXCEPT ![r][s] = left]
        BY <1>1, <2>6, <4>2, OneSlot
      <4> QED BY <4>1, <4>3
    <3>4. Mailbox!Deliver(r, s, m)
      BY <1>1, <1>2, <1>3, <2>2, <3>3 DEF Mailbox!Deliver
    <3> QED BY <1>1, <3>4 DEF Mailbox!Next
  <2>8. ASSUME NEW t \in Device \ {s}, inbox[r][s] = None,
               Cardinality(Senders(inbox[r])) >= MaxInbox,
               box = Drop([inbox[r] EXCEPT ![s] = m], t)
        PROVE  Mailbox!Next
    <3>1. \A u \in Device : box[u] = IF u = t THEN None ELSE IF u = s THEN m ELSE inbox[r][u]
      BY <1>1, <2>3, <2>8 DEF IdxMap, Drop
    <3>2. Fetchable' = [Fetchable EXCEPT ![r][s] = left, ![r][t] = None]
      <4> DEFINE F == [Fetchable EXCEPT ![r][s] = left]
      <4>1. F \in InboxMap
        BY <1>1, <2>6 DEF InboxMap, IdxMap
      <4>2. \A q, u \in Device : F[q][u] = IF q = r /\ u = s THEN left ELSE Fetchable[q][u]
        BY <1>1, <2>6 DEF InboxMap, IdxMap
      <4>3. \A q, u \in Device :
              Fetchable'[q][u] = IF q # r THEN Fetchable[q][u]
                                 ELSE IF u = t THEN None
                                 ELSE IF u = s THEN left ELSE Fetchable[q][u]
        BY <1>1, <1>2, <2>5, <2>8, <3>1 DEF Fetchable
      <4> HIDE DEF F, left
      <4>4. \A q, u \in Device : Fetchable'[q][u] = IF q = r /\ u = t THEN None ELSE F[q][u]
        BY <4>2, <4>3
      <4>5. Fetchable' = [F EXCEPT ![r][t] = None]
        <5>1. PICK G \in InboxMap : G = Fetchable'
          BY <2>6
        <5>2. G[r][t] = None /\ \A q, u \in Device : q # r \/ u # t => G[q][u] = F[q][u]
          BY <1>1, <4>4, <5>1
        <5>3. G = [F EXCEPT ![r][t] = None]
          BY <1>1, <4>1, <5>2, OneSlot
        <5> QED BY <5>1, <5>3
      <4> QED BY <4>5 DEF F
    <3>3. Fetchable[r][s] = None
      BY <1>1, <2>8 DEF Fetchable
    <3>4. Mailbox!Full(Fetchable[r]) \/ Stale # {}
      <4>1. CASE \A u \in Senders(inbox[r]) : blobs[inbox[r][u]] # None
        <5>1. \A u \in Device : Fetchable[r][u] # None <=> inbox[r][u] # None
          BY <1>1, <4>1 DEF Fetchable, Senders
        <5>2. {u \in Device : Fetchable[r][u] # None} = Senders(inbox[r])
          BY <5>1 DEF Senders
        <5>3. Cardinality(Senders(inbox[r])) = Mailbox!Cardinality(Senders(inbox[r]))
          BY Zenon DEF Cardinality, Mailbox!Cardinality, Mailbox!IsFiniteSet, IsFiniteSet
        <5> QED BY <2>8, <5>2, <5>3 DEF Mailbox!Full
      <4>2. ASSUME NEW u \in Senders(inbox[r]), blobs[inbox[r][u]] = None
            PROVE  Stale # {}
        <5>1. u \in Device /\ inbox[r][u] \in BlobId
          BY <1>1, <1>2, <4>2 DEF Senders, InboxMap, IdxMap
        <5> QED BY <1>1, <4>2, <5>1 DEF Inv, DanglingOnlyExpired, Stale
      <4> QED BY <4>1, <4>2
    <3>5. Mailbox!Deliver(r, s, m)
      BY <1>1, <1>2, <1>3, <2>2, <2>8, <3>2, <3>3, <3>4 DEF Mailbox!Deliver
    <3> QED BY <1>1, <3>5 DEF Mailbox!Next
  <2> QED BY <2>4, <2>7, <2>8
<1> QED BY <1>4, <1>5

\* Where no handler begins an upload or ends one, the mailbox's used mail stays.
LEMMA PlacedStays ==
  ASSUME Inv, MailInv, [Next]_vars, sent' = sent,
         \A h \in Handler : /\ ~PutSlot(h)
                            /\ ~\E d, r \in Device : BeginUploadSelf(h, d) \/ BeginUploadTo(h, d, r)
  PROVE  Placed' = Placed
BY AwaitsStay, SamePlaced DEF MailInv

\* Only an upload that begins, and PutSlot, touch what is sent or placed.
LEMMA PlacedElsewhere ==
  ASSUME Inv, MailInv, [Next]_vars,
         \A h \in Handler : /\ ~PutSlot(h)
                            /\ ~\E d, r \in Device : BeginUploadSelf(h, d) \/ BeginUploadTo(h, d, r)
  PROVE  sent' = sent /\ Placed' = Placed
<1>1. ASSUME NEW h \in Handler, Arrive(h) PROVE sent' = sent
  BY <1>1 DEF Arrive, BeginRegister, ReadIdx, BeginList, BeginFetch
<1>2. sent' = sent
  BY <1>1, HandlerFrame, CleanerFrame DEF Next, Inv
<1> QED BY <1>2, PlacedStays

\* Placed mail stays placed.
LEMMA PlacedGrows ==
  ASSUME ClockAdvances, Inv, MailInv, [Next]_vars PROVE Placed \subseteq Placed'
<1>1. ASSUME NEW h \in Handler, PutSlot(h) PROVE Placed \subseteq Placed'
  BY <1>1, PutSlotPlaces
<1>2. ASSUME NEW h \in Handler, NEW d \in Device, NEW r \in Device,
             BeginUploadSelf(h, d) \/ BeginUploadTo(h, d, r)
      PROVE  Placed \subseteq Placed'
  BY <1>2, NewUploads, UploadPlacesNone DEF Inv
<1> QED BY <1>1, <1>2, PlacedElsewhere

\* Deleting the slots in which Compact has found what it removes: it is one slot, and
\* the mailbox sweeps it.
LEMMA ClearSweeps ==
  ASSUME ClockAdvances, Inv, MailInv, [Next]_vars, CompactClear
  PROVE  Mailbox!Next
<1>1. /\ rcv \in Device /\ snds \subseteq Device /\ \A s, t \in snds : s = t
      /\ victim \in Stale /\ victim \in Placed
      /\ inbox \in InboxMap /\ blobs' = blobs
      /\ inbox' = [inbox EXCEPT ![rcv] = [s \in Device |->
                                            IF s \in snds THEN None ELSE inbox[rcv][s]]]
  BY DEF CompactClear, Inv, TypeOK, MailInv, VictimIsStale, SweepsOne
<1>2. Placed' = Placed /\ Stale' = Stale
  <2>1. sent' = sent /\ now' = now /\ pc' = pc /\ req' = req
    BY DEF CompactClear
  <2> QED BY <2>1 DEF Placed, Stale
<1>3. CASE snds = {}
  <2>1. \A r, s \in Device : inbox'[r][s] = inbox[r][s]
    BY <1>1, <1>3 DEF InboxMap, IdxMap
  <2>2. Fetchable' = Fetchable
    BY <1>1, <2>1 DEF Fetchable
  <2> QED BY <1>2, <2>2, Ages
<1>4. ASSUME NEW t \in snds
      PROVE  Mailbox!Next
  <2>1. t \in Device /\ \A r, s \in Device :
          inbox'[r][s] = IF r = rcv /\ s = t THEN None ELSE inbox[r][s]
    BY <1>1, <1>4 DEF InboxMap, IdxMap
  <2>2. PICK F \in InboxMap, G \in InboxMap : F = Fetchable /\ G = Fetchable'
    <3>1. inbox' \in InboxMap
      BY <1>1 DEF InboxMap, IdxMap
    <3>2. Fetchable \in InboxMap /\ Fetchable' \in InboxMap
      BY <1>1, <3>1 DEF Fetchable, InboxMap, IdxMap
    <3> QED BY <3>2
  <2>3. G[rcv][t] = None /\ \A r, s \in Device : r # rcv \/ s # t => G[r][s] = F[r][s]
    BY <1>1, <2>1, <2>2 DEF Fetchable
  <2>4. G = [F EXCEPT ![rcv][t] = None]
    BY <1>1, <2>1, <2>3, OneSlot
  <2>5. Mailbox!Sweep(rcv, t)
    BY <1>1, <1>2, <2>2, <2>4 DEF Mailbox!Sweep
  <2> QED BY <1>1, <2>1, <2>5 DEF Mailbox!Next
<1> QED BY <1>3, <1>4

\* What Compact finds in an inbox has been placed, in the slot of its one sender.
LEMMA SweepStep ==
  ASSUME ClockAdvances, Inv, MailInv, [Next]_vars PROVE SweepsOne'
<1>1. ASSUME NEW r \in Device, CompactVisit(r), cpc' = "clear"
      PROVE  victim \in Placed /\ \A s, t \in snds' : s = t
  <2>1. snds' = {s \in Device : inbox[r][s] = victim} /\ snds' # {} /\ victim # None
    BY <1>1, RelayAssumption DEF CompactVisit, MailInv, VictimIsStale, Stale
  <2>2. \A s \in snds' : IsLetter(victim, s, r, "upload_to")
    BY <2>1 DEF Inv, StoreTraced
  <2>3. \A s, t \in snds' : s = t
    BY <2>2 DEF IsLetter
  <2>4. ASSUME NEW h \in Handler, req[h].id = victim, req[h].op = "upload_to" PROVE pc[h] = "reply"
    BY <2>1, <2>4 DEF MailInv, NotYetThere, Carries
  <2>5. victim \in BlobId /\ sent[victim] # None /\ sent[victim].via = "upload_to"
    BY <1>1, <2>1, <2>2 DEF IsLetter, CompactVisit, MailInv, VictimIsStale, Stale
  <2> QED BY <2>3, <2>4, <2>5 DEF Placed
<1>2. ASSUME NEW r \in Device, CompactVisit(r), cpc' = "clear"
      PROVE  SweepsOne'
  <2>1. victim' = victim
    BY <1>2 DEF CompactVisit
  <2> QED BY <1>1, <1>2, <2>1, PlacedGrows DEF SweepsOne
<1>3. CASE UNCHANGED cleaning
  BY <1>3, PlacedGrows DEF cleaning, MailInv, SweepsOne
<1>4. CASE CleanExpired \/ CompactScan \/ CompactCollect \/ CompactUnindex \/ CompactRange
             \/ CompactClear \/ CompactCount \/ CompactRangeEnds \/ CompactNext
  BY <1>4 DEF CleanExpired, CompactScan, CompactCollect, CompactUnindex, CompactRange,
     CompactClear, CompactCount, CompactRangeEnds, CompactNext, SweepsOne
<1>5. ASSUME NEW x, CompactBlob(x) \/ CompactPrune(x) PROVE SweepsOne'
  BY <1>5 DEF CompactBlob, CompactPrune, SweepsOne
<1>6. cpc' # "clear" => SweepsOne'
  BY DEF SweepsOne
<1> QED BY <1>2, <1>3, <1>4, <1>5, <1>6, CleaningFrame DEF Compact

\* MailInv is inductive with Inv.
LEMMA MailStep ==
  ASSUME ClockAdvances, Inv, MailInv, [Next]_vars PROVE MailInv'
<1> USE DEF MailInv
<1>1. /\ pc \in [Handler -> PC] /\ req \in [Handler -> Request] /\ inbox \in InboxMap
      /\ sent \in [BlobId -> Letter \cup {None}] /\ \A h \in Handler : Shape(pc[h], req[h])
      /\ None \notin BlobId
  BY RelayAssumption DEF Inv, TypeOK, Shapes
<1>2. SentGrows
  BY SentStep DEF Inv
<1>3. ASSUME NEW h \in Handler, pc'[h] \in Placing \cup {"idle"}
      PROVE  \/ Rests(h) \/ Nears(h) \/ Ends(h)
             \/ \E d, r \in Device : NewUpload(h, "upload_to", "lock_to")
  <2>1. PutSlot(h) => pc'[h] = "reply"
    BY <1>1 DEF PutSlot, Answer, Goto
  <2>2. \A op, p : NewUpload(h, op, p) => pc'[h] \in {p, "reply"}
    BY DEF NewUpload
  <2> QED BY <1>3, <2>1, <2>2, Moves, NewUploads DEF Inv, Calls, Serves, Placing
<1>4. IdleIsBlank'
  <2> SUFFICES ASSUME NEW h \in Handler, pc'[h] = "idle" PROVE req'[h] = NoRequest
    BY DEF IdleIsBlank
  <2> QED BY <1>3 DEF Rests, Nears, Ends, NewUpload, IdleIsBlank
<1>5. OwnMail'
  <2>1. ASSUME NEW h \in Handler, Carries(h)'
        PROVE  \/ Carries(h) /\ req'[h].id = req[h].id /\ req[h].id \in BlobId
               \/ NewUpload(h, "upload_to", "lock_to")
    <3>1. NewUpload(h, "upload", "lock_self") => ~Carries(h)'
      BY DEF NewUpload, Carries
    <3>2. Carries(h) => req[h].id \in BlobId
      BY <1>1 DEF Carries, Request
    <3> QED BY <2>1, <3>1, <3>2, CarriesOn, NewUploads DEF Inv
  <2>2. ASSUME NEW h \in Handler, Carries(h)' PROVE sent'[req'[h].id] # None
    <3>1. CASE NewUpload(h, "upload_to", "lock_to")
      BY <1>1, <2>2, <3>1, ServerAssumption DEF NewUpload, Letter
    <3> QED BY <1>2, <2>1, <2>2, <3>1 DEF OwnMail, SentGrows
  <2>3. ASSUME NEW g \in Handler, NEW h \in Handler, g # h, Carries(g)', Carries(h)',
               NewUpload(h, "upload_to", "lock_to")
        PROVE  req'[g].id # req'[h].id
    <3>1. Rests(g) /\ Carries(g)
      BY <2>3 DEF NewUpload, Rests, Carries
    <3>2. sent[req'[h].id] = None
      BY <2>3 DEF NewUpload
    <3> QED BY <3>1, <3>2 DEF OwnMail, Rests
  <2> QED BY <2>1, <2>2, <2>3 DEF OwnMail
<1>6. NotYetThere'
  <2> SUFFICES ASSUME NEW h \in Handler, Carries(h)', pc'[h] # "reply",
                      NEW r \in Device, NEW s \in Device
               PROVE  inbox'[r][s] # req'[h].id
    BY DEF NotYetThere
  <2>1. CASE Rests(h) \/ Nears(h)
    <3>1. Carries(h) /\ req'[h] = req[h] /\ pc[h] # "reply" /\ req[h].id # None
      BY <2>1 DEF Rests, Nears, Carries
    <3>2. ASSUME NEW g \in Handler, PutSlot(g) PROVE req[g].id # req[h].id
      <4>1. Carries(g) /\ pc'[g] = "reply"
        BY <1>1, <3>2 DEF PutSlot, Answer, Goto, Shape, Carries
      <4> QED BY <3>1, <4>1 DEF OwnMail
    <3> QED BY <3>1, <3>2, InboxWrites DEF NotYetThere
  <2>2. CASE NewUpload(h, "upload_to", "lock_to")
    <3>1. sent[req'[h].id] = None /\ inbox' = inbox /\ req'[h].id \in BlobId
      BY <2>2 DEF NewUpload
    <3> QED BY <1>1, <3>1 DEF Inv, StoreTraced, IsLetter
  <2>3. PutSlot(h) => pc'[h] = "reply"
    BY <1>1 DEF PutSlot, Answer, Goto
  <2>4. NewUpload(h, "upload", "lock_self") => ~Carries(h)'
    BY DEF NewUpload, Carries
  <2>5. Ends(h) => ~Carries(h)'
    BY DEF Ends, NoRequest, Carries
  <2>6. Calls(h) \/ Serves(h) => ~Carries(h)'
    BY DEF Calls, Serves
  <2> QED BY <2>1, <2>2, <2>3, <2>4, <2>5, <2>6, Moves, NewUploads DEF Inv
<1>7. BoxThereOrStale'
  <2> SUFFICES ASSUME NEW h \in Handler, pc'[h] \in {"load_box", "put_slot"}, Stale = {}
               PROVE  req'[h].peer \in boxes'
    BY StaleStays DEF BoxThereOrStale
  <2>1. boxes \subseteq boxes'
    BY BoxesStay
  <2>2. CASE Rests(h)
    BY <2>1, <2>2 DEF Rests, BoxThereOrStale
  <2>3. CASE Nears(h)
    BY <2>1, <2>3, <1>1 DEF Nears, MakeBox, LoadBox, Goto
  <2> QED BY <1>3, <2>2, <2>3 DEF Ends, NewUpload, Placing
<1> QED BY <1>4, <1>5, <1>6, <1>7, VictimStep, SweepStep

\* Locking puts the blob of an upload that no inbox refers to yet.
LEMMA LockFetchable ==
  ASSUME Inv, MailInv, NEW h \in Handler, LockSelf(h) \/ LockTo(h)
  PROVE  Fetchable' = Fetchable
<1>1. /\ inbox' = inbox /\ blobs \in BlobMap /\ inbox \in InboxMap
      /\ blobs' = [blobs EXCEPT ![req[h].id] = req[h].blob]
  BY DEF LockSelf, LockTo, PutBlob, Inv, TypeOK
<1>2. ASSUME NEW r \in Device, NEW s \in Device PROVE inbox[r][s] # req[h].id
  <2>1. CASE LockSelf(h)
    <3>1. sent[req[h].id].via = "upload" /\ req[h].id # None
      BY <2>1, RelayAssumption DEF LockSelf, Inv, Traced, IsLetter, Shapes, Shape
    <3> QED BY <3>1 DEF Inv, StoreTraced, IsLetter
  <2>2. CASE LockTo(h)
    <3>1. Carries(h) /\ pc[h] # "reply"
      BY <2>2, RelayAssumption DEF LockTo, Inv, Shapes, Shape, Carries
    <3> QED BY <3>1 DEF MailInv, NotYetThere
  <2> QED BY <2>1, <2>2
<1>3. \A r, s \in Device : inbox[r][s] # None => blobs'[inbox[r][s]] = blobs[inbox[r][s]]
  BY <1>1, <1>2 DEF BlobMap, InboxMap, IdxMap
<1> QED BY <1>1, <1>3, SameFetchable

\* Each step of the server is a step of the mailbox or none.
LEMMA MailboxStep ==
  ASSUME ClockAdvances, Inv, MailInv, InboxWithinCap, [Next]_vars
  PROVE  Mailbox!Next
<1>1. CASE \E h \in Handler : PutSlot(h)
  BY <1>1, PutSlotDelivers
<1>2. CASE \E h \in Handler, d, r \in Device : BeginUploadSelf(h, d) \/ BeginUploadTo(h, d, r)
  BY <1>2, NewUploads, UploadAges DEF Inv
<1>3. CASE \A h \in Handler : /\ ~PutSlot(h)
                              /\ ~\E d, r \in Device : BeginUploadSelf(h, d) \/ BeginUploadTo(h, d, r)
  <2>1. sent' = sent /\ Placed' = Placed
    BY <1>3, PlacedElsewhere
  <2>2. Fetchable' = Fetchable => Mailbox!Next
    BY <2>1, Ages
  <2>3. inbox' = inbox /\ blobs' = blobs => Fetchable' = Fetchable
    BY SameFetchable
  <2>4. ASSUME NEW h \in Handler, Arrive(h) PROVE Mailbox!Next
    BY <2>2, <2>3, <2>4, ArriveFrame
  <2>5. ASSUME NEW h \in Handler, Acquire(h) \/ Proceed(h) PROVE Mailbox!Next
    <3>1. inbox' = inbox
      BY <1>3, <2>5 DEF Acquire, Proceed, Announce, Register, LockSelf, LockTo, ReadBlob,
         ListInbox, ReadSlot, PutIdx, MakeBox, LoadBox, ReadSlotBlob, Reply, store
    <3> QED BY <2>2, <2>3, <2>5, <3>1, HandlerFrame, LockFetchable
  <2>6. CASE CleanExpired
    <3>1. ExpiredIds(blobs, now) \in SUBSET Stale
      BY ExpiredAreSent DEF Inv, ExpiredIds, LiveIds, Stale
    <3> QED BY <2>1, <2>6, <3>1, RemovalExpires DEF CleanExpired
  <2>7. ASSUME NEW id \in BlobId, CompactBlob(id) PROVE Mailbox!Next
    <3>1. {id} \in SUBSET Stale
      BY <2>7 DEF CompactBlob, Inv, DoomedExpired, Stale
    <3> QED BY <2>1, <2>7, <3>1, RemovalExpires DEF CompactBlob
  <2>8. ASSUME NEW r \in Device, CompactPrune(r) PROVE Mailbox!Next
    BY <2>1, <2>8, PrunePurges
  <2>9. CASE CompactScan \/ CompactCollect \/ CompactUnindex \/ CompactRange \/ CompactCount
               \/ CompactRangeEnds \/ CompactNext \/ \E r \in Device : CompactVisit(r)
    BY <2>2, <2>3, <2>9 DEF CompactScan, CompactCollect, CompactUnindex, CompactRange, CompactVisit,
       CompactCount, CompactRangeEnds, CompactNext, store
  <2>10. CASE AnnounceCleaner \/ Tick \/ UNCHANGED vars
    BY <2>2, <2>3, <2>10 DEF AnnounceCleaner, Tick, vars, store
  <2> QED BY <2>4, <2>5, <2>6, <2>7, <2>8, <2>9, <2>10, ClearSweeps DEF Next, Compact
<1> QED BY <1>1, <1>2, <1>3

\* At the start all boxes are empty, and nothing has been sent.
LEMMA MailInit == Init => MailInv /\ InboxWithinCap /\ Mailbox!Init
<1> SUFFICES ASSUME Init PROVE MailInv /\ InboxWithinCap /\ Mailbox!Init
  OBVIOUS
<1>1. MailInv
  BY DEF Init, MailInv, IdleIsBlank, OwnMail, NotYetThere, BoxThereOrStale, VictimIsStale,
     SweepsOne, Placing, Carries, NoRequest
<1>2. ASSUME NEW r \in Device PROVE Cardinality(Senders(inbox[r])) <= MaxInbox
  <2>1. Senders(inbox[r]) = {}
    BY DEF Init, EmptyBox, Senders
  <2> QED BY <2>1, FS_EmptySet, RelayAssumption
<1>3. Mailbox!Init
  BY DEF Init, EmptyBox, Fetchable, Placed, Stale, Mailbox!Init
<1> QED BY <1>1, <1>2, <1>3 DEF InboxWithinCap

\* The handlers, the cleanup goroutine and Compact implement the mailbox of
\* RelayMailbox: mail is placed once, makes way for newer mail of its sender, or,
\* in a full box, of another; it goes otherwise only when it is stale or, with its
\* slot or a whole box, in the presence of stale mail; and mail that has gone never
\* returns.
THEOREM MailboxImplemented == ASSUME ClockAdvances PROVE Spec => ImplementsMailbox
<1>1. Init => Inv /\ MailInv /\ InboxWithinCap
  BY InvInit, MailInit
<1>2. Inv /\ MailInv /\ InboxWithinCap /\ [Next]_vars
        => Inv' /\ MailInv' /\ InboxWithinCap'
  BY InvStep, MailStep, CapStep DEF Inv
<1>3. Init => Mailbox!Init
  BY MailInit
<1>4. Inv /\ MailInv /\ InboxWithinCap /\ [Next]_vars => [Mailbox!Next]_(Mailbox!vars)
  BY MailboxStep
<1> QED BY <1>1, <1>2, <1>3, <1>4, PTL DEF Spec, ImplementsMailbox, Mailbox!Spec

\* So what a user of the mailbox relies on holds of the relay: an upload that has
\* left its receiver's inbox is never seen there, or in any other, again.
THEOREM NothingComesBack == ASSUME ClockAdvances PROVE Spec => Mailbox!NeverRedelivered
<1>1. Inv /\ [Mailbox!Next]_(Mailbox!vars)
        => [\A m \in Placed, r, s \in Device :
              Fetchable'[r][s] = m => Fetchable[r][s] = m]_(Mailbox!vars)
  <2> SUFFICES ASSUME Inv, Mailbox!Next, NEW m \in Placed, NEW r \in Device, NEW s \in Device,
                      Fetchable'[r][s] = m
               PROVE  Fetchable[r][s] = m
    OBVIOUS
  <2>1. m # None
    BY RelayAssumption DEF Placed
  <2>2. Fetchable \in InboxMap
    BY DEF Inv, TypeOK, Fetchable, InboxMap, IdxMap
  <2>3. ASSUME NEW q \in Device, NEW t \in Device, NEW n \in BlobId, Mailbox!Deliver(q, t, n)
        PROVE  Fetchable[r][s] = m
    <3>1. PICK left \in {n, None} :
            \/ Fetchable' = [Fetchable EXCEPT ![q][t] = left]
            \/ \E u \in Device : Fetchable' = [Fetchable EXCEPT ![q][t] = left, ![q][u] = None]
      BY <2>3 DEF Mailbox!Deliver
    <3>2. left # m /\ left \in BlobId \cup {None}
      BY <2>1, <2>3 DEF Mailbox!Deliver
    <3>3. PICK F \in InboxMap : F = [Fetchable EXCEPT ![q][t] = left]
                                 /\ (F[r][s] = left \/ F[r][s] = Fetchable[r][s])
      <4> DEFINE F == [Fetchable EXCEPT ![q][t] = left]
      <4>1. /\ F \in InboxMap
            /\ \A a, b \in Device : F[a][b] = IF a = q /\ b = t THEN left ELSE Fetchable[a][b]
        BY <2>2, <3>2, SlotAt
      <4> HIDE DEF F
      <4>2. F[r][s] = left \/ F[r][s] = Fetchable[r][s]
        BY <4>1
      <4> QED BY <4>1, <4>2 DEF F
    <3>4. CASE Fetchable' = F
      BY <3>2, <3>3, <3>4
    <3>5. ASSUME NEW u \in Device, Fetchable' = [F EXCEPT ![q][u] = None]
          PROVE  Fetchable[r][s] = m
      <4>1. [F EXCEPT ![q][u] = None][r][s] \in {None, F[r][s]}
        BY SlotAt
      <4> QED BY <2>1, <3>2, <3>3, <3>5, <4>1
    <3> QED BY <3>1, <3>3, <3>4, <3>5
  <2>4. CASE Mailbox!Expire
    BY <2>1, <2>4 DEF Mailbox!Expire
  <2>5. CASE Mailbox!Purge
    BY <2>1, <2>5 DEF Mailbox!Purge
  <2>6. ASSUME NEW q \in Device, NEW t \in Device, Mailbox!Sweep(q, t)
        PROVE  Fetchable[r][s] = m
    <3>1. [Fetchable EXCEPT ![q][t] = None][r][s] \in {None, Fetchable[r][s]}
      BY <2>2, SlotAt
    <3> QED BY <2>1, <2>6, <3>1 DEF Mailbox!Sweep
  <2>7. CASE Mailbox!Age \/ \E n \in BlobId : Mailbox!Mislay(n)
    BY <2>7 DEF Mailbox!Age, Mailbox!Mislay
  <2> QED BY <2>3, <2>4, <2>5, <2>6, <2>7 DEF Mailbox!Next
<1> QED BY <1>1, InvHolds, MailboxImplemented, PTL
        DEF ImplementsMailbox, Mailbox!Spec, Mailbox!NeverRedelivered
=============================================================================
