-------------------------- MODULE RelayServer_proofs --------------------------
(***************************************************************************)
(* What holds of the relay server's handlers, cleanup and compaction for   *)
(* every number of devices, blobs, handlers and every TTL.                 *)
(***************************************************************************)
EXTENDS RelayServer, FiniteSetTheorems, TLAPS

\* What a number below the modulus is.
LEMMA ModSmall == ASSUME NEW x \in Nat, NEW n \in Nat, x < n PROVE x % n = x
  BY SMTT(30)

\* Multiplying by a natural keeps the order.
LEMMA MulOrder == ASSUME NEW a \in Int, NEW b \in Int, NEW s \in Nat, a <= b PROVE a * s <= b * s
  BY SMTT(30)

\* What the code takes for expired has outlived its TTL, or its TTL overflows: without
\* an overflow Duration is exact, and Elapsed stops only at what is larger than any.
LEMMA ExpiredMayGo ==
  ASSUME NEW blob \in Blob, NEW t \in Nat, Expired(blob, t)
  PROVE  MayGo(blob, t)
<1> SUFFICES ASSUME ~Overflows(blob) PROVE Outlived(blob, t)
  BY DEF MayGo
<1> DEFINE p == blob.ttl * Second
           m == MaxDuration
           age == (t - blob.timestamp) * Second
<1>1. blob.ttl \in Nat /\ blob.timestamp \in Nat /\ m \in Nat /\ Second \in Nat
  BY RelayAssumption DEF Blob
<1>2. p \in Nat /\ age \in Int
  BY <1>1
<1>3. p <= m
  BY <1>1, <1>2 DEF Overflows
<1>4. Duration(blob.ttl) = p
  <2>1. p + m + 1 \in Nat /\ 2 * (m + 1) \in Nat /\ p + m + 1 < 2 * (m + 1)
    BY <1>1, <1>2, <1>3
  <2>2. (p + m + 1) % (2 * (m + 1)) = p + m + 1
    BY <2>1, ModSmall
  <2> QED BY <1>1, <1>2, <2>2 DEF Duration
<1>5. Elapsed(t, blob.timestamp) > p => age > p
  <2> HIDE DEF p, age
  <2>1. Elapsed(t, blob.timestamp) =
          IF age > m THEN m ELSE IF age < -(m + 1) THEN -(m + 1) ELSE age
    BY DEF Elapsed, age
  <2> QED BY <1>1, <1>2, <1>3, <2>1
<1>6. age > p
  BY <1>4, <1>5 DEF Expired
<1>7. t - blob.timestamp > blob.ttl
  <2>1. t - blob.timestamp \in Int
    BY <1>1
  <2>2. t - blob.timestamp <= blob.ttl => age <= p
    BY <1>1, <2>1, MulOrder
  <2> QED BY <1>1, <1>2, <1>6, <2>1, <2>2
<1> QED BY <1>1, <1>7 DEF Outlived, Expired

\* What Put leaves in a box: nothing, what was there, or, for the sender, the new blob.
LEMMA PutResultsType ==
  ASSUME NEW box \in IdxMap, NEW s \in Device, NEW id \in BlobId,
         NEW b \in PutResults(box, s, id)
  PROVE  /\ b \in IdxMap
         /\ \A t \in Device : b[t] \in {None, box[t]} \/ (t = s /\ b[t] = id)
<1> DEFINE put == [box EXCEPT ![s] = id]
<1>1. put \in IdxMap /\ \A t \in Device : put[t] = box[t] \/ (t = s /\ put[t] = id)
  BY DEF IdxMap
<1>2. ASSUME NEW c \in IdxMap, NEW vs, NEW d \in Capped(c, vs)
      PROVE  d \in IdxMap /\ \A t \in Device : d[t] \in {None, c[t]}
  BY <1>2 DEF Capped, Drop, IdxMap
<1>3. PICK c \in Capped(put, Senders(put) \ {s}) : b \in Capped(c, Senders(c))
  BY DEF PutResults
<1> HIDE DEF put
<1>4. c \in IdxMap /\ \A t \in Device : c[t] \in {None, put[t]}
  BY <1>1, <1>2, <1>3
<1>5. b \in IdxMap /\ \A t \in Device : b[t] \in {None, c[t]}
  BY <1>2, <1>3, <1>4
<1> QED
  BY <1>1, <1>4, <1>5

\* What a handler's request holds at each of its steps.
Shape(p, r) ==
  /\ p = "lock_register" => r.op = "register" /\ r.dev \in Device
  /\ p \in {"lock_self", "put_idx"} =>
       r.op = "upload" /\ r.dev \in Device /\ r.peer = r.dev /\ r.id \in BlobId /\ r.blob \in Blob
  /\ p \in {"lock_to", "make_box", "load_box", "put_slot"} =>
       r.op = "upload_to" /\ r.dev \in Device /\ r.peer \in Device /\ r.id \in BlobId
         /\ r.blob \in Blob
  /\ p = "read_blob" => r.op = "download" /\ r.peer \in Device /\ r.id \in BlobId
  /\ p = "list" => r.op = "list" /\ r.dev \in Device
  /\ p \in {"read_slot", "read_slot_blob"} =>
       r.op = "fetch" /\ r.dev \in Device /\ r.peer \in Device

Shapes == \A h \in Handler : Shape(pc[h], req[h])

\* Everything stored was uploaded under its ID, and every reference leads to an
\* upload of the device, or of the sender to the receiver, it stands for.
StoreTraced ==
  /\ \A id \in BlobId : blobs[id] # None => sent[id] # None /\ blobs[id] = sent[id].blob
  /\ \A d \in Device : blobIdx[d] # None => IsLetter(blobIdx[d], d, d, "upload")
  /\ \A r, s \in Device : inbox[r][s] # None => IsLetter(inbox[r][s], s, r, "upload_to")

\* So does what a handler carries from one critical section to the next.
Traced(h) ==
  /\ pc[h] \in {"lock_self", "put_idx"} =>
       IsLetter(req[h].id, req[h].dev, req[h].dev, "upload") /\ req[h].blob = sent[req[h].id].blob
  /\ pc[h] \in {"lock_to", "make_box", "load_box", "put_slot"} =>
       IsLetter(req[h].id, req[h].dev, req[h].peer, "upload_to")
         /\ req[h].blob = sent[req[h].id].blob
  /\ pc[h] = "read_blob" => IsLetter(req[h].id, req[h].peer, req[h].peer, "upload")
  /\ pc[h] = "read_slot_blob" /\ req[h].id # None =>
       IsLetter(req[h].id, req[h].peer, req[h].dev, "upload_to")
  /\ pc[h] = "reply" /\ req[h].status = "ok" =>
       RightAnswer(req[h]) /\ (req[h].op \in {"fetch", "download"} => req[h].id \in BlobId)

\* An ID whose blob is stored, or was until it might go.
KeptOrExpired(id) ==
  blobs[id] # None \/ (sent[id] # None /\ MayGo(sent[id].blob, now))

\* Compact condemns expired blobs only, and what a handler is about to refer to
\* is stored or expired: Compact may have removed it since the handler put it.
DoomedExpired == \A id \in doomed : sent[id] # None /\ MayGo(sent[id].blob, now)

LandingKept ==
  \A h \in Handler :
    pc[h] \in {"put_idx", "make_box", "load_box", "put_slot"} => KeptOrExpired(req[h].id)

Inv == /\ TypeOK
       /\ Shapes
       /\ StoreTraced
       /\ \A h \in Handler : Traced(h)
       /\ DoomedExpired
       /\ LandingKept
       /\ DanglingOnlyExpired

-----------------------------------------------------------------------------
\* A handler's blank request, before the first arrival and after each answer.
LEMMA NoRequestType == NoRequest \in Request
BY DEF NoRequest, Request, Op

\* The helpers on the maps return maps.
LEMMA MapTypes ==
  ASSUME NEW blobs_ \in BlobMap, NEW idx \in IdxMap, NEW box \in InboxMap, NEW ids
  PROVE  /\ BlobsWithout(blobs_, ids) \in BlobMap
         /\ RefsWithout(idx, ids) \in IdxMap
         /\ InboxWithout(box, ids) \in InboxMap
BY DEF BlobMap, IdxMap, InboxMap, BlobsWithout, RefsWithout, InboxWithout

\* Moving one handler to a well-formed request keeps every handler well formed.
LEMMA AnswerType ==
  ASSUME TypeOK, Shapes, NEW h \in Handler, NEW r \in Request, NEW p \in PC,
         pc' = [pc EXCEPT ![h] = p], req' = [req EXCEPT ![h] = r], Shape(p, r)
  PROVE  pc' \in [Handler -> PC] /\ req' \in [Handler -> Request] /\ Shapes'
BY DEF TypeOK, Shapes

\* Moving a handler to a step that exists keeps pc's type.
LEMMA GotoType ==
  ASSUME TypeOK, Shapes, NEW h \in Handler, NEW p \in PC,
         pc' = [pc EXCEPT ![h] = p], req' = req, Shape(p, req[h])
  PROVE  pc' \in [Handler -> PC] /\ req' \in [Handler -> Request] /\ Shapes'
BY DEF TypeOK, Shapes

\* The token lookup all authenticated handlers share keeps the types.
LEMMA AuthenticateType ==
  ASSUME TypeOK, Shapes, NEW h \in Handler, NEW r \in Request, NEW p \in PC,
         Authenticate(h, r, p), Shape(p, r)
  PROVE  pc' \in [Handler -> PC] /\ req' \in [Handler -> Request] /\ Shapes'
<1>1. [r EXCEPT !.status = "unauthorized", !.id = None, !.blob = None] \in Request
  BY DEF Request
<1>2. Shape("reply", [r EXCEPT !.status = "unauthorized", !.id = None, !.blob = None])
  BY DEF Shape
<1> QED BY <1>1, <1>2, AnswerType DEF Authenticate, Answer, Goto, PC

\* An upload that begins has named its blob, and its request is well formed.
LEMMA BeginUploadType ==
  ASSUME TypeOK, Shapes, NEW h \in Handler, NEW d \in Device, NEW r \in Device,
         BeginUploadSelf(h, d) \/ BeginUploadTo(h, d, r)
  PROVE  TypeOK' /\ Shapes'
<1>1. ASSUME NEW op \in {"upload", "upload_to"}, NEW to \in Device,
             NEW p \in {"lock_self", "lock_to"}, BeginUpload(h, op, d, to, p),
             op = "upload" => to = d /\ p = "lock_self", op = "upload_to" => p = "lock_to"
      PROVE  TypeOK' /\ Shapes'
  <2>1. PICK id \in BlobId, ts \in Timestamp, ttl \in TTL :
          LET blob == [sender |-> d, timestamp |-> ts, ttl |-> ttl]
          IN  /\ FreshId(id)
              /\ Authenticate(h, [NoRequest EXCEPT !.op = op, !.dev = d, !.peer = to,
                                                   !.id = id, !.blob = blob], p)
              /\ sent' = IF d \notin devices THEN sent
                         ELSE [sent EXCEPT ![id] = [blob |-> blob, to |-> to, via |-> op]]
    BY <1>1 DEF BeginUpload
  <2> DEFINE blob == [sender |-> d, timestamp |-> ts, ttl |-> ttl]
             q == [NoRequest EXCEPT !.op = op, !.dev = d, !.peer = to, !.id = id, !.blob = blob]
  <2>2. blob \in Blob
    BY DEF Blob
  <2>3. q \in Request /\ Shape(p, q)
    BY <1>1, <2>2 DEF NoRequest, Request, Op, Shape
  <2>4. [blob |-> blob, to |-> to, via |-> op] \in Letter
    BY <2>2 DEF Letter
  <2>5. sent' \in [BlobId -> Letter \cup {None}]
    BY <2>1, <2>4 DEF TypeOK
  <2>6. p \in PC
    BY DEF PC
  <2>7. Authenticate(h, q, p)
    BY <2>1
  <2>8. pc' \in [Handler -> PC] /\ req' \in [Handler -> Request] /\ Shapes'
    BY <2>3, <2>6, <2>7, AuthenticateType
  <2> QED BY <2>5, <2>7, <2>8 DEF Authenticate, TypeOK, store, lock, cleaning
<1> QED BY <1>1 DEF BeginUploadSelf, BeginUploadTo

\* Compact's steps, each of which takes away what is there or leaves it.
LEMMA CompactFrame ==
  ASSUME TypeOK, Compact
  PROVE  /\ UNCHANGED <<now, devices, mu, readers, waiting, pc, req, sent>>
         /\ blobs' = blobs \/ \E id \in BlobId : CompactBlob(id)
         /\ \A id \in BlobId : blobs'[id] \in {None, blobs[id]}
         /\ \A d \in Device : blobIdx'[d] \in {None, blobIdx[d]}
         /\ \A r, s \in Device : inbox'[r][s] \in {None, inbox[r][s]}
         /\ doomed' \subseteq doomed \/ CompactScan
<1> USE DEF store, lock
<1>1. CASE \E id \in BlobId : CompactBlob(id)
  BY <1>1 DEF CompactBlob, BlobsWithout
<1>2. CASE CompactUnindex
  BY <1>2 DEF CompactUnindex
<1>3. CASE CompactClear
  <2>1. inbox \in InboxMap
    BY DEF TypeOK
  <2>2. \A r, s \in Device : inbox'[r][s] \in {None, inbox[r][s]}
    BY <1>3, <2>1 DEF CompactClear, InboxMap, IdxMap
  <2> QED BY <1>3, <2>2 DEF CompactClear
<1>4. ASSUME NEW r \in Device, CompactPrune(r)
      PROVE  /\ UNCHANGED <<now, devices, mu, readers, waiting, pc, req, sent>>
             /\ blobs' = blobs /\ blobIdx' = blobIdx /\ doomed' = doomed
             /\ \A q, s \in Device : inbox'[q][s] \in {None, inbox[q][s]}
  BY <1>4 DEF CompactPrune, TypeOK, InboxMap, IdxMap, EmptyBox
<1>5. CASE CompactScan \/ CompactCollect \/ CompactRange \/ (\E r \in Device : CompactVisit(r))
             \/ CompactCount \/ CompactRangeEnds \/ CompactNext
  BY <1>5 DEF CompactScan, CompactCollect, CompactRange, CompactVisit, CompactCount,
     CompactRangeEnds, CompactNext
<1> QED BY <1>1, <1>2, <1>3, <1>4, <1>5 DEF Compact

\* The two halves of TypeOK: what the handlers share, and what Compact has collected.
HandlersOK ==
  /\ now \in 0..MaxTime
  /\ devices \subseteq Device
  /\ blobs \in BlobMap
  /\ blobIdx \in IdxMap
  /\ inbox \in InboxMap
  /\ boxes \subseteq Device
  /\ mu \in Handler \cup {None}
  /\ readers \subseteq Handler
  /\ waiting \in Handler \cup {Cleaner, None}
  /\ pc \in [Handler -> PC]
  /\ req \in [Handler -> Request]
  /\ sent \in [BlobId -> Letter \cup {None}]

CollectedOK ==
  /\ cpc \in CPC
  /\ doomed \subseteq BlobId
  /\ victim \in BlobId \cup {None}
  /\ dids \subseteq Device
  /\ rest \subseteq Device
  /\ rcv \in Device \cup {None}
  /\ rcv # None <=> cpc \in {"clear", "count"}
  /\ snds \subseteq Device
  /\ prune \subseteq Device

\* TypeOK is both.
LEMMA TypeHalves == (TypeOK <=> HandlersOK /\ CollectedOK) /\ (TypeOK' <=> HandlersOK' /\ CollectedOK')
BY DEF TypeOK, HandlersOK, CollectedOK

\* Compact keeps the types of the maps, ...
LEMMA CompactMapTypes ==
  ASSUME HandlersOK, CollectedOK, Compact
  PROVE  HandlersOK'
<1> USE DEF store, lock, HandlersOK
<1>1. CASE \E id \in BlobId : CompactBlob(id)
  <2>1. blobs' \in BlobMap
    BY <1>1, MapTypes DEF CompactBlob
  <2> QED BY <1>1, <2>1 DEF CompactBlob
<1>2. CASE CompactUnindex
  <2>1. blobIdx' \in IdxMap
    BY <1>2 DEF CompactUnindex, IdxMap
  <2> QED BY <1>2, <2>1 DEF CompactUnindex
<1>3. CASE CompactClear
  <2>1. rcv \in Device
    BY <1>3 DEF CompactClear, CollectedOK
  <2>2. inbox' \in InboxMap
    BY <1>3, <2>1 DEF CompactClear, InboxMap, IdxMap
  <2> QED BY <1>3, <2>2 DEF CompactClear
<1>4. ASSUME NEW r \in Device, CompactPrune(r)
      PROVE  HandlersOK'
  <2>1. inbox' \in InboxMap /\ boxes' \subseteq Device
    BY <1>4 DEF CompactPrune, InboxMap, EmptyBox, IdxMap
  <2> QED BY <1>4, <2>1 DEF CompactPrune
<1>5. CASE CompactScan \/ CompactCollect \/ CompactRange \/ (\E r \in Device : CompactVisit(r))
             \/ CompactCount \/ CompactRangeEnds \/ CompactNext
  BY <1>5 DEF CompactScan, CompactCollect, CompactRange, CompactVisit, CompactCount,
     CompactRangeEnds, CompactNext
<1> QED BY <1>1, <1>2, <1>3, <1>4, <1>5 DEF Compact

\* ... and of what it has collected.
LEMMA CompactCollectedTypes ==
  ASSUME CollectedOK, boxes \subseteq Device, Compact
  PROVE  CollectedOK'
<1> USE DEF CollectedOK, CPC
<1>1. CASE CompactScan
  BY <1>1 DEF CompactScan, ExpiredIds, LiveIds
<1>2. ASSUME NEW id \in BlobId, CompactBlob(id)
      PROVE  CollectedOK'
  BY <1>2 DEF CompactBlob
<1>3. CASE CompactCollect
  BY <1>3 DEF CompactCollect
<1>4. CASE CompactUnindex
  BY <1>4 DEF CompactUnindex
<1>5. CASE CompactRange
  BY <1>5 DEF CompactRange
<1>6. ASSUME NEW r \in Device, CompactVisit(r)
      PROVE  CollectedOK'
  BY <1>6, RelayAssumption DEF CompactVisit
<1>7. CASE CompactClear
  BY <1>7 DEF CompactClear
<1>8. CASE CompactCount
  BY <1>8 DEF CompactCount
<1>9. CASE CompactRangeEnds
  BY <1>9 DEF CompactRangeEnds
<1>10. ASSUME NEW r \in Device, CompactPrune(r)
       PROVE  CollectedOK'
  BY <1>10 DEF CompactPrune
<1>11. CASE CompactNext
  BY <1>11 DEF CompactNext
<1> QED BY <1>1, <1>2, <1>3, <1>4, <1>5, <1>6, <1>7, <1>8, <1>9, <1>10, <1>11 DEF Compact

\* No step of Compact breaks a type.
LEMMA CompactType ==
  ASSUME TypeOK, Shapes, Compact
  PROVE  TypeOK' /\ Shapes'
<1>1. Shapes'
  BY CompactFrame DEF Shapes
<1>2. boxes \subseteq Device
  BY DEF TypeOK
<1> QED BY <1>1, <1>2, TypeHalves, CompactMapTypes, CompactCollectedTypes

\* TypeOK is inductive with Shapes.
THEOREM TypeStep == TypeOK /\ Shapes /\ [Next]_vars => TypeOK' /\ Shapes'
<1> SUFFICES ASSUME TypeOK, Shapes, [Next]_vars PROVE TypeOK' /\ Shapes'
  OBVIOUS
<1> USE DEF PC, store, lock, cleaning
<1>1. ASSUME NEW h \in Handler, NEW d \in Device, BeginRegister(h, d)
      PROVE  TypeOK' /\ Shapes'
  <2>1. [NoRequest EXCEPT !.op = "register", !.dev = d] \in Request
        /\ Shape("lock_register", [NoRequest EXCEPT !.op = "register", !.dev = d])
    BY DEF NoRequest, Request, Op, Shape
  <2> QED BY <1>1, <2>1, AnswerType DEF BeginRegister, Goto, TypeOK
<1>2. ASSUME NEW h \in Handler, NEW d \in Device, NEW r \in Device,
             BeginUploadSelf(h, d) \/ BeginUploadTo(h, d, r)
      PROVE  TypeOK' /\ Shapes'
  BY <1>2, BeginUploadType
<1>3. ASSUME NEW h \in Handler, NEW d \in Device, ReadIdx(h, d)
      PROVE  TypeOK' /\ Shapes'
  <2> DEFINE r == [NoRequest EXCEPT !.op = "download", !.peer = d, !.id = blobIdx[d]]
  <2>1. r \in Request /\ [r EXCEPT !.status = "not_found"] \in Request
    BY DEF NoRequest, Request, Op, TypeOK, IdxMap
  <2>2. Shape("reply", [r EXCEPT !.status = "not_found"])
    BY DEF Shape
  <2>3. blobIdx[d] # None => Shape("read_blob", r)
    BY DEF Shape, NoRequest, TypeOK, IdxMap
  <2> QED BY <1>3, <2>1, <2>2, <2>3, AnswerType DEF ReadIdx, Answer, Goto, TypeOK
<1>4. ASSUME NEW h \in Handler, NEW d \in Device, NEW e \in Device,
             BeginList(h, d) \/ BeginFetch(h, d, e)
      PROVE  TypeOK' /\ Shapes'
  <2> DEFINE l == [NoRequest EXCEPT !.op = "list", !.dev = d]
             f == [NoRequest EXCEPT !.op = "fetch", !.dev = d, !.peer = e]
  <2>1. l \in Request /\ f \in Request /\ Shape("list", l) /\ Shape("read_slot", f)
    BY DEF NoRequest, Request, Op, Shape
  <2>2. Authenticate(h, l, "list") \/ Authenticate(h, f, "read_slot")
    BY <1>4 DEF BeginList, BeginFetch
  <2>3. pc' \in [Handler -> PC] /\ req' \in [Handler -> Request] /\ Shapes'
    BY <2>1, <2>2, AuthenticateType
  <2> QED BY <1>4, <2>2, <2>3 DEF BeginList, BeginFetch, Authenticate, TypeOK
<1>5. ASSUME NEW h \in Handler, Register(h)
      PROVE  TypeOK' /\ Shapes'
  <2>1. [req[h] EXCEPT !.status = "ok"] \in Request
        /\ Shape("reply", [req[h] EXCEPT !.status = "ok"])
        /\ req[h].dev \in Device
    BY <1>5 DEF Register, Request, Shape, Shapes, TypeOK
  <2> QED BY <1>5, <2>1, AnswerType DEF Register, Answer, Goto, TypeOK
<1>6. ASSUME NEW h \in Handler, Announce(h)
      PROVE  TypeOK' /\ Shapes'
  BY <1>6 DEF Announce, TypeOK, Shapes
<1>7. ASSUME NEW h \in Handler, LockSelf(h) \/ LockTo(h)
      PROVE  TypeOK' /\ Shapes'
  <2>1. req[h].blob \in Blob /\ req[h].id \in BlobId
        /\ (LockSelf(h) => Shape("put_idx", req[h])) /\ (LockTo(h) => Shape("make_box", req[h]))
    BY <1>7 DEF LockSelf, LockTo, Shape, Shapes
  <2>2. blobs' \in BlobMap
    BY <1>7, <2>1 DEF LockSelf, LockTo, PutBlob, TypeOK, BlobMap
  <2>3. pc' \in [Handler -> PC] /\ req' \in [Handler -> Request] /\ Shapes'
    BY <1>7, <2>1, GotoType DEF LockSelf, LockTo, Goto
  <2> QED BY <1>7, <2>2, <2>3 DEF LockSelf, LockTo, Lock, TypeOK
<1>8. ASSUME NEW h \in Handler, ReadBlob(h) \/ ReadSlotBlob(h)
      PROVE  TypeOK' /\ Shapes'
  <2> DEFINE blob == IF req[h].id = None THEN None ELSE blobs[req[h].id]
             r == [req[h] EXCEPT !.blob = blob,
                                 !.status = IF blob = None THEN "not_found" ELSE "ok"]
  <2>1. blob \in Blob \cup {None}
    BY DEF TypeOK, BlobMap, Request
  <2> HIDE DEF blob
  <2>2. r \in Request /\ Shape("reply", r)
    <3>1. req[h] \in Request
      BY DEF TypeOK
    <3> QED BY <2>1, <3>1 DEF Request, Shape
  <2>3. pc' = [pc EXCEPT ![h] = "reply"] /\ req' = [req EXCEPT ![h] = r]
    BY <1>8 DEF blob, ReadBlob, ReadSlotBlob, AnswerBlob, Answer, Goto
  <2>4. pc' \in [Handler -> PC] /\ req' \in [Handler -> Request] /\ Shapes'
    BY <2>2, <2>3, AnswerType
  <2> QED BY <1>8, <2>4 DEF ReadBlob, ReadSlotBlob, TypeOK
<1>9. ASSUME NEW h \in Handler, ListInbox(h)
      PROVE  TypeOK' /\ Shapes'
  <2> DEFINE items == Pending(inbox[req[h].dev])
             r == [req[h] EXCEPT !.status = "ok", !.items = items]
  <2>1. req[h].dev \in Device
    BY <1>9 DEF ListInbox, Shapes, Shape
  <2>2. items \subseteq Device \X BlobId
    BY <2>1 DEF Pending, Senders, TypeOK, InboxMap, IdxMap
  <2> HIDE DEF items
  <2>3. r \in Request /\ Shape("reply", r)
    <3>1. req[h] \in Request
      BY DEF TypeOK
    <3> QED BY <2>2, <3>1 DEF Request, Shape
  <2>4. pc' = [pc EXCEPT ![h] = "reply"] /\ req' = [req EXCEPT ![h] = r]
    BY <1>9 DEF items, ListInbox, Answer, Goto
  <2>5. pc' \in [Handler -> PC] /\ req' \in [Handler -> Request] /\ Shapes'
    BY <2>3, <2>4, AnswerType
  <2> QED BY <1>9, <2>5 DEF ListInbox, TypeOK
<1>10. ASSUME NEW h \in Handler, ReadSlot(h)
       PROVE  TypeOK' /\ Shapes'
  <2> DEFINE r == [req[h] EXCEPT !.id = inbox[req[h].dev][req[h].peer]]
  <2>1. Shape("read_slot", req[h])
    BY <1>10 DEF ReadSlot, Shapes
  <2>2. inbox[req[h].dev][req[h].peer] \in BlobId \cup {None}
    BY <2>1 DEF Shape, TypeOK, InboxMap, IdxMap
  <2>3. r \in Request /\ Shape("read_slot_blob", r)
    BY <2>1, <2>2 DEF TypeOK, Request, Shape
  <2>4. pc' \in [Handler -> PC] /\ req' \in [Handler -> Request] /\ Shapes'
    BY <1>10, <2>3, AnswerType DEF ReadSlot, Goto
  <2> QED BY <1>10, <2>4 DEF ReadSlot, TypeOK
<1>11. ASSUME NEW h \in Handler, PutIdx(h) \/ PutSlot(h)
       PROVE  TypeOK' /\ Shapes'
  <2>1. [req[h] EXCEPT !.status = "ok"] \in Request
        /\ Shape("reply", [req[h] EXCEPT !.status = "ok"])
    <3>1. req[h] \in Request
      BY DEF TypeOK
    <3> QED BY <3>1 DEF Request, Shape
  <2>2. pc' \in [Handler -> PC] /\ req' \in [Handler -> Request] /\ Shapes'
    BY <1>11, <2>1, AnswerType DEF PutIdx, PutSlot, Answer, Goto
  <2>3. CASE PutIdx(h)
    <3>1. req[h].id \in BlobId
      BY <2>3 DEF PutIdx, Shapes, Shape
    <3>2. blobIdx' \in IdxMap
      BY <2>3, <3>1 DEF PutIdx, TypeOK, IdxMap
    <3> QED BY <2>2, <2>3, <3>2 DEF PutIdx, TypeOK
  <2>4. CASE PutSlot(h)
    <3>1. req[h].id \in BlobId /\ req[h].dev \in Device /\ req[h].peer \in Device
      BY <2>4 DEF PutSlot, Shapes, Shape
    <3>2. \A box \in PutResults(inbox[req[h].peer], req[h].dev, req[h].id) : box \in IdxMap
      BY <3>1, PutResultsType DEF TypeOK, InboxMap
    <3>3. inbox' \in InboxMap
      BY <2>4, <3>1, <3>2 DEF PutSlot, TypeOK, InboxMap
    <3> QED BY <2>2, <2>4, <3>3 DEF PutSlot, TypeOK
  <2> QED BY <1>11, <2>3, <2>4
<1>12. ASSUME NEW h \in Handler, MakeBox(h) \/ LoadBox(h)
       PROVE  TypeOK' /\ Shapes'
  <2>1. req[h].peer \in Device /\ Shape("load_box", req[h]) /\ Shape("put_slot", req[h])
        /\ Shape("panicked", req[h])
    BY <1>12 DEF MakeBox, LoadBox, Shapes, Shape
  <2>2. pc' \in [Handler -> PC] /\ req' \in [Handler -> Request] /\ Shapes'
    BY <1>12, <2>1, GotoType DEF MakeBox, LoadBox, Goto
  <2> QED BY <1>12, <2>1, <2>2 DEF MakeBox, LoadBox, TypeOK
<1>13. ASSUME NEW h \in Handler, Reply(h)
       PROVE  TypeOK' /\ Shapes'
  <2>1. Shape("idle", NoRequest)
    BY DEF Shape
  <2> QED BY <1>13, <2>1, NoRequestType, AnswerType DEF Reply, Goto, TypeOK
<1>14. CASE AnnounceCleaner
  BY <1>14 DEF AnnounceCleaner, TypeOK, Shapes
<1>15. CASE CleanExpired
  <2>1. blobs' \in BlobMap /\ blobIdx' \in IdxMap /\ inbox' \in InboxMap
    BY <1>15, MapTypes DEF CleanExpired, TypeOK
  <2>2. boxes' \subseteq Device
    BY <1>15 DEF CleanExpired, TypeOK
  <2> QED BY <1>15, <2>1, <2>2 DEF CleanExpired, TypeOK, CPC, Shapes
<1>16. CASE Compact
  BY <1>16, CompactType
<1>17. CASE Tick
  BY <1>17, ServerAssumption DEF Tick, TypeOK, Shapes
<1>18. CASE UNCHANGED vars
  BY <1>18 DEF vars, TypeOK, Shapes
<1> QED BY <1>1, <1>2, <1>3, <1>4, <1>5, <1>6, <1>7, <1>8, <1>9, <1>10, <1>11, <1>12, <1>13,
           <1>14, <1>15, <1>16, <1>17, <1>18
        DEF Next, Arrive, Acquire, Proceed

\* NewStore's empty maps have their types.
LEMMA TypeInit == Init => TypeOK /\ Shapes
<1> SUFFICES ASSUME Init PROVE TypeOK /\ Shapes
  OBVIOUS
<1>1. Shape("idle", NoRequest)
  BY DEF Shape
<1> QED BY <1>1, NoRequestType, ServerAssumption
        DEF Init, TypeOK, Shapes, PC, CPC, BlobMap, IdxMap, InboxMap, EmptyBox

\* The server's maps, its lock and its handlers keep their types for ever.
THEOREM Typed == Spec => []TypeOK
<1> QED BY TypeInit, TypeStep, PTL DEF Spec

-----------------------------------------------------------------------------
\* What an ID was given to is never forgotten.
SentGrows == \A id \in BlobId : sent[id] # None => sent'[id] = sent[id]

\* With a clock that advances, only a new ID is ever given away.
LEMMA SentStep ==
  ASSUME ClockAdvances, TypeOK, [Next]_vars
  PROVE  SentGrows
<1>1. ASSUME NEW h \in Handler, NEW op, NEW d \in Device, NEW r \in Device, NEW p,
             BeginUpload(h, op, d, r, p)
      PROVE  SentGrows
  BY <1>1 DEF BeginUpload, FreshId, SentGrows, TypeOK
<1>2. sent' = sent => SentGrows
  BY DEF SentGrows
<1>3. ASSUME NEW h \in Handler, Arrive(h) PROVE SentGrows
  BY <1>1, <1>2, <1>3 DEF Arrive, BeginUploadSelf, BeginUploadTo, BeginRegister, ReadIdx,
     BeginList, BeginFetch
<1>4. ASSUME NEW h \in Handler, Acquire(h) \/ Proceed(h) PROVE SentGrows
  BY <1>2, <1>4 DEF Acquire, Proceed, Announce, Register, LockSelf, LockTo, ReadBlob, ListInbox,
     ReadSlot, PutIdx, MakeBox, LoadBox, PutSlot, ReadSlotBlob, Reply
<1>5. CASE AnnounceCleaner \/ CleanExpired \/ Compact \/ Tick \/ UNCHANGED vars
  BY <1>2, <1>5, CompactFrame DEF AnnounceCleaner, CleanExpired, Tick, vars
<1> QED BY <1>3, <1>4, <1>5 DEF Next

\* Entries that stay or go keep the maps traced.
LEMMA StoreFrame ==
  ASSUME TypeOK, SentGrows, StoreTraced,
         \A id \in BlobId : blobs'[id] \in {None, blobs[id]},
         \A d \in Device : blobIdx'[d] \in {None, blobIdx[d]},
         \A r, s \in Device : inbox'[r][s] \in {None, inbox[r][s]}
  PROVE  StoreTraced'
<1>1. \A id \in BlobId : \A s, r, via : IsLetter(id, s, r, via) => IsLetter(id, s, r, via)'
  BY DEF SentGrows, IsLetter
<1>2. ASSUME NEW id \in BlobId, blobs'[id] # None
      PROVE  sent'[id] # None /\ blobs'[id] = sent'[id].blob
  BY <1>2 DEF StoreTraced, SentGrows
<1>3. ASSUME NEW d \in Device, blobIdx'[d] # None
      PROVE  IsLetter(blobIdx[d], d, d, "upload")' 
  BY <1>1, <1>3 DEF StoreTraced, TypeOK, IdxMap, IsLetter
<1>4. ASSUME NEW r \in Device, NEW s \in Device, inbox'[r][s] # None
      PROVE  IsLetter(inbox[r][s], s, r, "upload_to")'
  <2>1. inbox'[r][s] = inbox[r][s] /\ inbox[r][s] \in BlobId
    BY <1>4 DEF TypeOK, InboxMap, IdxMap
  <2> QED BY <1>1, <1>4, <2>1 DEF StoreTraced, IsLetter
<1> QED BY <1>2, <1>3, <1>4 DEF StoreTraced

\* A handler that does not move keeps its trace.
LEMMA TracedStays ==
  ASSUME TypeOK, Shapes, SentGrows,
         NEW g \in Handler, Traced(g), pc'[g] = pc[g], req'[g] = req[g]
  PROVE  Traced(g)'
<1>1. Shape(pc[g], req[g]) /\ req[g] \in Request
  BY DEF Shapes, TypeOK
<1>2. req[g].id \in BlobId \cup {None} /\ req[g].items \subseteq Device \X BlobId
  BY <1>1 DEF Request
<1>3. \A id \in BlobId : \A s, r, via : IsLetter(id, s, r, via) => IsLetter(id, s, r, via)'
  BY DEF SentGrows, IsLetter
<1>4. pc[g] = "reply" /\ req[g].status = "ok" => RightAnswer(req[g])'
  <2> SUFFICES ASSUME pc[g] = "reply", req[g].status = "ok" PROVE RightAnswer(req[g])'
    OBVIOUS
  <2>1. /\ RightAnswer(req[g]) /\ req'[g] = req[g]
        /\ req[g].op \in {"fetch", "download"} => req[g].id \in BlobId
    BY DEF Traced
  <2>2. req[g].op = "list" =>
          \A item \in req[g].items : IsLetter(item[2], item[1], req[g].dev, "upload_to")'
    BY <1>2, <1>3, <2>1 DEF RightAnswer
  <2> QED BY <1>3, <2>1, <2>2 DEF RightAnswer, SentGrows, IsLetter
<1>5. /\ pc[g] \in {"lock_self", "put_idx", "lock_to", "make_box", "load_box", "put_slot", "read_blob"}
           => req[g].id \in BlobId
  BY <1>1 DEF Shape
<1> QED BY <1>2, <1>3, <1>4, <1>5 DEF Traced, SentGrows, IsLetter

\* An upload that may go may go for ever after.
LEMMA MayGoStays ==
  ASSUME SentGrows, now \in Nat, now' \in Nat, now' >= now,
         sent \in [BlobId -> Letter \cup {None}],
         NEW id \in BlobId, sent[id] # None, MayGo(sent[id].blob, now)
  PROVE  sent'[id] # None /\ MayGo(sent[id].blob, now)'
<1>1. sent[id] \in Letter /\ sent'[id] = sent[id]
  BY DEF SentGrows
<1>2. sent[id].blob.timestamp \in Nat /\ sent[id].blob.ttl \in Nat
  BY <1>1, RelayAssumption DEF Letter, Blob
<1> QED BY <1>1, <1>2 DEF MayGo, Outlived, Overflows

\* An upload that begins: the new ID is a letter of the caller's to the device
\* named, and nothing stored changes.
LEMMA BeginUploadTraced ==
  ASSUME Inv, SentGrows, TypeOK', Shapes', NEW h \in Handler, NEW d \in Device, NEW r \in Device,
         BeginUploadSelf(h, d) \/ BeginUploadTo(h, d, r)
  PROVE  StoreTraced' /\ \A g \in Handler : Traced(g)'
<1>1. PICK op \in {"upload", "upload_to"}, to \in Device, p \in {"lock_self", "lock_to"} :
        /\ BeginUpload(h, op, d, to, p)
        /\ op = "upload" => to = d
        /\ op = "upload" <=> p = "lock_self"
  BY DEF BeginUploadSelf, BeginUploadTo
<1>2. PICK id \in BlobId, ts \in Timestamp, ttl \in TTL :
        LET blob == [sender |-> d, timestamp |-> ts, ttl |-> ttl]
        IN  /\ FreshId(id)
            /\ Authenticate(h, [NoRequest EXCEPT !.op = op, !.dev = d, !.peer = to,
                                                 !.id = id, !.blob = blob], p)
            /\ sent' = IF d \notin devices THEN sent
                       ELSE [sent EXCEPT ![id] = [blob |-> blob, to |-> to, via |-> op]]
  BY <1>1 DEF BeginUpload
<1> DEFINE blob == [sender |-> d, timestamp |-> ts, ttl |-> ttl]
           q == [NoRequest EXCEPT !.op = op, !.dev = d, !.peer = to, !.id = id, !.blob = blob]
           u == [q EXCEPT !.status = "unauthorized", !.id = None, !.blob = None]
<1>3. /\ q.dev = d /\ q.peer = to /\ q.id = id /\ q.blob = blob /\ blob.sender = d
      /\ u.status = "unauthorized"
  BY DEF NoRequest
<1> HIDE DEF blob, q
<1>4. /\ Authenticate(h, q, p)
      /\ sent' = IF d \notin devices THEN sent
                 ELSE [sent EXCEPT ![id] = [blob |-> blob, to |-> to, via |-> op]]
  BY <1>2 DEF blob, q
<1>5. /\ blobs' = blobs /\ blobIdx' = blobIdx /\ inbox' = inbox
      /\ pc' = [pc EXCEPT ![h] = pc'[h]] /\ req' = [req EXCEPT ![h] = req'[h]]
      /\ \/ d \in devices /\ pc'[h] = p /\ req'[h] = q
         \/ d \notin devices /\ pc'[h] = "reply" /\ req'[h].status = "unauthorized"
  BY <1>3, <1>4 DEF Authenticate, Answer, Goto, store, Inv, TypeOK
<1>6. StoreTraced'
  BY <1>5, StoreFrame DEF Inv
<1>7. Traced(h)'
  <2>1. CASE d \in devices
    <3>1. pc'[h] = p /\ req'[h] = q /\ p \in {"lock_self", "lock_to"}
      BY <1>5, <2>1
    <3>2. [blob |-> blob, to |-> to, via |-> op] # None
      <4>1. blob \in Blob
        BY DEF blob, Blob
      <4> QED BY <4>1, ServerAssumption
    <3>3. sent'[id] # None /\ sent'[id].blob = blob /\ sent'[id].to = to /\ sent'[id].via = op
      BY <1>4, <2>1, <3>2 DEF Inv, TypeOK
    <3> QED BY <1>1, <1>3, <3>1, <3>3 DEF Traced, IsLetter
  <2>2. CASE d \notin devices
    BY <1>5, <2>2 DEF Traced
  <2> QED BY <2>1, <2>2
<1>8. ASSUME NEW g \in Handler, g # h PROVE Traced(g)'
  BY <1>5, <1>8, TracedStays DEF Inv, TypeOK
<1> QED BY <1>6, <1>7, <1>8

\* Provenance: what is stored, referred to, carried and answered is what was
\* uploaded, for the device it was uploaded for.
LEMMA TraceStep ==
  ASSUME ClockAdvances, Inv, TypeOK', Shapes', [Next]_vars
  PROVE  StoreTraced' /\ \A g \in Handler : Traced(g)'
<1> USE DEF store, lock, cleaning
<1>1. SentGrows
  BY SentStep DEF Inv
<1>2. blobs' = blobs /\ blobIdx' = blobIdx /\ inbox' = inbox => StoreTraced'
  BY <1>1, StoreFrame DEF Inv
<1>3. ASSUME NEW h \in Handler, Traced(h)', pc' = [pc EXCEPT ![h] = pc'[h]],
             req' = [req EXCEPT ![h] = req'[h]]
      PROVE  \A g \in Handler : Traced(g)'
  <2>1. ASSUME NEW g \in Handler, g # h PROVE Traced(g)'
    BY <1>1, <1>3, <2>1, TracedStays DEF Inv, TypeOK
  <2> QED BY <1>3, <2>1
<1>4. pc' = pc /\ req' = req => \A g \in Handler : Traced(g)'
  BY <1>1, TracedStays DEF Inv
<1>5. pc \in [Handler -> PC] /\ req \in [Handler -> Request]
  BY DEF Inv, TypeOK
<1>6. ASSUME NEW h \in Handler, NEW d \in Device, BeginRegister(h, d)
      PROVE  StoreTraced' /\ \A g \in Handler : Traced(g)'
  <2>1. Traced(h)'
    BY <1>5, <1>6 DEF BeginRegister, Goto, Traced
  <2> QED BY <1>2, <1>3, <1>5, <1>6, <2>1 DEF BeginRegister, Goto
<1>7. ASSUME NEW h \in Handler, NEW d \in Device, ReadIdx(h, d)
      PROVE  StoreTraced' /\ \A g \in Handler : Traced(g)'
  <2> DEFINE r == [NoRequest EXCEPT !.op = "download", !.peer = d, !.id = blobIdx[d]]
  <2>1. r.peer = d /\ r.id = blobIdx[d] /\ [r EXCEPT !.status = "not_found"].status = "not_found"
    BY DEF NoRequest
  <2>2. /\ UNCHANGED <<blobs, blobIdx, inbox, sent>>
        /\ pc' = [pc EXCEPT ![h] = pc'[h]] /\ req' = [req EXCEPT ![h] = req'[h]]
        /\ \/ pc'[h] = "read_blob" /\ req'[h] = r /\ blobIdx[d] # None
           \/ pc'[h] = "reply" /\ req'[h].status = "not_found"
    BY <1>5, <1>7, <2>1 DEF ReadIdx, Answer, Goto
  <2>3. Traced(h)'
    <3>1. blobIdx[d] # None => IsLetter(blobIdx[d], d, d, "upload")
      BY DEF Inv, StoreTraced
    <3> HIDE DEF r
    <3> QED BY <2>1, <2>2, <3>1 DEF Traced, IsLetter
  <2> QED BY <1>2, <1>3, <2>2, <2>3
<1>8. ASSUME NEW h \in Handler, NEW d \in Device, NEW e \in Device,
             BeginList(h, d) \/ BeginFetch(h, d, e)
      PROVE  StoreTraced' /\ \A g \in Handler : Traced(g)'
  <2>1. PICK r \in Request, to \in {"list", "read_slot"} : Authenticate(h, r, to)
    <3>1. /\ [NoRequest EXCEPT !.op = "list", !.dev = d] \in Request
          /\ [NoRequest EXCEPT !.op = "fetch", !.dev = d, !.peer = e] \in Request
      BY DEF NoRequest, Request, Op
    <3> QED BY <1>8, <3>1 DEF BeginList, BeginFetch
  <2>2. [r EXCEPT !.status = "unauthorized", !.id = None, !.blob = None].status = "unauthorized"
    BY DEF Request
  <2>3. /\ UNCHANGED <<blobs, blobIdx, inbox>>
        /\ pc' = [pc EXCEPT ![h] = pc'[h]] /\ req' = [req EXCEPT ![h] = req'[h]]
        /\ \/ pc'[h] \in {"list", "read_slot"}
           \/ pc'[h] = "reply" /\ req'[h].status = "unauthorized"
    BY <1>5, <2>1, <2>2 DEF Authenticate, Answer, Goto
  <2>4. Traced(h)'
    BY <2>3 DEF Traced
  <2> QED BY <1>2, <1>3, <2>3, <2>4
<1>9. ASSUME NEW h \in Handler, Register(h) \/ Reply(h)
      PROVE  StoreTraced' /\ \A g \in Handler : Traced(g)'
  <2>1. Register(h) => req[h].op = "register"
    BY DEF Register, Inv, Shapes, Shape
  <2>2. Traced(h)'
    BY <1>5, <1>9, <2>1 DEF Register, Reply, Answer, Goto, Request, Traced, RightAnswer
  <2> QED BY <1>2, <1>3, <1>5, <1>9, <2>2 DEF Register, Reply, Answer, Goto
<1>10. ASSUME NEW h \in Handler, LockSelf(h) \/ LockTo(h)
       PROVE  StoreTraced' /\ \A g \in Handler : Traced(g)'
  <2>1. /\ req[h].id \in BlobId /\ req[h].blob = sent[req[h].id].blob /\ sent[req[h].id] # None
        /\ blobs' = [blobs EXCEPT ![req[h].id] = req[h].blob]
        /\ UNCHANGED <<blobIdx, inbox, req, sent>>
    BY <1>10 DEF LockSelf, LockTo, PutBlob, Inv, Shapes, Shape, Traced, IsLetter
  <2>2. StoreTraced'
    BY <2>1 DEF Inv, StoreTraced, TypeOK, BlobMap, IsLetter
  <2>3. Traced(h)'
    BY <1>5, <1>10, <2>1 DEF Inv, LockSelf, LockTo, Goto, Traced, IsLetter
  <2> QED BY <1>3, <1>5, <1>10, <2>2, <2>3 DEF LockSelf, LockTo, Goto
<1>11. ASSUME NEW h \in Handler, ReadBlob(h) \/ ReadSlotBlob(h)
       PROVE  StoreTraced' /\ \A g \in Handler : Traced(g)'
  <2> DEFINE blob == IF req[h].id = None THEN None ELSE blobs[req[h].id]
             r == [req[h] EXCEPT !.blob = blob,
                                 !.status = IF blob = None THEN "not_found" ELSE "ok"]
  <2>1. /\ pc' = [pc EXCEPT ![h] = "reply"] /\ req' = [req EXCEPT ![h] = r]
        /\ UNCHANGED <<blobs, blobIdx, inbox, sent>>
    BY <1>11 DEF ReadBlob, ReadSlotBlob, AnswerBlob, Answer, Goto
  <2>2. pc'[h] = "reply" /\ req'[h] = r
    BY <1>5, <2>1
  <2>3. /\ r.op = req[h].op /\ r.id = req[h].id /\ r.dev = req[h].dev /\ r.peer = req[h].peer
        /\ r.blob = blob /\ (r.status = "ok" => blob # None)
    BY <1>5 DEF Request
  <2>4. blob # None => req[h].id \in BlobId /\ blob = sent[req[h].id].blob
    BY <1>5 DEF Inv, StoreTraced, Request
  <2>5. /\ ReadBlob(h) => req[h].op = "download" /\ IsLetter(req[h].id, req[h].peer, req[h].peer, "upload")
        /\ ReadSlotBlob(h) => /\ req[h].op = "fetch"
                              /\ req[h].id # None => IsLetter(req[h].id, req[h].peer, req[h].dev, "upload_to")
    BY DEF ReadBlob, ReadSlotBlob, Inv, Traced, Shapes, Shape
  <2> HIDE DEF blob, r
  <2>6. Traced(h)'
    <3>1. blob # None => req[h].id # None
      BY DEF blob
    <3> QED BY <1>11, <2>1, <2>2, <2>3, <2>4, <2>5, <3>1 DEF Traced, RightAnswer, IsLetter
  <2> QED BY <1>2, <1>3, <1>5, <2>1, <2>6
<1>12. ASSUME NEW h \in Handler, ListInbox(h)
       PROVE  StoreTraced' /\ \A g \in Handler : Traced(g)'
  <2> DEFINE items == Pending(inbox[req[h].dev])
             r == [req[h] EXCEPT !.status = "ok", !.items = items]
  <2>1. req[h].op = "list" /\ req[h].dev \in Device
    BY <1>12 DEF ListInbox, Inv, Shapes, Shape
  <2>2. /\ pc' = [pc EXCEPT ![h] = "reply"] /\ req' = [req EXCEPT ![h] = r]
        /\ UNCHANGED <<blobs, blobIdx, inbox, sent>>
    BY <1>12 DEF ListInbox, Answer, Goto
  <2>3. ASSUME NEW item \in items PROVE IsLetter(item[2], item[1], req[h].dev, "upload_to")
    <3>1. PICK s \in Device : item = <<s, inbox[req[h].dev][s]>> /\ inbox[req[h].dev][s] # None
      BY <2>3 DEF Pending, Senders
    <3> QED BY <2>1, <3>1 DEF Inv, StoreTraced
  <2>4. r.op = "list" /\ r.dev = req[h].dev /\ r.items = items
    BY <1>5, <2>1 DEF Request
  <2> HIDE DEF items, r
  <2>5. Traced(h)'
    BY <1>5, <2>1, <2>2, <2>3, <2>4 DEF Traced, RightAnswer, IsLetter
  <2> QED BY <1>2, <1>3, <1>5, <2>2, <2>5
<1>13. ASSUME NEW h \in Handler, ReadSlot(h)
       PROVE  StoreTraced' /\ \A g \in Handler : Traced(g)'
  <2>1. req[h].dev \in Device /\ req[h].peer \in Device
    BY <1>13 DEF ReadSlot, Inv, Shapes, Shape
  <2>2. /\ pc' = [pc EXCEPT ![h] = "read_slot_blob"]
        /\ req' = [req EXCEPT ![h].id = inbox[req[h].dev][req[h].peer]]
        /\ UNCHANGED <<blobs, blobIdx, inbox, sent>>
    BY <1>13 DEF ReadSlot, Goto
  <2>3. /\ pc'[h] = "read_slot_blob" /\ req'[h].id = inbox[req[h].dev][req[h].peer]
        /\ req'[h].dev = req[h].dev /\ req'[h].peer = req[h].peer
        /\ req' = [req EXCEPT ![h] = req'[h]]
    BY <1>5, <2>2 DEF Request
  <2>4. Traced(h)'
    <3>1. LET id == inbox[req[h].dev][req[h].peer]
          IN  id # None => IsLetter(id, req[h].peer, req[h].dev, "upload_to")
      BY <2>1 DEF Inv, StoreTraced
    <3> QED BY <2>2, <2>3, <3>1 DEF Traced, IsLetter
  <2> QED BY <1>2, <1>3, <1>5, <2>2, <2>3, <2>4
<1>14. ASSUME NEW h \in Handler, PutIdx(h)
       PROVE  StoreTraced' /\ \A g \in Handler : Traced(g)'
  <2>1. /\ req[h].op = "upload" /\ req[h].dev \in Device
        /\ IsLetter(req[h].id, req[h].dev, req[h].dev, "upload")
    BY <1>14 DEF PutIdx, Inv, Shapes, Shape, Traced
  <2>2. StoreTraced'
    <3>1. /\ UNCHANGED <<blobs, inbox, sent>>
          /\ \A d \in Device : blobIdx'[d] = IF d = req[h].dev THEN req[h].id ELSE blobIdx[d]
      BY <1>14, <2>1 DEF PutIdx, Inv, TypeOK, IdxMap
    <3> QED BY <2>1, <3>1 DEF Inv, StoreTraced, IsLetter
  <2>3. Traced(h)'
    BY <1>5, <1>14, <2>1 DEF PutIdx, Answer, Goto, Request, Traced, RightAnswer
  <2> QED BY <1>3, <1>5, <1>14, <2>2, <2>3 DEF PutIdx, Answer, Goto
<1>15. ASSUME NEW h \in Handler, PutSlot(h)
       PROVE  StoreTraced' /\ \A g \in Handler : Traced(g)'
  <2> DEFINE to == req[h].peer
  <2>1. /\ req[h].op = "upload_to" /\ req[h].dev \in Device /\ to \in Device /\ req[h].id \in BlobId
        /\ IsLetter(req[h].id, req[h].dev, to, "upload_to")
    BY <1>15 DEF PutSlot, Inv, Shapes, Shape, Traced
  <2>2. UNCHANGED <<blobs, blobIdx, sent>> /\ inbox \in InboxMap
    BY <1>15 DEF PutSlot, Inv, TypeOK
  <2>3. ASSUME NEW q \in Device, NEW s \in Device, inbox'[q][s] # None
        PROVE  IsLetter(inbox[q][s], s, q, "upload_to")'
    <3>1. \/ inbox'[q][s] = inbox[q][s]
          \/ q = to /\ s = req[h].dev /\ inbox'[q][s] = req[h].id
      <4>1. CASE inbox' = inbox
        BY <4>1
      <4>2. CASE inbox' # inbox
        <5>1. PICK box \in PutResults(inbox[to], req[h].dev, req[h].id) :
                inbox' = [inbox EXCEPT ![to] = box]
          BY <1>15, <4>2 DEF PutSlot
        <5>2. \A t \in Device : box[t] \in {None, inbox[to][t]} \/ (t = req[h].dev /\ box[t] = req[h].id)
          BY <2>1, <2>2, PutResultsType DEF InboxMap
        <5> QED BY <2>1, <2>2, <2>3, <5>1, <5>2 DEF InboxMap
      <4> QED BY <4>1, <4>2
    <3> QED BY <2>1, <2>2, <2>3, <3>1 DEF Inv, StoreTraced, IsLetter
  <2>4. StoreTraced'
    BY <2>2, <2>3 DEF Inv, StoreTraced, IsLetter
  <2>5. Traced(h)'
    BY <1>5, <1>15, <2>1 DEF PutSlot, Answer, Goto, Request, Traced, RightAnswer
  <2> QED BY <1>3, <1>5, <1>15, <2>4, <2>5 DEF PutSlot, Answer, Goto
<1>16. ASSUME NEW h \in Handler, MakeBox(h) \/ LoadBox(h)
       PROVE  StoreTraced' /\ \A g \in Handler : Traced(g)'
  <2>1. Traced(h)'
    BY <1>5, <1>16 DEF MakeBox, LoadBox, Goto, Inv, Traced, IsLetter
  <2> QED BY <1>2, <1>3, <1>5, <1>16, <2>1 DEF MakeBox, LoadBox, Goto
<1>17. CASE CleanExpired
  <2>1. StoreTraced'
    BY <1>1, <1>17, StoreFrame DEF CleanExpired, Inv, BlobsWithout, RefsWithout, InboxWithout
  <2> QED BY <1>4, <1>17, <2>1 DEF CleanExpired
<1>18. CASE Compact
  <2>1. StoreTraced'
    BY <1>1, <1>18, CompactFrame, StoreFrame DEF Inv
  <2> QED BY <1>4, <1>18, <2>1, CompactFrame DEF Inv
<1>19. CASE AnnounceCleaner \/ Tick \/ UNCHANGED vars \/ \E h \in Handler : Announce(h)
  BY <1>2, <1>4, <1>19 DEF AnnounceCleaner, Tick, vars, Announce
<1> QED BY <1>1, <1>6, <1>7, <1>8, <1>9, <1>10, <1>11, <1>12, <1>13, <1>14, <1>15, <1>16, <1>17,
           <1>18, <1>19, BeginUploadTraced
        DEF Next, Arrive, Acquire, Proceed

-----------------------------------------------------------------------------
\* A request arrives with its token looked up, or needs none.
LEMMA Arrivals ==
  ASSUME NEW h \in Handler, Arrive(h)
  PROVE  \/ \E d \in Device : BeginRegister(h, d) \/ ReadIdx(h, d)
         \/ \E r : \E p \in {"lock_self", "lock_to", "list", "read_slot"} : Authenticate(h, r, p)
<1>1. ASSUME NEW op, NEW d, NEW r, NEW p \in {"lock_self", "lock_to"}, BeginUpload(h, op, d, r, p)
      PROVE  \E q : Authenticate(h, q, p)
  BY <1>1 DEF BeginUpload
<1>2. ASSUME NEW d \in Device, NEW r \in Device,
             BeginUploadSelf(h, d) \/ BeginUploadTo(h, d, r)
      PROVE  \E q : \E p \in {"lock_self", "lock_to"} : Authenticate(h, q, p)
  BY <1>1, <1>2 DEF BeginUploadSelf, BeginUploadTo
<1>3. ASSUME NEW d \in Device, NEW s \in Device, BeginList(h, d) \/ BeginFetch(h, d, s)
      PROVE  \E q : \E p \in {"list", "read_slot"} : Authenticate(h, q, p)
  BY <1>3 DEF BeginList, BeginFetch
<1> QED BY <1>2, <1>3 DEF Arrive

\* What the steps leave alone: a request that arrives changes no map, ...
LEMMA ArriveFrame ==
  ASSUME NEW h \in Handler, Arrive(h)
  PROVE  UNCHANGED <<now, blobs, blobIdx, inbox, boxes, doomed>>
<1> USE DEF store, lock, cleaning
<1>1. ASSUME NEW r, NEW p, Authenticate(h, r, p)
      PROVE  UNCHANGED <<now, blobs, blobIdx, inbox, boxes, doomed>>
  BY <1>1 DEF Authenticate
<1> QED BY <1>1, Arrivals DEF BeginRegister, ReadIdx

\* ... no handler touches the clock or Compact's variables, ...
LEMMA HandlerFrame ==
  ASSUME NEW h \in Handler, Acquire(h) \/ Proceed(h)
  PROVE  /\ UNCHANGED <<now, doomed, sent>>
         /\ blobs' = blobs \/ LockSelf(h) \/ LockTo(h)
<1> USE DEF store, lock, cleaning
<1>1. CASE Acquire(h)
  BY <1>1 DEF Acquire, Announce, Register, LockSelf, LockTo, ReadBlob, ListInbox, ReadSlot
<1>2. CASE Proceed(h)
  BY <1>2 DEF Proceed, PutIdx, MakeBox, LoadBox, PutSlot, ReadSlotBlob, Reply
<1> QED BY <1>1, <1>2

\* ... and of the other steps only Tick moves the clock and two drop blobs.
LEMMA CleanerFrame ==
  ASSUME TypeOK, AnnounceCleaner \/ CleanExpired \/ Compact \/ Tick \/ UNCHANGED vars
  PROVE  /\ now' \in {now, now + 1}
         /\ doomed' \subseteq doomed \/ CompactScan
         /\ blobs' = blobs \/ CleanExpired \/ \E id \in BlobId : CompactBlob(id)
         /\ pc' = pc /\ req' = req /\ sent' = sent
BY CompactFrame DEF AnnounceCleaner, CleanExpired, Tick, vars, store, lock, cleaning

\* The steps that write to the index or to an inbox.
LEMMA InboxFrame ==
  ASSUME [Next]_vars
  PROVE  \/ UNCHANGED <<blobIdx, inbox>>
         \/ \E h \in Handler : PutIdx(h) /\ inbox' = inbox
         \/ \E h \in Handler : PutSlot(h) /\ blobIdx' = blobIdx
         \/ CleanExpired \/ Compact
<1> USE DEF store, lock, cleaning
<1>1. ASSUME NEW h \in Handler, Acquire(h) PROVE UNCHANGED <<blobIdx, inbox>>
  BY <1>1 DEF Acquire, Announce, Register, LockSelf, LockTo, ReadBlob, ListInbox, ReadSlot
<1>2. ASSUME NEW h \in Handler, Proceed(h)
      PROVE  \/ UNCHANGED <<blobIdx, inbox>>
             \/ PutIdx(h) /\ inbox' = inbox
             \/ PutSlot(h) /\ blobIdx' = blobIdx
  <2>1. (PutIdx(h) => inbox' = inbox) /\ (PutSlot(h) => blobIdx' = blobIdx)
    BY DEF PutIdx, PutSlot
  <2>2. MakeBox(h) \/ LoadBox(h) \/ ReadSlotBlob(h) \/ Reply(h) => UNCHANGED <<blobIdx, inbox>>
    BY DEF MakeBox, LoadBox, ReadSlotBlob, Reply
  <2> QED BY <1>2, <2>1, <2>2 DEF Proceed
<1>3. AnnounceCleaner \/ Tick \/ UNCHANGED vars => UNCHANGED <<blobIdx, inbox>>
  BY DEF AnnounceCleaner, Tick, vars
<1> QED BY <1>1, <1>2, <1>3, ArriveFrame DEF Next

\* The expired IDs of the store are those of uploads that may go.
LEMMA ExpiredAreSent ==
  ASSUME TypeOK, StoreTraced, NEW id \in ExpiredIds(blobs, now)
  PROVE  blobs[id] # None /\ sent[id] # None /\ MayGo(blobs[id], now) /\ MayGo(sent[id].blob, now)
<1>1. id \in BlobId /\ blobs[id] # None /\ Expired(blobs[id], now) /\ now \in Nat
  BY ServerAssumption DEF ExpiredIds, LiveIds, TypeOK
<1>2. blobs[id] \in Blob
  BY <1>1 DEF TypeOK, BlobMap
<1>3. MayGo(blobs[id], now)
  BY <1>1, <1>2, ExpiredMayGo
<1> QED BY <1>1, <1>3 DEF StoreTraced

\* A step condemns expired blobs only, and only such leave the store.
LEMMA DropStep ==
  ASSUME ClockAdvances, Inv, [Next]_vars
  PROVE  /\ DoomedExpired'
         /\ \A id \in BlobId : blobs[id] # None /\ blobs'[id] = None => MayGo(blobs[id], now)
<1> USE DEF store, lock, cleaning
<1>1. SentGrows
  BY SentStep DEF Inv
<1>2. now \in Nat /\ sent \in [BlobId -> Letter \cup {None}] /\ doomed \subseteq BlobId
  BY ServerAssumption DEF Inv, TypeOK
<1>3. /\ now' \in {now, now + 1}
      /\ doomed' \subseteq doomed \/ CompactScan
      /\ \/ blobs' = blobs
         \/ CleanExpired \/ \E id \in BlobId : CompactBlob(id)
         \/ \E h \in Handler : LockSelf(h) \/ LockTo(h)
  BY ArriveFrame, HandlerFrame, CleanerFrame DEF Next, Inv
<1>4. doomed' \subseteq doomed => DoomedExpired'
  BY <1>1, <1>2, <1>3, MayGoStays DEF Inv, DoomedExpired
<1>5. CASE CompactScan
  BY <1>5, ExpiredAreSent DEF CompactScan, Inv, DoomedExpired
<1>6. ASSUME NEW id \in BlobId, blobs[id] # None, blobs'[id] = None
      PROVE  MayGo(blobs[id], now)
  <2>1. CASE CleanExpired
    BY <1>6, <2>1, ExpiredAreSent DEF CleanExpired, BlobsWithout, Inv
  <2>2. ASSUME NEW i \in BlobId, CompactBlob(i)
        PROVE  MayGo(blobs[id], now)
    BY <1>6, <2>2 DEF CompactBlob, BlobsWithout, Inv, DoomedExpired, StoreTraced
  <2>3. ASSUME NEW h \in Handler, LockSelf(h) \/ LockTo(h)
        PROVE  MayGo(blobs[id], now)
    <3>1. req[h].blob # None
      BY <2>3, RelayAssumption DEF LockSelf, LockTo, Inv, Shapes, Shape
    <3> QED BY <1>6, <2>3, <3>1 DEF LockSelf, LockTo, PutBlob, Inv, TypeOK, BlobMap
  <2> QED BY <1>3, <1>6, <2>1, <2>2, <2>3
<1> QED BY <1>3, <1>4, <1>5, <1>6

\* An ID stays stored or expired.
LEMMA KeptStep ==
  ASSUME ClockAdvances, Inv, [Next]_vars, NEW id \in BlobId, KeptOrExpired(id)
  PROVE  KeptOrExpired(id)'
<1>1. SentGrows
  BY SentStep DEF Inv
<1>2. now' \in {now, now + 1} /\ now \in Nat /\ sent \in [BlobId -> Letter \cup {None}]
  BY ServerAssumption, ArriveFrame, HandlerFrame, CleanerFrame DEF Next, Inv, TypeOK
<1>3. CASE sent[id] # None /\ MayGo(sent[id].blob, now)
  BY <1>1, <1>2, <1>3, MayGoStays DEF KeptOrExpired
<1>4. CASE blobs[id] # None /\ blobs'[id] = None
  <2>1. sent[id] # None /\ MayGo(sent[id].blob, now)
    BY <1>4, DropStep DEF Inv, StoreTraced
  <2> QED BY <1>1, <1>2, <2>1, MayGoStays DEF KeptOrExpired
<1> QED BY <1>3, <1>4 DEF KeptOrExpired

\* A handler comes to refer to a blob only by putting it.
LEMMA LandingMoves ==
  ASSUME TypeOK, pc \in [Handler -> PC], req \in [Handler -> Request], [Next]_vars, NEW h \in Handler,
         pc'[h] \in {"put_idx", "make_box", "load_box", "put_slot"}
  PROVE  \/ pc[h] \in {"put_idx", "make_box", "load_box", "put_slot"} /\ req'[h] = req[h]
         \/ LockSelf(h) \/ LockTo(h)
<1> USE DEF Goto, Answer, store, lock, cleaning
<1>1. ASSUME NEW g \in Handler, Arrive(g)
      PROVE  pc'[h] = pc[h] /\ req'[h] = req[h]
  <2>1. ASSUME NEW r, NEW to \in {"lock_self", "lock_to", "list", "read_slot"}, Authenticate(g, r, to)
        PROVE  pc'[h] = pc[h] /\ req'[h] = req[h]
    BY <2>1 DEF Authenticate
  <2>2. ASSUME NEW d \in Device, BeginRegister(g, d) \/ ReadIdx(g, d)
        PROVE  pc'[h] = pc[h] /\ req'[h] = req[h]
    BY <2>2 DEF BeginRegister, ReadIdx
  <2> QED BY <1>1, <2>1, <2>2, Arrivals
<1>2. ASSUME NEW g \in Handler, Acquire(g)
      PROVE  \/ pc'[h] = pc[h] /\ req'[h] = req[h]
             \/ LockSelf(h) \/ LockTo(h)
  BY <1>2 DEF Acquire, Announce, Register, LockSelf, LockTo, ReadBlob, AnswerBlob, ListInbox, ReadSlot
<1>3. ASSUME NEW g \in Handler, Proceed(g)
      PROVE  pc[h] \in {"put_idx", "make_box", "load_box", "put_slot"} /\ req'[h] = req[h]
  BY <1>3 DEF Proceed, PutIdx, MakeBox, LoadBox, PutSlot, ReadSlotBlob, AnswerBlob, Reply
<1> QED BY <1>1, <1>2, <1>3, CleanerFrame DEF Next

\* What a handler is about to refer to stays stored or expired.
LEMMA LandingStep ==
  ASSUME ClockAdvances, Inv, TypeOK', [Next]_vars
  PROVE  LandingKept'
<1> USE DEF store, lock, cleaning
<1> SUFFICES ASSUME NEW h \in Handler, pc'[h] \in {"put_idx", "make_box", "load_box", "put_slot"}
             PROVE  KeptOrExpired(req[h].id)'
  BY DEF LandingKept
<1>1. pc \in [Handler -> PC] /\ req \in [Handler -> Request]
  BY DEF Inv, TypeOK
<1>2. CASE /\ pc[h] \in {"put_idx", "make_box", "load_box", "put_slot"} /\ req'[h] = req[h]
  <2>1. PICK id \in BlobId : id = req[h].id /\ KeptOrExpired(id)
    BY <1>2 DEF Inv, Shapes, Shape, LandingKept
  <2>2. KeptOrExpired(id)'
    BY <2>1, KeptStep
  <2> QED BY <1>2, <2>1, <2>2 DEF KeptOrExpired
<1>3. CASE LockSelf(h) \/ LockTo(h)
  <2>1. req[h].id \in BlobId /\ req[h].blob # None /\ req'[h] = req[h] /\ blobs \in BlobMap
    BY <1>3, RelayAssumption DEF LockSelf, LockTo, Inv, Shapes, Shape, TypeOK
  <2> QED BY <1>3, <2>1 DEF LockSelf, LockTo, PutBlob, KeptOrExpired, BlobMap
<1> QED BY <1>1, <1>2, <1>3, LandingMoves DEF Inv

\* References lead to uploads that are stored or expired.
LEMMA DanglingStep ==
  ASSUME ClockAdvances, Inv, TypeOK', StoreTraced', [Next]_vars
  PROVE  DanglingOnlyExpired'
<1> USE DEF store, lock, cleaning
<1>1. SUFFICES ASSUME NEW id \in BlobId, NEW d \in Device,
                      (blobIdx[d] = id \/ \E s \in Device : inbox[d][s] = id)'
               PROVE  KeptOrExpired(id)'
  BY DEF DanglingOnlyExpired, KeptOrExpired
<1>2. ASSUME blobIdx[d] = id \/ \E s \in Device : inbox[d][s] = id
      PROVE  KeptOrExpired(id)'
  <2>1. KeptOrExpired(id)
    BY <1>2 DEF Inv, DanglingOnlyExpired, KeptOrExpired
  <2> QED BY <2>1, KeptStep
<1>3. ASSUME NEW h \in Handler, PutIdx(h) \/ PutSlot(h)
      PROVE  \/ blobIdx[d] = id \/ \E s \in Device : inbox[d][s] = id
             \/ req[h].id = id
  <2>1. id # None
    BY RelayAssumption
  <2>2. CASE PutIdx(h)
    BY <1>1, <2>2 DEF PutIdx, Inv, TypeOK, IdxMap
  <2>3. CASE PutSlot(h) /\ inbox' # inbox
    <3>1. PICK box \in PutResults(inbox[req[h].peer], req[h].dev, req[h].id) :
            inbox' = [inbox EXCEPT ![req[h].peer] = box]
      BY <2>3 DEF PutSlot
    <3>2. req[h].peer \in Device /\ req[h].dev \in Device /\ req[h].id \in BlobId
      BY <2>3 DEF PutSlot, Inv, Shapes, Shape
    <3>3. \A t \in Device : box[t] \in {None, inbox[req[h].peer][t]} \/ box[t] = req[h].id
      BY <3>2, PutResultsType DEF Inv, TypeOK, InboxMap
    <3> QED BY <1>1, <2>1, <2>3, <3>1, <3>2, <3>3 DEF PutSlot, Inv, TypeOK, InboxMap
  <2> QED BY <1>1, <1>3, <2>2, <2>3 DEF PutSlot
<1>4. ASSUME NEW h \in Handler, PutIdx(h) \/ PutSlot(h)
      PROVE  KeptOrExpired(id)'
  <2>1. req[h].id = id => KeptOrExpired(id)
    BY <1>4 DEF PutIdx, PutSlot, Inv, LandingKept
  <2> QED BY <1>2, <1>3, <1>4, <2>1, KeptStep
<1>5. CASE CleanExpired
  BY <1>1, <1>2, <1>5, RelayAssumption DEF CleanExpired, RefsWithout, InboxWithout
<1>6. CASE Compact
  BY <1>1, <1>2, <1>6, CompactFrame, RelayAssumption DEF Inv
<1>7. ASSUME UNCHANGED <<blobIdx, inbox>> PROVE KeptOrExpired(id)'
  BY <1>1, <1>2, <1>7
<1>8. \/ UNCHANGED <<blobIdx, inbox>>
      \/ \E h \in Handler : PutIdx(h) \/ PutSlot(h)
      \/ CleanExpired \/ Compact
  BY InboxFrame
<1> QED BY <1>4, <1>5, <1>6, <1>7, <1>8

-----------------------------------------------------------------------------
\* The inductive invariant holds of NewStore's empty maps.
LEMMA InvInit == Init => Inv
<1> SUFFICES ASSUME Init PROVE Inv
  OBVIOUS
<1>1. \A h \in Handler : Traced(h)
  BY DEF Init, Traced
<1> QED BY <1>1, TypeInit, RelayAssumption
        DEF Init, Inv, StoreTraced, DoomedExpired, LandingKept, DanglingOnlyExpired, EmptyBox

\* Inv is inductive as long as the clock advances between two uploads.
LEMMA InvStep == ClockAdvances /\ Inv /\ [Next]_vars => Inv'
<1> SUFFICES ASSUME ClockAdvances, Inv, [Next]_vars PROVE Inv'
  OBVIOUS
<1>1. TypeOK' /\ Shapes'
  BY TypeStep DEF Inv
<1>2. StoreTraced' /\ \A h \in Handler : Traced(h)'
  BY <1>1, TraceStep
<1> QED BY <1>1, <1>2, DropStep, LandingStep, DanglingStep DEF Inv

\* The inductive invariant holds for ever, when blob IDs do not repeat.
LEMMA InvHolds == ASSUME ClockAdvances PROVE Spec => []Inv
BY InvInit, InvStep, PTL DEF Spec

\* A fetch or a listing that is answered is of what the senders it names uploaded to the
\* caller, and a download, which is answered to anyone, of what the device it names
\* uploaded to itself.
THEOREM AnswersAreTheSenders == ASSUME ClockAdvances PROVE Spec => []AnswerIsTheSenders
<1>1. Inv => AnswerIsTheSenders
  BY DEF Inv, Traced, AnswerIsTheSenders
<1> QED BY <1>1, InvHolds, PTL

\* A reference that leads nowhere led to an upload whose TTL is over or does not fit
\* into a Duration, whatever Compact does between a handler's steps.
THEOREM OnlyExpiredDangle == ASSUME ClockAdvances PROVE Spec => []DanglingOnlyExpired
<1>1. Inv => DanglingOnlyExpired
  BY DEF Inv
<1> QED BY <1>1, InvHolds, PTL

\* No step of a handler, of the cleanup or of Compact drops a blob before its time,
\* unless its TTL does not fit into a Duration.
THEOREM OnlyExpiredDropped == ASSUME ClockAdvances PROVE Spec => DropsOnlyExpired
<1>1. Inv /\ [Next]_vars =>
        [\A id \in BlobId : blobs[id] # None /\ blobs'[id] = None => MayGo(blobs[id], now)]_vars
  BY DropStep
<1> QED BY <1>1, InvHolds, PTL DEF Spec, DropsOnlyExpired

-----------------------------------------------------------------------------
\* A box holds finitely many entries, and fewer when some are removed.
LEMMA FewerSenders ==
  ASSUME NEW box, NEW b, \A t \in Device : b[t] \in {None, box[t]}
  PROVE  /\ IsFiniteSet(Senders(box)) /\ Cardinality(Senders(box)) \in Nat
         /\ Cardinality(Senders(b)) \in Nat /\ Cardinality(Senders(b)) <= Cardinality(Senders(box))
<1>1. Senders(box) \subseteq Device /\ Senders(b) \subseteq Senders(box)
  BY DEF Senders
<1>2. IsFiniteSet(Senders(box))
  BY <1>1, RelayAssumption, FS_Subset
<1> QED BY <1>1, <1>2, FS_Subset, FS_CardinalityType

\* An upload to a box within the cap of handleUploadTo leaves it within the cap: it
\* drops at most one entry, of another sender, and only for an entry it has added
\* to a full box.
LEMMA PutResultsCap ==
  ASSUME NEW box \in IdxMap, Cardinality(Senders(box)) <= MaxInbox,
         NEW s \in Device, NEW id \in BlobId, NEW b \in PutResults(box, s, id)
  PROVE  /\ Cardinality(Senders(b)) <= MaxInbox
         /\ \/ b = [box EXCEPT ![s] = id]
            \/ /\ box[s] = None /\ Cardinality(Senders(box)) >= MaxInbox
               /\ \E t \in Device \ {s} : b = Drop([box EXCEPT ![s] = id], t)
<1> DEFINE put == [box EXCEPT ![s] = id]
<1>1. put \in IdxMap /\ Senders(put) \subseteq Senders(box) \cup {s}
      /\ (box[s] # None => Senders(put) \subseteq Senders(box))
  BY DEF IdxMap, Senders
<1>2. PICK c \in Capped(put, Senders(put) \ {s}) : b \in Capped(c, Senders(c))
  BY DEF PutResults
<1> HIDE DEF put
<1>3. IsFiniteSet(Senders(box)) /\ Cardinality(Senders(box)) \in Nat
  BY FewerSenders
<1>4. IsFiniteSet(Senders(put)) /\ Cardinality(Senders(put)) \in Nat
      /\ Cardinality(Senders(put)) <= Cardinality(Senders(box)) + 1
      /\ (box[s] # None => Cardinality(Senders(put)) <= Cardinality(Senders(box)))
  <2> DEFINE S == Senders(box)
  <2>1. IsFiniteSet(S \cup {s}) /\ Cardinality(S \cup {s}) \in Nat
        /\ Cardinality(S \cup {s}) <= Cardinality(S) + 1
    <3> HIDE DEF S
    <3>1. IsFiniteSet(S) /\ Cardinality(S) \in Nat
      BY <1>3 DEF S
    <3>2. IsFiniteSet(S \cup {s})
          /\ Cardinality(S \cup {s}) = IF s \in S THEN Cardinality(S) ELSE Cardinality(S) + 1
      BY <3>1, FS_AddElement
    <3> QED BY <3>1, <3>2
  <2>2. /\ IsFiniteSet(Senders(put)) /\ Cardinality(Senders(put)) \in Nat
        /\ Cardinality(Senders(put)) <= Cardinality(S \cup {s})
    BY <1>1, <2>1, FS_Subset, FS_CardinalityType
  <2>3. box[s] # None => Cardinality(Senders(put)) <= Cardinality(S)
    BY <1>1, <1>3, FS_Subset
  <2> HIDE DEF S
  <2>4. Cardinality(S) \in Nat
    BY <1>3 DEF S
  <2>5. Cardinality(Senders(put)) <= Cardinality(S) + 1
    BY <2>1, <2>2, <2>4
  <2> QED BY <2>2, <2>3, <2>5 DEF S
<1>5. Cardinality(Senders(c)) <= MaxInbox
  <2>1. CASE Cardinality(Senders(put)) <= MaxInbox
    BY <1>2, <1>4, <2>1, RelayAssumption DEF Capped
  <2>2. CASE Cardinality(Senders(put)) > MaxInbox
    <3>1. Senders(put) \ {s} # {}
      <4> SUFFICES ASSUME Senders(put) \subseteq {s} PROVE FALSE
        OBVIOUS
      <4>1. IsFiniteSet({s}) /\ Cardinality({s}) = 1
        BY FS_Singleton
      <4> QED BY <1>4, <2>2, <4>1, FS_Subset, RelayAssumption
    <3>2. PICK t \in Senders(put) \ {s} : c = Drop(put, t)
      BY <1>2, <2>2, <3>1 DEF Capped
    <3>3. Senders(c) = Senders(put) \ {t}
      BY <1>1, <3>2 DEF Senders, Drop, IdxMap
    <3>4. Cardinality(Senders(put) \ {t}) = Cardinality(Senders(put)) - 1
      <4> DEFINE S == Senders(put)
      <4> HIDE DEF S
      <4>1. IsFiniteSet(S) /\ t \in S
        BY <1>4, <3>2 DEF S
      <4>2. Cardinality(S \ {t}) = Cardinality(S) - 1
        BY <4>1, FS_RemoveElement
      <4> QED BY <4>2 DEF S
    <3> QED BY <1>3, <1>4, <3>3, <3>4, RelayAssumption
  <2> QED BY <1>4, <2>1, <2>2, RelayAssumption
<1>6. c = put \/ (Cardinality(Senders(put)) > MaxInbox /\ \E t \in Device \ {s} : c = Drop(put, t))
  BY <1>2 DEF Capped, Senders
<1>7. b = c
  <2>1. Cardinality(Senders(c)) \in Nat
    BY FewerSenders
  <2> QED BY <1>2, <1>5, <2>1, RelayAssumption DEF Capped
<1>8. Cardinality(Senders(put)) > MaxInbox
        => box[s] = None /\ Cardinality(Senders(box)) >= MaxInbox
  BY <1>3, <1>4, RelayAssumption
<1> QED BY <1>5, <1>6, <1>7, <1>8 DEF put

\* No step of a handler, of the cleanup goroutine or of Compact overfills an inbox.
LEMMA CapStep == TypeOK /\ Shapes /\ InboxWithinCap /\ [Next]_vars => InboxWithinCap'
<1> SUFFICES ASSUME TypeOK, Shapes, InboxWithinCap, [Next]_vars, NEW r \in Device
             PROVE  Cardinality(Senders(inbox'[r])) <= MaxInbox
  BY DEF InboxWithinCap, Senders
<1> USE DEF store, lock, cleaning
<1>1. Cardinality(Senders(inbox[r])) <= MaxInbox
  BY DEF InboxWithinCap
<1>2. ASSUME \A t \in Device : inbox'[r][t] \in {None, inbox[r][t]}
      PROVE  Cardinality(Senders(inbox'[r])) <= MaxInbox
  BY <1>1, <1>2, FewerSenders, RelayAssumption
<1>3. ASSUME NEW h \in Handler, PutSlot(h)
      PROVE  Cardinality(Senders(inbox'[r])) <= MaxInbox
  <2>1. req[h].peer \in Device /\ req[h].dev \in Device /\ req[h].id \in BlobId
    BY <1>3 DEF PutSlot, Shapes, Shape
  <2>2. CASE inbox'[r] # inbox[r]
    <3>1. PICK box \in PutResults(inbox[req[h].peer], req[h].dev, req[h].id) :
            inbox' = [inbox EXCEPT ![req[h].peer] = box]
      BY <1>3, <2>2 DEF PutSlot
    <3>2. r = req[h].peer /\ inbox'[r] = box /\ inbox[r] \in IdxMap
      BY <2>1, <2>2, <3>1 DEF TypeOK, InboxMap
    <3>3. \A b \in PutResults(inbox[r], req[h].dev, req[h].id) : Cardinality(Senders(b)) <= MaxInbox
      BY <1>1, <2>1, <3>2, PutResultsCap
    <3> QED BY <3>1, <3>2, <3>3
  <2> QED BY <1>1, <2>2
<1>4. CASE CleanExpired
  BY <1>2, <1>4 DEF CleanExpired, RefsWithout, InboxWithout
<1>5. CASE Compact
  BY <1>2, <1>5, CompactFrame
<1>6. \/ inbox' = inbox
      \/ \E h \in Handler : PutSlot(h)
      \/ CleanExpired \/ Compact
  BY InboxFrame
<1> QED BY <1>1, <1>3, <1>4, <1>5, <1>6

\* No inbox ever holds more than maxInboxPerDevice entries, whatever the clock does
\* and however Compact interleaves.
THEOREM InboxesStayCapped == Spec => []InboxWithinCap
<1>1. Init => InboxWithinCap
  <2> SUFFICES ASSUME Init, NEW r \in Device PROVE Cardinality(Senders(inbox[r])) <= MaxInbox
    BY DEF InboxWithinCap
  <2>1. Senders(inbox[r]) = {}
    BY DEF Init, EmptyBox, Senders
  <2> QED BY <2>1, FS_EmptySet, RelayAssumption
<1> QED BY <1>1, TypeInit, TypeStep, CapStep, PTL DEF Spec
=============================================================================
