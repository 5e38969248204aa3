----------------------- MODULE RelayPersistence_proofs ------------------------
(***************************************************************************)
(* Proofs about RelayPersistence, for any devices, tokens, blobs, handlers *)
(* and numbers of crashes and failed writes.                               *)
(***************************************************************************)
EXTENDS RelayPersistence, TLAPS

\* What a number below the modulus is.
LEMMA ModSmall == ASSUME NEW x \in Nat, NEW n \in Nat, x < n PROVE x % n = x
  BY SMTT(30)

\* Multiplying by a natural keeps the order.
LEMMA MulOrder == ASSUME NEW a \in Int, NEW b \in Int, NEW s \in Nat, a <= b PROVE a * s <= b * s
  BY SMTT(30)

\* What the code takes for expired has outlived its TTL, or its TTL overflows: without
\* an overflow Duration is exact, and Elapsed stops only at what is larger than any.
LEMMA ExpiredMayGo ==
  ASSUME NEW blob \in Blob, NEW t \in Nat, Expired(blob, t)
  PROVE  MayGo(blob, t)
<1> SUFFICES ASSUME ~Overflows(blob) PROVE Outlived(blob, t)
  BY DEF MayGo
<1> DEFINE p == blob.ttl * Second
           m == MaxDuration
           age == (t - blob.timestamp) * Second
<1>1. blob.ttl \in Nat /\ blob.timestamp \in Nat /\ m \in Nat /\ Second \in Nat
  BY RelayAssumption DEF Blob
<1>2. p \in Nat /\ age \in Int
  BY <1>1
<1>3. p <= m
  BY <1>1, <1>2 DEF Overflows
<1>4. Duration(blob.ttl) = p
  <2>1. p + m + 1 \in Nat /\ 2 * (m + 1) \in Nat /\ p + m + 1 < 2 * (m + 1)
    BY <1>1, <1>2, <1>3
  <2>2. (p + m + 1) % (2 * (m + 1)) = p + m + 1
    BY <2>1, ModSmall
  <2> QED BY <1>1, <1>2, <2>2 DEF Duration
<1>5. Elapsed(t, blob.timestamp) > p => age > p
  <2> HIDE DEF p, age
  <2>1. Elapsed(t, blob.timestamp) =
          IF age > m THEN m ELSE IF age < -(m + 1) THEN -(m + 1) ELSE age
    BY DEF Elapsed, age
  <2> QED BY <1>1, <1>2, <1>3, <2>1
<1>6. age > p
  BY <1>4, <1>5 DEF Expired
<1>7. t - blob.timestamp > blob.ttl
  <2>1. t - blob.timestamp \in Int
    BY <1>1
  <2>2. t - blob.timestamp <= blob.ttl => age <= p
    BY <1>1, <2>1, MulOrder
  <2> QED BY <1>1, <1>2, <1>6, <2>1, <2>2
<1> QED BY <1>1, <1>7 DEF Outlived, Expired

\* What Put leaves in a box: nothing, what was there, or, for the sender, the new blob.
LEMMA PutResultsType ==
  ASSUME NEW box \in IdxMap, NEW s \in Device, NEW id \in BlobId,
         NEW b \in PutResults(box, s, id)
  PROVE  /\ b \in IdxMap
         /\ \A t \in Device : b[t] \in {None, box[t]} \/ (t = s /\ b[t] = id)
<1> DEFINE put == [box EXCEPT ![s] = id]
<1>1. put \in IdxMap /\ \A t \in Device : put[t] = box[t] \/ (t = s /\ put[t] = id)
  BY DEF IdxMap
<1>2. ASSUME NEW c \in IdxMap, NEW vs, NEW d \in Capped(c, vs)
      PROVE  d \in IdxMap /\ \A t \in Device : d[t] \in {None, c[t]}
  BY <1>2 DEF Capped, Drop, IdxMap
<1>3. PICK c \in Capped(put, Senders(put) \ {s}) : b \in Capped(c, Senders(c))
  BY DEF PutResults
<1> HIDE DEF put
<1>4. c \in IdxMap /\ \A t \in Device : c[t] \in {None, put[t]}
  BY <1>1, <1>2, <1>3
<1>5. b \in IdxMap /\ \A t \in Device : b[t] \in {None, c[t]}
  BY <1>2, <1>3, <1>4
<1> QED
  BY <1>1, <1>4, <1>5

\* Every token of a device leads back to it.
Known(st) == \A d \in Device : st.devices[d] # None => st.tokens[st.devices[d]] = d

\* A token that has not been generated is nobody's.
Unused(st) == \A t \in Token \ issued : st.tokens[t] = None

\* What a Save has marshalled by field i: devices first, and then the tokens, which
\* have grown in between.
SnapKnown ==
  \A p \in Saver :
    /\ saving[p] <= 2 => snap[p].devices = Empty.devices
    /\ saving[p] <= 5 => snap[p].tokens = Empty.tokens
    /\ saving[p] \in 3..5 =>
         \A d \in Device : snap[p].devices[d] # None => mem.tokens[snap[p].devices[d]] = d
    /\ saving[p] >= 6 => Known(snap[p])

SnapTokens == (\A p \in Saver : Unused(snap[p])) /\ SnapKnown

Tokens ==
  /\ Known(mem) /\ Unused(mem)
  /\ Known(OnDisk) /\ Unused(OnDisk)
  /\ SnapTokens

\* Every blob is the upload of its ID.
FromUpload(st) == \A id \in BlobId : st.blobs[id] # None => st.blobs[id] = sent[id]

Uploads == FromUpload(mem) /\ FromUpload(OnDisk) /\ \A p \in Saver : FromUpload(snap[p])

\* An ID whose blob is in memory, or was until it might go.
Kept(id) == mem.blobs[id] # None \/ (sent[id] # None /\ MayGo(sent[id], now))

DoomedExpired == \A id \in doomed : sent[id] # None /\ MayGo(sent[id], now)

\* A server that is down has forgotten everything but what is on disk.
Down ==
  ~up => /\ mem = Empty /\ mu = None /\ ~behind /\ shared = {}
         /\ \A h \in Handler : job[h] = None
         /\ \A p \in Saver : saving[p] = 0
         /\ sweep = "wait" /\ doomed = {} /\ victim = None /\ found = None

\* The cleanup goroutine holds s.mu while it cleans, and saves when it has done.
Cleans ==
  /\ sweep = "clean" => mu = Cleaner
  /\ sweep # "wait" => saving[Cleaner] = 0

BeingPut(id) == \E h \in Handler : Putting(h) /\ job[h][2] = id

\* A Save that no other overlaps marshals what is in memory, except for a blob whose
\* reference is still to be put, and for those that go meanwhile.
Alone ==
  \A p \in Saver \ shared : saving[p] # 0 =>
    /\ \A q \in Saver \ {p} : saving[q] = 0
    /\ saving[p] > 1 => \A id \in BlobId : mem.blobs[id] # None /\ ~BeingPut(id)
                                              => snap[p].blobs[id] = mem.blobs[id]
    /\ saving[p] > 2 => snap[p].devices = mem.devices
    /\ saving[p] > 3 => snap[p].peers = mem.peers

\* Holds, at a time.
HoldsAt(fact, st, t) ==
  \/ fact[1] = "device" /\ st.devices[fact[2]] = fact[3]
  \/ fact[1] = "peer" /\ fact[3] \in st.peers[fact[2]]
  \/ fact[1] = "blob" /\ (st.blobs[fact[2]] = fact[3] \/ MayGo(fact[3], t))

\* What clients were told, and what they are about to be told, is so in memory.
DoneInMemory ==
  up => /\ \A f \in acked : HoldsAt(f, mem, now)
        /\ \A h \in Handler : job[h] # None => HoldsAt(job[h], mem, now)

\* A blob that was acknowledged, or will be, is what was uploaded under its ID.
DoneIsSent ==
  /\ \A f \in acked : f[1] = "blob" => sent[f[2]] = f[3]
  /\ \A h \in Handler : job[h] # None /\ job[h][1] = "blob" => sent[job[h][2]] = job[h][3]

\* A handler that has put a blob and not the reference is not saving, and no other
\* has to do with its blob.
PutsAlone ==
  \A h \in Handler : Putting(h) =>
    /\ saving[h] = 0
    /\ \A f \in acked : f[1] = "blob" => f[2] # job[h][2]
    /\ \A g \in Handler \ {h} : job[g] # None /\ job[g][1] = "blob" => job[g][2] # job[h][2]

\* A registration keeps s.mu until it has answered.
Registering == \A h \in Handler : job[h] # None /\ job[h][1] = "device" => mu = h

\* On disk is what clients were told, and what they will be told next.
DoneOnDisk ==
  ~behind => /\ \A f \in acked : HoldsAt(f, OnDisk, now)
             /\ \A h \in Handler : job[h] # None /\ saving[h] = 0 /\ ~Putting(h)
                                     => HoldsAt(job[h], OnDisk, now)

\* A device that is known but not on disk is the one being registered.
DevicesOnDisk ==
  ~behind /\ up =>
    \A d \in Device : mem.devices[d] # None =>
      \/ OnDisk.devices[d] = mem.devices[d]
      \/ \E h \in Handler : saving[h] # 0 /\ job[h] = <<"device", d, mem.devices[d]>>

Done == DoneInMemory /\ DoneIsSent /\ PutsAlone /\ Registering /\ DoneOnDisk /\ DevicesOnDisk

IInv == /\ TypeOK /\ Tokens /\ Uploads /\ DoomedExpired /\ ReferencesAreLive
        /\ Down /\ Cleans /\ Alone /\ Done

-----------------------------------------------------------------------------
(* Types. *)

LEMMA FieldsAre ==
  /\ Len(Fields) = 6
  /\ Fields[1] = "blobs" /\ Fields[2] = "devices" /\ Fields[3] = "peers"
  /\ Fields[4] = "inbox" /\ Fields[5] = "tokens" /\ Fields[6] = "blobIdx"
BY DEF Fields

LEMMA EmptyState == Empty \in State
BY DEF Empty, State, EmptyBox, BlobMap, InboxMap, IdxMap

\* What is on disk is a state, before the first Save the empty one.
LEMMA DiskState == TypeOK => OnDisk \in State
BY EmptyState DEF TypeOK, OnDisk

\* Dropping blobs with their references.
LEMMA WithoutState ==
  ASSUME NEW st \in State, NEW ids
  PROVE  /\ Without(st, ids) \in State
         /\ Without(st, ids).devices = st.devices /\ Without(st, ids).peers = st.peers
         /\ Without(st, ids).tokens = st.tokens
         /\ \A id \in BlobId :
              Without(st, ids).blobs[id] = IF id \in ids THEN None ELSE st.blobs[id]
         /\ \A d \in Device :
              Without(st, ids).blobIdx[d] = IF st.blobIdx[d] \in ids THEN None ELSE st.blobIdx[d]
         /\ \A d, s \in Device : Without(st, ids).inbox[d][s]
              = IF st.inbox[d][s] \in ids THEN None ELSE st.inbox[d][s]
<1>1. BlobsWithout(st.blobs, ids) \in BlobMap
  BY DEF BlobsWithout, BlobMap, State
<1>2. RefsWithout(st.blobIdx, ids) \in IdxMap
  BY DEF RefsWithout, IdxMap, State
<1>3. InboxWithout(st.inbox, ids) \in InboxMap
  BY DEF InboxWithout, InboxMap, RefsWithout, IdxMap, State
<1>4. Without(st, ids) \in State
  BY <1>1, <1>2, <1>3 DEF Without, State
<1> QED
  BY <1>4 DEF Without, BlobsWithout, RefsWithout, InboxWithout, State

\* A step of Save puts one field of mem in the place of the same field of the snapshot.
LEMMA Marshalled ==
  ASSUME TypeOK, NEW p \in Saver, Marshal(p)
  PROVE  /\ saving[p] \in 1..6 /\ saving' = [saving EXCEPT ![p] = saving[p] + 1]
         /\ snap' \in [Saver -> State]
         /\ \A q \in Saver \ {p} : snap'[q] = snap[q]
         /\ snap'[p].blobs   = IF saving[p] = 1 THEN mem.blobs   ELSE snap[p].blobs
         /\ snap'[p].devices = IF saving[p] = 2 THEN mem.devices ELSE snap[p].devices
         /\ snap'[p].peers   = IF saving[p] = 3 THEN mem.peers   ELSE snap[p].peers
         /\ snap'[p].inbox   = IF saving[p] = 4 THEN mem.inbox   ELSE snap[p].inbox
         /\ snap'[p].tokens  = IF saving[p] = 5 THEN mem.tokens  ELSE snap[p].tokens
         /\ snap'[p].blobIdx = IF saving[p] = 6 THEN mem.blobIdx ELSE snap[p].blobIdx
         /\ UNCHANGED <<now, up, crashes, failures, mem, disk, mu, job, cleaning, issued,
                        sent, acked, shared, behind>>
<1>1. /\ saving[p] \in 1..6 /\ saving' = [saving EXCEPT ![p] = saving[p] + 1]
      /\ snap' = [snap EXCEPT ![p][Fields[saving[p]]] = mem[Fields[saving[p]]]]
      /\ UNCHANGED <<now, up, crashes, failures, mem, disk, mu, job, cleaning, issued,
                     sent, acked, shared, behind>>
  BY FieldsAre DEF Marshal
<1>2. mem \in State /\ snap \in [Saver -> State]
  BY DEF TypeOK
<1>3. CASE saving[p] = 1
  <2>1. snap' = [snap EXCEPT ![p].blobs = mem.blobs]
    BY <1>1, <1>3, FieldsAre
  <2> QED
    BY <1>1, <1>2, <1>3, <2>1 DEF State
<1>4. CASE saving[p] = 2
  <2>1. snap' = [snap EXCEPT ![p].devices = mem.devices]
    BY <1>1, <1>4, FieldsAre
  <2> QED
    BY <1>1, <1>2, <1>4, <2>1 DEF State
<1>5. CASE saving[p] = 3
  <2>1. snap' = [snap EXCEPT ![p].peers = mem.peers]
    BY <1>1, <1>5, FieldsAre
  <2> QED
    BY <1>1, <1>2, <1>5, <2>1 DEF State
<1>6. CASE saving[p] = 4
  <2>1. snap' = [snap EXCEPT ![p].inbox = mem.inbox]
    BY <1>1, <1>6, FieldsAre
  <2> QED
    BY <1>1, <1>2, <1>6, <2>1 DEF State
<1>7. CASE saving[p] = 5
  <2>1. snap' = [snap EXCEPT ![p].tokens = mem.tokens]
    BY <1>1, <1>7, FieldsAre
  <2> QED
    BY <1>1, <1>2, <1>7, <2>1 DEF State
<1>8. CASE saving[p] = 6
  <2>1. snap' = [snap EXCEPT ![p].blobIdx = mem.blobIdx]
    BY <1>1, <1>8, FieldsAre
  <2> QED
    BY <1>1, <1>2, <1>8, <2>1 DEF State
<1> QED
  BY <1>1, <1>3, <1>4, <1>5, <1>6, <1>7, <1>8

\* The three kinds of fact.
LEMMA FactIs ==
  ASSUME NEW f \in Fact
  PROVE  /\ f # None
         /\ \/ f[1] = "device" /\ f[2] \in Device /\ f[3] \in Token
            \/ f[1] = "peer" /\ f[2] \in Device /\ f[3] \in Device
            \/ f[1] = "blob" /\ f[2] \in BlobId /\ f[3] \in Blob
<1>1. f # None
  BY NoneAssumption
<1> QED
  BY <1>1 DEF Fact

\* Holds at this time is HoldsAt.
LEMMA HoldsIs ==
  ASSUME NEW f \in Fact, NEW st
  PROVE  Holds(f, st) <=> HoldsAt(f, st, now)
BY FactIs DEF Holds, HoldsAt

\* A fact stays true in a state that knows the same devices and pairs and has its
\* blob, unless that might go; and it stays true in time.
LEMMA HoldsStays ==
  ASSUME NEW f \in Fact, NEW st \in State, NEW st2 \in State, NEW t \in Nat,
         HoldsAt(f, st, t),
         \A d \in Device : st.devices[d] # None => st2.devices[d] = st.devices[d],
         \A d \in Device : st.peers[d] \subseteq st2.peers[d],
         f[1] = "blob" /\ st.blobs[f[2]] = f[3] => st2.blobs[f[2]] = f[3] \/ MayGo(f[3], t)
  PROVE  HoldsAt(f, st2, t)
<1>1. CASE f[1] = "device" /\ f[2] \in Device /\ f[3] \in Token
  BY <1>1, PersistenceAssumption DEF HoldsAt
<1>2. CASE f[1] = "peer" /\ f[2] \in Device /\ f[3] \in Device
  BY <1>2 DEF HoldsAt
<1>3. CASE f[1] = "blob" /\ f[2] \in BlobId /\ f[3] \in Blob
  BY <1>3 DEF HoldsAt
<1> QED
  BY <1>1, <1>2, <1>3, FactIs

\* What may go may go later.
LEMMA MayGoLater ==
  ASSUME NEW b \in Blob, NEW t \in Nat, MayGo(b, t)
  PROVE  MayGo(b, t + 1)
<1>1. b.timestamp \in Nat /\ b.ttl \in Nat
  BY RelayAssumption DEF Blob
<1> QED BY <1>1 DEF MayGo, Outlived

LEMMA HoldsLater ==
  ASSUME NEW f \in Fact, NEW st, NEW t \in Nat, HoldsAt(f, st, t)
  PROVE  HoldsAt(f, st, t + 1)
BY MayGoLater, FactIs DEF HoldsAt

-----------------------------------------------------------------------------
(* What steps have in common. *)

\* An ID stays kept when its upload is not forgotten and its blob does not go early.
LEMMA KeptStays ==
  ASSUME TypeOK, NEW id \in BlobId, Kept(id), now' \in {now, now + 1},
         sent[id] # None => sent'[id] = sent[id],
         mem'.blobs[id] = mem.blobs[id] \/ (sent[id] # None /\ MayGo(sent[id], now))
  PROVE  Kept(id)'
<1>1. now \in Nat /\ sent[id] \in Blob \cup {None}
  BY PersistenceAssumption DEF TypeOK, BlobMap
<1>2. CASE sent[id] # None /\ MayGo(sent[id], now)
  <2>1. sent[id] \in Blob
    BY <1>1, <1>2
  <2>2. MayGo(sent[id], now')
    BY <1>1, <1>2, <2>1, MayGoLater
  <2> QED BY <1>2, <2>2 DEF Kept
<1>3. CASE mem'.blobs[id] = mem.blobs[id] /\ mem.blobs[id] # None
  BY <1>3 DEF Kept
<1> QED BY <1>2, <1>3 DEF Kept

\* ReferencesAreLive, by way of Kept.
LEMMA LiveIsKept ==
  /\ ReferencesAreLive <=>
       \A d \in Device : /\ mem.blobIdx[d] # None => Kept(mem.blobIdx[d])
                         /\ \A s \in Device : mem.inbox[d][s] # None => Kept(mem.inbox[d][s])
  /\ ReferencesAreLive' <=>
       \A d \in Device : /\ mem'.blobIdx[d] # None => Kept(mem.blobIdx[d])'
                         /\ \A s \in Device : mem'.inbox[d][s] # None => Kept(mem.inbox[d][s])'
BY DEF ReferencesAreLive, Kept

\* The references that stay, and those to another ID that is kept, are live.
LEMMA RefsStay ==
  ASSUME TypeOK, ReferencesAreLive, NEW new, new # None => Kept(new)',
         \A id \in BlobId : Kept(id) => Kept(id)',
         \A d \in Device : mem'.blobIdx[d] \in {None, new, mem.blobIdx[d]},
         \A d, s \in Device : mem'.inbox[d][s] \in {None, new, mem.inbox[d][s]}
  PROVE  ReferencesAreLive'
<1>1. /\ \A d \in Device : mem.blobIdx[d] \in BlobId \cup {None}
      /\ \A d, s \in Device : mem.inbox[d][s] \in BlobId \cup {None}
  BY DEF TypeOK, State, IdxMap, InboxMap
<1>2. ASSUME NEW d \in Device, NEW id \in BlobId,
             id = mem.blobIdx[d] \/ \E s \in Device : id = mem.inbox[d][s]
      PROVE  Kept(id)'
  <2>1. id # None
    BY RelayAssumption
  <2>2. Kept(id)
    BY <1>2, <2>1, LiveIsKept
  <2> QED BY <2>2
<1>3. ASSUME NEW d \in Device, mem'.blobIdx[d] # None
      PROVE  Kept(mem.blobIdx[d])'
  <2>1. PICK id : id = mem'.blobIdx[d]
    OBVIOUS
  <2>2. Kept(id)'
    BY <1>1, <1>2, <1>3, <2>1
  <2> QED BY <2>1, <2>2
<1>4. ASSUME NEW d \in Device, NEW s \in Device, mem'.inbox[d][s] # None
      PROVE  Kept(mem.inbox[d][s])'
  <2>1. PICK id : id = mem'.inbox[d][s]
    OBVIOUS
  <2>2. Kept(id)'
    BY <1>1, <1>2, <1>4, <2>1
  <2> QED BY <2>1, <2>2
<1> QED BY <1>3, <1>4, LiveIsKept

\* Tokens and devices left alone, by a step that marshals nothing.
LEMMA TokensStay ==
  ASSUME TypeOK, Tokens, mem'.devices = mem.devices, mem'.tokens = mem.tokens,
         UNCHANGED <<issued, disk, snap>>,
         \A q \in Saver : \/ saving'[q] = saving[q]
                         \/ (saving[q] \in {-1, 0} /\ saving'[q] \in {-1, 1})
  PROVE  Tokens'
<1>1. OnDisk' = OnDisk /\ snap' = snap
  BY DEF OnDisk
<1>2. (Known(mem) /\ Unused(mem) /\ Known(OnDisk) /\ Unused(OnDisk))'
  BY <1>1 DEF Tokens, Known, Unused
<1>3. (\A q \in Saver : Unused(snap[q]))'
  BY <1>1 DEF Tokens, SnapTokens, Unused
<1>4. SnapKnown'
  <2>1. SnapKnown
    BY DEF Tokens, SnapTokens
  <2>2. ASSUME NEW q \in Saver
        PROVE  /\ saving'[q] <= 2 => saving[q] <= 2
               /\ saving'[q] <= 5 => saving[q] <= 5
               /\ saving'[q] \in 3..5 => saving[q] \in 3..5
               /\ saving'[q] >= 6 => saving[q] >= 6
    OBVIOUS
  <2> QED BY <1>1, <2>1, <2>2 DEF SnapKnown, Known
<1> QED BY <1>2, <1>3, <1>4 DEF Tokens, SnapTokens

\* No ID gets another upload, and a blob in memory is the upload of its ID.
LEMMA UploadsStay ==
  ASSUME Uploads, UNCHANGED <<disk, snap>>,
         \A id \in BlobId : sent[id] # None => sent'[id] = sent[id],
         \A id \in BlobId : mem'.blobs[id] \in {None, mem.blobs[id], sent'[id]}
  PROVE  Uploads'
<1>1. OnDisk' = OnDisk
  BY DEF OnDisk
<1>2. FromUpload(mem)'
  BY DEF Uploads, FromUpload
<1>3. FromUpload(OnDisk)' /\ (\A p \in Saver : FromUpload(snap[p]))'
  BY <1>1 DEF Uploads, FromUpload
<1> QED BY <1>2, <1>3 DEF Uploads

\* A fact stays true in memory when no device or pair is lost, and no blob that may not
\* go.
LEMMA FactStays ==
  ASSUME TypeOK, mem' \in State, now' = now,
         \A d \in Device : mem.devices[d] # None => mem'.devices[d] = mem.devices[d],
         \A d \in Device : mem.peers[d] \subseteq mem'.peers[d],
         \A id \in BlobId : \/ mem'.blobs[id] = mem.blobs[id]
                           \/ sent[id] = None \/ MayGo(sent[id], now),
         NEW f \in Fact, HoldsAt(f, mem, now), f[1] = "blob" => sent[f[2]] = f[3]
  PROVE  HoldsAt(f, mem', now')
<1>1. now \in Nat /\ mem \in State /\ None \notin Blob
  BY PersistenceAssumption, RelayAssumption DEF TypeOK
<1>2. f[1] = "blob" /\ mem.blobs[f[2]] = f[3] => mem'.blobs[f[2]] = f[3] \/ MayGo(f[3], now)
  BY <1>1, FactIs
<1> QED BY <1>1, <1>2, HoldsStays

\* Saver p, which was not saving, starts to.
Begin(p) ==
  /\ up /\ saving[p] = 0
  /\ StartSave(p)
  /\ UNCHANGED <<now, up, crashes, failures, disk, snap, behind>>

LEMMA BeginTypes ==
  ASSUME TypeOK, NEW p \in Saver, Begin(p)
  PROVE  /\ saving' \in [Saver -> -1..(Len(Fields) + 1)] /\ shared' \subseteq Saver
         /\ saving'[p] = -1 /\ \A q \in Saver \ {p} : saving'[q] = saving[q]
<1>1. saving \in [Saver -> -1..(Len(Fields) + 1)] /\ shared \subseteq Saver
  BY DEF TypeOK
<1>2. saving' = [saving EXCEPT ![p] = -1]
  BY DEF Begin, StartSave
<1>3. shared' \subseteq Saver
  BY <1>1 DEF Begin, StartSave
<1> QED BY <1>1, <1>2, <1>3, FieldsAre

\* Whoever is saving at the same time is then not alone any more.
LEMMA BeginAlone ==
  ASSUME TypeOK, Alone, NEW p \in Saver, Begin(p)
  PROVE  Alone'
<1>1. CASE \A q \in Saver \ {p} : saving[q] = 0
  <2>1. shared' = shared
    BY <1>1 DEF Begin, StartSave
  <2> QED
    BY <1>1, <2>1, BeginTypes DEF Alone
<1>2. CASE \E q \in Saver \ {p} : saving[q] # 0
  <2>1. shared' = shared \cup {p} \cup {q \in Saver \ {p} : saving[q] # 0}
    BY <1>2 DEF Begin, StartSave
  <2> QED
    BY <2>1, BeginTypes DEF Alone
<1> QED
  BY <1>1, <1>2

\* A step that changes no device leaves what is on disk of them as it was.
LEMMA BeginDevices ==
  ASSUME TypeOK, DevicesOnDisk, NEW p \in Saver, Begin(p), mem'.devices = mem.devices,
         \A g \in Handler : g # p => job'[g] = job[g]
  PROVE  DevicesOnDisk'
<1>1. OnDisk' = OnDisk /\ behind' = behind /\ up' = up
  BY DEF Begin, OnDisk
<1>2. saving[p] = 0 /\ \A g \in Handler : g # p => saving'[g] = saving[g]
  BY BeginTypes DEF Begin, Saver
<1> QED
  BY <1>1, <1>2 DEF DevicesOnDisk

\* A Save that begins disturbs neither the tokens nor the uploads, nor the cleanup
\* goroutine, if that does not clean or keeps s.mu.
LEMMA BeginRest ==
  ASSUME IInv, NEW p \in Saver, Begin(p), cleaning' = cleaning, sent' = sent,
         p # Cleaner, mu' = mu \/ mu # Cleaner
  PROVE  Down' /\ Cleans' /\ DoomedExpired'
<1>1. TypeOK /\ Cleans /\ DoomedExpired /\ up' /\ now' = now
  BY DEF IInv, Begin
<1>2. /\ sweep' = sweep /\ doomed' = doomed
      /\ saving'[Cleaner] = saving[Cleaner]
  BY <1>1, BeginTypes DEF cleaning, Saver
<1> QED BY <1>1, <1>2 DEF Down, Cleans, DoomedExpired

-----------------------------------------------------------------------------
(* One lemma per action. *)

LEMMA InitInv == Init => IInv
<1> SUFFICES ASSUME Init PROVE IInv
  OBVIOUS
<1>1. OnDisk = Empty
  BY DEF Init, OnDisk
<1>2. TypeOK
  <2>1. mem \in State /\ snap \in [Saver -> State] /\ sent \in BlobMap
    BY EmptyState DEF Init, BlobMap
  <2>2. saving \in [Saver -> -1..(Len(Fields) + 1)] /\ job \in [Handler -> Fact \cup {None}]
    BY FieldsAre DEF Init
  <2>3. now \in 0..MaxTime /\ crashes \in 0..MaxCrashes /\ failures \in 0..MaxFailures
    BY PersistenceAssumption DEF Init
  <2> QED
    BY <2>1, <2>2, <2>3 DEF Init, TypeOK
<1>3. Known(Empty) /\ Unused(Empty)
  BY DEF Known, Unused, Empty
<1>4. Tokens
  BY <1>1, <1>3 DEF Init, Tokens, SnapTokens, SnapKnown
<1>5. Uploads /\ DoomedExpired
  BY <1>1 DEF Init, Uploads, FromUpload, Empty, DoomedExpired
<1>6. ReferencesAreLive
  BY DEF Init, ReferencesAreLive, Empty, EmptyBox
<1>7. Down /\ Cleans /\ Alone
  BY DEF Init, Down, Cleans, Alone
<1>8. Done
  BY DEF Init, Done, DoneInMemory, DoneIsSent, PutsAlone, Putting, Registering, DoneOnDisk,
     DevicesOnDisk, Empty
<1> QED
  BY <1>2, <1>4, <1>5, <1>6, <1>7, <1>8 DEF IInv

\* Register: the token is new, so it is no other device's and in no file.
LEMMA RegisterInv ==
  ASSUME IInv, NEW h \in Handler, NEW d \in Device, Register(h, d)
  PROVE  IInv'
<1> DEFINE fact(t) == <<"device", d, t>>
<1>1. PICK t \in Token \ issued :
        /\ mem.devices[d] = None
        /\ Change(h, fact(t), [mem EXCEPT !.devices[d] = t, !.tokens[t] = d])
        /\ issued' = issued \cup {t} /\ mu' = h /\ acked' = acked /\ sent' = sent
  BY DEF Register
<1>2. /\ Begin(h) /\ job[h] = None /\ job' = [job EXCEPT ![h] = fact(t)]
      /\ mem' = [mem EXCEPT !.devices[d] = t, !.tokens[t] = d]
      /\ h \in Saver /\ h # Cleaner /\ fact(t) \in Fact /\ mu = None
      /\ cleaning' = cleaning
  BY <1>1, PersistenceAssumption DEF Begin, Change, Idle, Saver, Fact
<1>3. TypeOK /\ mem \in State /\ Tokens /\ Uploads /\ Alone /\ Done /\ ReferencesAreLive
  BY DEF IInv, TypeOK
<1>4. /\ mem' \in State /\ mem'.devices[d] = t /\ mem'.tokens[t] = d
      /\ \A e \in Device \ {d} : mem'.devices[e] = mem.devices[e]
      /\ \A s \in Token \ {t} : mem'.tokens[s] = mem.tokens[s]
      /\ mem'.blobs = mem.blobs /\ mem'.blobIdx = mem.blobIdx /\ mem'.inbox = mem.inbox
      /\ mem'.peers = mem.peers
  BY <1>2, <1>3 DEF State
<1>5. /\ OnDisk' = OnDisk /\ snap' = snap /\ disk' = disk /\ behind' = behind
      /\ now' = now /\ up' /\ up
  BY <1>2 DEF Begin, OnDisk
<1>6. TypeOK'
  <2>1. /\ saving' \in [Saver -> -1..(Len(Fields) + 1)] /\ shared' \subseteq Saver
        /\ mu' \in Saver \cup {None} /\ issued' \subseteq Token
        /\ job' \in [Handler -> Fact \cup {None}]
    BY <1>1, <1>2, <1>3, BeginTypes DEF TypeOK
  <2>2. /\ UNCHANGED <<now, up, crashes, failures, disk, snap, sweep, doomed, victim, found>>
        /\ UNCHANGED <<sent, acked, behind>>
    BY <1>1, <1>2 DEF Begin, cleaning
  <2> QED BY <1>3, <1>4, <2>1, <2>2 DEF TypeOK
<1>7. mem.tokens[t] = None /\ None \notin Device /\ None \notin Token
  BY <1>3, RelayAssumption, PersistenceAssumption DEF Tokens, Unused
<1>8. Tokens'
  <2>1. Known(mem)' /\ Unused(mem)'
    BY <1>1, <1>3, <1>4, <1>7 DEF Tokens, Known, Unused, State
  <2>2. (Known(OnDisk) /\ Unused(OnDisk))' /\ (\A q \in Saver : Unused(snap[q]))'
    BY <1>1, <1>3, <1>5 DEF Tokens, SnapTokens, Known, Unused
  <2>3. SnapKnown'
    <3>1. ASSUME NEW q \in Saver \ {h} PROVE saving'[q] = saving[q]
      BY <1>2, <1>3, BeginTypes
    <3>2. saving[h] = 0 /\ saving'[h] = -1
      BY <1>2, <1>3, BeginTypes DEF Begin
    <3>3. ASSUME NEW q \in Saver, NEW e \in Device, snap[q].devices[e] # None,
                 mem.tokens[snap[q].devices[e]] = e
          PROVE  mem'.tokens[snap[q].devices[e]] = e
      <4>1. snap[q].devices[e] \in Token
        BY <1>3, <3>3 DEF TypeOK, State
      <4> QED
        BY <1>4, <1>7, <3>3, <4>1
    <3> QED
      BY <1>3, <1>5, <3>1, <3>2, <3>3 DEF Tokens, SnapTokens, SnapKnown, Known
  <2> QED
    BY <2>1, <2>2, <2>3 DEF Tokens, SnapTokens
<1>9. Uploads'
  BY <1>1, <1>3, <1>4, <1>5, UploadsStay
<1>10. ReferencesAreLive'
  BY <1>1, <1>3, <1>4, <1>5 DEF ReferencesAreLive
<1>11. Down' /\ Cleans' /\ DoomedExpired' /\ Alone'
  <2>1. mu # Cleaner
    BY <1>2, PersistenceAssumption
  <2> QED BY <1>1, <1>2, <1>3, <2>1, BeginRest, BeginAlone
<1>12. Done'
  <2>1. ASSUME NEW f \in Fact, HoldsAt(f, mem, now), f[1] = "blob" => sent[f[2]] = f[3]
        PROVE  HoldsAt(f, mem', now')
    <3>1. /\ \A e \in Device : mem.devices[e] # None => mem'.devices[e] = mem.devices[e]
          /\ \A e \in Device : mem.peers[e] \subseteq mem'.peers[e]
          /\ \A id \in BlobId : mem'.blobs[id] = mem.blobs[id]
      BY <1>1, <1>4
    <3> QED BY <1>3, <1>4, <1>5, <2>1, <3>1, FactStays
  <2>2. DoneInMemory'
    <3>1. HoldsAt(fact(t), mem', now')
      BY <1>4 DEF HoldsAt
    <3> QED
      BY <1>1, <1>2, <1>3, <1>5, <2>1, <3>1 DEF Done, DoneInMemory, DoneIsSent, TypeOK
  <2>3. DoneIsSent'
    BY <1>1, <1>2, <1>3 DEF Done, DoneIsSent, TypeOK
  <2>4. Registering'
    BY <1>1, <1>2, <1>3, PersistenceAssumption DEF Done, Registering, TypeOK
  <2>5. saving'[h] # 0 /\ \A g \in Handler \ {h} : saving'[g] = saving[g]
    BY <1>2, <1>3, BeginTypes DEF Saver
  <2>6. \A g \in Handler : ~Putting(g) /\ ~Putting(g)'
    BY <1>1, <1>2, <1>3, PersistenceAssumption DEF Putting, TypeOK
  <2>7. DoneOnDisk' /\ PutsAlone'
    BY <1>1, <1>2, <1>3, <1>5, <2>5, <2>6 DEF Done, DoneOnDisk, PutsAlone, TypeOK
  <2>8. DevicesOnDisk'
    <3> SUFFICES ASSUME ~behind, NEW e \in Device, mem'.devices[e] # None
                 PROVE  \/ OnDisk.devices[e] = mem'.devices[e]
                        \/ \E g \in Handler :
                              saving'[g] # 0 /\ job'[g] = <<"device", e, mem'.devices[e]>>
      BY <1>5 DEF DevicesOnDisk
    <3>1. CASE e = d
      BY <1>2, <1>3, <1>4, <2>5, <3>1 DEF TypeOK
    <3>2. CASE e # d
      <4>1. mem'.devices[e] = mem.devices[e] /\ saving[h] = 0
        BY <1>2, <1>4, <3>2 DEF Begin
      <4>2. \/ OnDisk.devices[e] = mem.devices[e]
            \/ \E g \in Handler : saving[g] # 0 /\ job[g] = <<"device", e, mem.devices[e]>>
        BY <1>3, <1>5, <4>1 DEF Done, DevicesOnDisk
      <4>3. \A g \in Handler \ {h} : job'[g] = job[g]
        BY <1>2, <1>3 DEF TypeOK
      <4> QED
        BY <2>5, <4>1, <4>2, <4>3
    <3> QED
      BY <3>1, <3>2
  <2> QED
    BY <2>2, <2>3, <2>4, <2>7, <2>8 DEF Done
<1> QED
  BY <1>6, <1>8, <1>9, <1>10, <1>11, <1>12 DEF IInv

\* RegisterAgain: no registration is under way, so the device is on disk if anything is.
LEMMA RegisterAgainInv ==
  ASSUME IInv, NEW h \in Handler, NEW d \in Device, RegisterAgain(h, d)
  PROVE  IInv'
<1> DEFINE fact == <<"device", d, mem.devices[d]>>
<1>1. /\ mem.devices[d] # None /\ acked' = acked \cup {fact} /\ mu' = h /\ mu = None
      /\ UNCHANGED <<issued, sent, cleaning, mem>>
      /\ job[h] = None /\ job' = [job EXCEPT ![h] = None] /\ Begin(h)
      /\ h \in Saver /\ h # Cleaner
  BY PersistenceAssumption DEF RegisterAgain, Change, Idle, Begin, Saver
<1>2. TypeOK /\ mem \in State /\ Tokens /\ Uploads /\ Alone /\ Done /\ ReferencesAreLive
  BY DEF IInv, TypeOK
<1>3. /\ OnDisk' = OnDisk /\ snap' = snap /\ disk' = disk /\ behind' = behind
      /\ now' = now /\ up' /\ up
  BY <1>1 DEF Begin, OnDisk
<1>4. job' = job
  BY <1>1, <1>2 DEF TypeOK
<1>5. mem.devices[d] \in Token /\ fact \in Fact
  BY <1>1, <1>2 DEF State, Fact
<1>6. TypeOK'
  <2>1. /\ saving' \in [Saver -> -1..(Len(Fields) + 1)] /\ shared' \subseteq Saver
        /\ mu' \in Saver \cup {None} /\ acked' \subseteq Fact
    BY <1>1, <1>2, <1>5, BeginTypes DEF TypeOK
  <2>2. /\ UNCHANGED <<now, up, crashes, failures, disk, snap, sweep, doomed, victim, found>>
        /\ UNCHANGED <<mem, job, issued, sent, behind>>
    BY <1>1, <1>4 DEF Begin, cleaning
  <2> QED BY <1>2, <2>1, <2>2 DEF TypeOK
<1>7. \A q \in Saver : saving'[q] = saving[q] \/ (saving[q] = 0 /\ saving'[q] = -1)
  BY <1>1, <1>2, BeginTypes DEF Begin
<1>8. Tokens' /\ Uploads'
  <2>1. Tokens'
    BY <1>1, <1>2, <1>3, <1>7, TokensStay
  <2> QED BY <1>1, <1>2, <1>3, <2>1, UploadsStay
<1>9. ReferencesAreLive'
  BY <1>1, <1>2, <1>3 DEF ReferencesAreLive
<1>10. Down' /\ Cleans' /\ DoomedExpired' /\ Alone'
  <2>1. mu # Cleaner
    BY <1>1, PersistenceAssumption
  <2> QED BY <1>1, <1>2, <2>1, BeginRest, BeginAlone
<1>11. Done'
  <2>1. DoneInMemory' /\ DoneIsSent'
    BY <1>1, <1>2, <1>3, <1>4 DEF Done, DoneInMemory, DoneIsSent, HoldsAt
  <2>2. \A g \in Handler : job[g] # None => job[g][1] # "device"
    BY <1>1, <1>2, PersistenceAssumption DEF Done, Registering
  <2>3. Registering'
    BY <1>4, <2>2 DEF Registering
  <2>4. ~behind => HoldsAt(fact, OnDisk, now)
    <3>1. ASSUME NEW g \in Handler PROVE job[g] # fact
      BY <1>5, <2>2, FactIs
    <3> QED
      BY <1>1, <1>2, <1>3, <3>1 DEF Done, DevicesOnDisk, HoldsAt
  <2>5. saving'[h] # 0 /\ \A g \in Handler \ {h} : saving'[g] = saving[g]
    BY <1>1, <1>2, BeginTypes DEF Saver
  <2>6. \A g \in Handler : ~Putting(g) /\ ~Putting(g)'
    BY <1>1, <1>4, PersistenceAssumption DEF Putting
  <2>7. DoneOnDisk' /\ PutsAlone'
    BY <1>1, <1>2, <1>3, <1>4, <2>4, <2>5, <2>6 DEF Done, DoneOnDisk, PutsAlone
  <2>8. DevicesOnDisk'
    BY <1>1, <1>2, <1>4, BeginDevices DEF Done
  <2> QED
    BY <2>1, <2>3, <2>7, <2>8 DEF Done
<1> QED
  BY <1>6, <1>8, <1>9, <1>10, <1>11 DEF IInv

LEMMA AddPeerInv ==
  ASSUME IInv, NEW h \in Handler, NEW d \in Device, NEW e \in Device, AddPeer(h, d, e)
  PROVE  IInv'
<1> DEFINE fact == <<"peer", d, e>>
<1>1. /\ Begin(h) /\ job[h] = None /\ job' = [job EXCEPT ![h] = fact]
      /\ mem' = [mem EXCEPT !.peers[d] = mem.peers[d] \cup {e}]
      /\ UNCHANGED <<issued, sent, mu, acked, cleaning>> /\ mu = None
      /\ h \in Saver /\ h # Cleaner /\ fact \in Fact
  BY PersistenceAssumption DEF AddPeer, Change, Begin, Idle, Saver, Fact
<1>2. TypeOK /\ mem \in State /\ Tokens /\ Uploads /\ Alone /\ Done /\ ReferencesAreLive
  BY DEF IInv, TypeOK
<1>3. /\ mem' \in State /\ mem'.peers = [mem.peers EXCEPT ![d] = mem.peers[d] \cup {e}]
      /\ mem'.devices = mem.devices /\ mem'.tokens = mem.tokens
      /\ mem'.blobs = mem.blobs /\ mem'.blobIdx = mem.blobIdx /\ mem'.inbox = mem.inbox
  BY <1>1, <1>2 DEF State
<1>4. e \in mem'.peers[d] /\ \A c \in Device : mem.peers[c] \subseteq mem'.peers[c]
  BY <1>2, <1>3 DEF State
<1>5. /\ OnDisk' = OnDisk /\ snap' = snap /\ disk' = disk /\ behind' = behind
      /\ now' = now /\ up' /\ up
  BY <1>1 DEF Begin, OnDisk
<1>6. TypeOK'
  <2>1. /\ saving' \in [Saver -> -1..(Len(Fields) + 1)] /\ shared' \subseteq Saver
        /\ job' \in [Handler -> Fact \cup {None}]
    BY <1>1, <1>2, BeginTypes DEF TypeOK
  <2>2. /\ UNCHANGED <<now, up, crashes, failures, disk, snap, sweep, doomed, victim, found>>
        /\ UNCHANGED <<mu, issued, sent, acked, behind>>
    BY <1>1 DEF Begin, cleaning
  <2> QED BY <1>2, <1>3, <2>1, <2>2 DEF TypeOK
<1>7. \A q \in Saver : saving'[q] = saving[q] \/ (saving[q] = 0 /\ saving'[q] = -1)
  BY <1>1, <1>2, BeginTypes DEF Begin
<1>8. Tokens' /\ Uploads'
  <2>1. Tokens'
    BY <1>1, <1>2, <1>3, <1>5, <1>7, TokensStay
  <2> QED BY <1>1, <1>2, <1>3, <1>5, <2>1, UploadsStay
<1>9. ReferencesAreLive'
  BY <1>1, <1>2, <1>3, <1>5 DEF ReferencesAreLive
<1>10. Down' /\ Cleans' /\ DoomedExpired' /\ Alone'
  BY <1>1, <1>2, BeginRest, BeginAlone
<1>11. Done'
  <2>1. ASSUME NEW f \in Fact, HoldsAt(f, mem, now), f[1] = "blob" => sent[f[2]] = f[3]
        PROVE  HoldsAt(f, mem', now')
    BY <1>2, <1>3, <1>4, <1>5, <2>1, FactStays
  <2>2. DoneInMemory'
    <3>1. HoldsAt(fact, mem', now')
      BY <1>4 DEF HoldsAt
    <3> QED
      BY <1>1, <1>2, <1>5, <2>1, <3>1 DEF Done, DoneInMemory, DoneIsSent, TypeOK
  <2>3. DoneIsSent' /\ Registering'
    BY <1>1, <1>2 DEF Done, DoneIsSent, Registering, TypeOK
  <2>4. saving'[h] # 0 /\ \A g \in Handler \ {h} : saving'[g] = saving[g]
    BY <1>1, <1>2, BeginTypes DEF Saver
  <2>5. \A g \in Handler : ~Putting(g) /\ ~Putting(g)'
    BY <1>1, PersistenceAssumption DEF Putting
  <2>6. DoneOnDisk' /\ PutsAlone'
    BY <1>1, <1>2, <1>5, <2>4, <2>5 DEF Done, DoneOnDisk, PutsAlone, TypeOK
  <2>7. DevicesOnDisk'
    BY <1>1, <1>2, <1>3, BeginDevices DEF Done, TypeOK
  <2> QED
    BY <2>2, <2>3, <2>6, <2>7 DEF Done
<1> QED
  BY <1>6, <1>8, <1>9, <1>10, <1>11 DEF IInv

\* PutBlob: the ID is fresh, so nothing in memory, on disk or promised is under it.
LEMMA PutBlobInv ==
  ASSUME IInv, NEW h \in Handler, NEW d \in Device, PutBlob(h, d)
  PROVE  IInv'
<1>1. PICK id \in BlobId, ts \in Timestamp, ttl \in TTL :
        LET blob == [sender |-> d, timestamp |-> ts, ttl |-> ttl]
        IN  /\ sent[id] = None
            /\ mem' = [mem EXCEPT !.blobs[id] = blob]
            /\ job' = [job EXCEPT ![h] = <<"blob", id, blob>>]
            /\ sent' = [sent EXCEPT ![id] = blob]
  BY DEF PutBlob
<1>2. PICK blob \in Blob : blob = [sender |-> d, timestamp |-> ts, ttl |-> ttl]
  BY DEF Blob
<1> DEFINE fact == <<"blob", id, blob>>
<1>3. /\ sent[id] = None /\ mem' = [mem EXCEPT !.blobs[id] = blob]
      /\ job' = [job EXCEPT ![h] = fact] /\ sent' = [sent EXCEPT ![id] = blob]
      /\ fact \in Fact /\ blob # None
  BY <1>1, <1>2, RelayAssumption DEF Fact
<1>4. /\ up /\ saving[h] = 0 /\ job[h] = None /\ mu = None /\ mu' = h
      /\ UNCHANGED <<now, up, crashes, failures, disk, saving, snap, cleaning, issued,
                     acked, shared, behind>>
      /\ h \in Saver /\ h # Cleaner /\ h # None
  BY PersistenceAssumption DEF PutBlob, Idle, Saver
<1>5. TypeOK /\ mem \in State /\ Tokens /\ Uploads /\ Alone /\ Done /\ ReferencesAreLive
  BY DEF IInv, TypeOK
<1>6. /\ mem' \in State /\ mem'.blobs[id] = blob
      /\ \A i \in BlobId \ {id} : mem'.blobs[i] = mem.blobs[i]
      /\ mem'.devices = mem.devices /\ mem'.peers = mem.peers /\ mem'.tokens = mem.tokens
      /\ mem'.blobIdx = mem.blobIdx /\ mem'.inbox = mem.inbox
  BY <1>3, <1>5 DEF State, BlobMap
<1>7. /\ sent' \in BlobMap /\ sent'[id] = blob /\ \A i \in BlobId \ {id} : sent'[i] = sent[i]
      /\ \A i \in BlobId : sent[i] # None => sent'[i] = sent[i]
  BY <1>3, <1>5 DEF TypeOK, BlobMap
<1>8. job'[h] = fact /\ \A g \in Handler \ {h} : job'[g] = job[g]
  BY <1>3, <1>5 DEF TypeOK
<1>9. OnDisk' = OnDisk
  BY <1>4 DEF OnDisk
<1>10. mem.blobs[id] = None
  BY <1>3, <1>5 DEF Uploads, FromUpload
<1>11. /\ Putting(h)' /\ \A g \in Handler \ {h} : ~Putting(g)'
       /\ \A g \in Handler : ~Putting(g)
  BY <1>3, <1>4, <1>8, PersistenceAssumption, NoneAssumption DEF Putting
<1>12. TypeOK'
  <2>1. job' \in [Handler -> Fact \cup {None}] /\ mu' \in Saver \cup {None}
    BY <1>3, <1>4, <1>5 DEF TypeOK
  <2>2. /\ UNCHANGED <<now, up, crashes, failures, disk, saving, snap, sweep, doomed>>
        /\ UNCHANGED <<victim, found, issued, acked, shared, behind>>
    BY <1>4 DEF cleaning
  <2> QED BY <1>5, <1>6, <1>7, <2>1, <2>2 DEF TypeOK
<1>13. Tokens'
  BY <1>4, <1>5, <1>6, TokensStay
<1>14. Uploads'
  BY <1>4, <1>5, <1>6, <1>7, UploadsStay
<1>15. DoomedExpired' /\ Down' /\ Cleans'
  BY <1>4, <1>5, <1>7, PersistenceAssumption DEF IInv, DoomedExpired, Down, Cleans, cleaning,
     TypeOK
<1>16. ReferencesAreLive'
  <2>1. ASSUME NEW i \in BlobId, Kept(i) PROVE Kept(i)'
    <3>1. CASE i = id
      BY <1>3, <1>6, <3>1 DEF Kept
    <3>2. CASE i # id
      BY <1>4, <1>5, <1>6, <1>7, <2>1, <3>2, KeptStays
    <3> QED BY <3>1, <3>2
  <2> QED BY <1>5, <1>6, <2>1, RefsStay
<1>17. Alone'
  <2>1. BeingPut(id)' /\ \A i \in BlobId : ~BeingPut(i)
    BY <1>8, <1>11 DEF BeingPut
  <2>2. UNCHANGED <<shared, saving, snap>>
    BY <1>4
  <2> QED BY <1>5, <1>6, <2>1, <2>2 DEF Alone
<1>18. Done'
  <2>1. ASSUME NEW f \in Fact, HoldsAt(f, mem, now), f[1] = "blob" => sent[f[2]] = f[3]
        PROVE  HoldsAt(f, mem', now')
    <3>1. \A i \in BlobId : mem'.blobs[i] = mem.blobs[i] \/ sent[i] = None
      BY <1>3, <1>6
    <3> QED BY <1>4, <1>5, <1>6, <2>1, <3>1, FactStays
  <2>2. DoneInMemory'
    <3>1. HoldsAt(fact, mem', now')
      BY <1>6 DEF HoldsAt
    <3> QED
      BY <1>4, <1>5, <1>8, <2>1, <3>1 DEF Done, DoneInMemory, DoneIsSent, TypeOK
  <2>3. ASSUME NEW f \in Fact, f[1] = "blob", sent[f[2]] = f[3]
        PROVE  f[2] # id /\ sent'[f[2]] = f[3]
    BY <1>3, <1>7, <2>3, FactIs, RelayAssumption
  <2>4. /\ \A f \in acked : f \in Fact /\ (f[1] = "blob" => sent[f[2]] = f[3])
        /\ \A g \in Handler : job[g] # None =>
             job[g] \in Fact /\ (job[g][1] = "blob" => sent[job[g][2]] = job[g][3])
    BY <1>5 DEF Done, DoneIsSent, TypeOK
  <2>5. DoneIsSent'
    BY <1>4, <1>7, <1>8, <2>3, <2>4 DEF DoneIsSent
  <2>6. PutsAlone'
    BY <1>4, <1>8, <1>11, <2>3, <2>4 DEF PutsAlone
  <2>7. Registering'
    BY <1>4, <1>5, <1>8, PersistenceAssumption DEF Done, Registering
  <2>8. DoneOnDisk'
    BY <1>4, <1>5, <1>8, <1>9, <1>11 DEF Done, DoneOnDisk
  <2>9. DevicesOnDisk'
    BY <1>4, <1>5, <1>6, <1>8, <1>9 DEF Done, DevicesOnDisk
  <2> QED
    BY <2>2, <2>5, <2>6, <2>7, <2>8, <2>9 DEF Done
<1> QED
  BY <1>12, <1>13, <1>14, <1>15, <1>16, <1>17, <1>18 DEF IInv

\* What PutRef makes of the maps.
LEMMA PutRefMaps ==
  ASSUME TypeOK, NEW h \in Handler, PutRef(h), job[h] \in Fact
  PROVE  /\ job[h][2] \in BlobId /\ job[h][3] \in Blob
         /\ mem' \in State /\ mem'.blobs = mem.blobs
         /\ mem'.devices = mem.devices /\ mem'.peers = mem.peers /\ mem'.tokens = mem.tokens
         /\ \A d \in Device : mem'.blobIdx[d] \in {job[h][2], mem.blobIdx[d]}
         /\ \A d, s \in Device : mem'.inbox[d][s] \in {None, job[h][2], mem.inbox[d][s]}
<1>1. mem \in State
  BY DEF TypeOK
<1>2. PICK id \in BlobId, d \in Device :
        /\ id = job[h][2] /\ d = job[h][3].sender /\ job[h][3] \in Blob
  <2>1. job[h][1] = "blob"
    BY DEF PutRef, Putting
  <2>2. job[h][2] \in BlobId /\ job[h][3] \in Blob
    BY <2>1, FactIs
  <2>3. job[h][3].sender \in Device
    BY <2>2 DEF Blob
  <2> QED BY <2>2, <2>3
<1>3. CASE mem' = [mem EXCEPT !.blobIdx[d] = id]
  BY <1>1, <1>2, <1>3 DEF State, IdxMap
<1>4. CASE \E r \in Device : \E box \in PutResults(mem.inbox[r], d, id) :
             mem' = [mem EXCEPT !.inbox[r] = box]
  <2>0. PICK r \in Device : \E box \in PutResults(mem.inbox[r], d, id) :
                             mem' = [mem EXCEPT !.inbox[r] = box]
    BY <1>4
  <2>1. PICK box \in PutResults(mem.inbox[r], d, id) : mem' = [mem EXCEPT !.inbox[r] = box]
    BY <2>0
  <2>2. mem.inbox \in InboxMap /\ mem.inbox[r] \in IdxMap
    BY <1>1 DEF State, InboxMap
  <2>3. box \in IdxMap /\ \A t \in Device : box[t] \in {None, id, mem.inbox[r][t]}
    BY <2>2, PutResultsType
  <2>4. [mem.inbox EXCEPT ![r] = box] \in InboxMap
    BY <2>2, <2>3 DEF InboxMap
  <2>5. /\ mem'.inbox = [mem.inbox EXCEPT ![r] = box]
        /\ mem'.blobs = mem.blobs /\ mem'.blobIdx = mem.blobIdx
        /\ mem'.devices = mem.devices /\ mem'.peers = mem.peers
        /\ mem'.tokens = mem.tokens /\ mem' \in State
    BY <1>1, <2>1, <2>4 DEF State
  <2>6. \A e, s \in Device : mem'.inbox[e][s] \in {None, id, mem.inbox[e][s]}
    BY <2>2, <2>3, <2>5 DEF InboxMap
  <2> QED BY <1>2, <2>5, <2>6
<1> QED BY <1>2, <1>3, <1>4 DEF PutRef

\* PutRef: the blob is there, unless Compact took what it might.
LEMMA PutRefInv ==
  ASSUME IInv, NEW h \in Handler, PutRef(h)
  PROVE  IInv'
<1>1. TypeOK /\ Tokens /\ Uploads /\ Alone /\ Done /\ ReferencesAreLive /\ Down
  BY DEF IInv
<1>2. /\ mu = h /\ job[h] # None /\ job[h][1] = "blob" /\ Putting(h) /\ mu' = None
      /\ StartSave(h)
      /\ UNCHANGED <<now, up, crashes, failures, disk, snap, job, cleaning, issued, sent,
                     acked, behind>>
      /\ h \in Saver /\ h # Cleaner
  BY PersistenceAssumption DEF PutRef, Putting, Saver
<1>3. job[h] \in Fact
  BY <1>1, <1>2 DEF TypeOK
<1>4. PICK id : id = job[h][2]
  OBVIOUS
<1>5. /\ id \in BlobId /\ job[h][3] \in Blob
      /\ mem' \in State /\ mem'.blobs = mem.blobs
      /\ mem'.devices = mem.devices /\ mem'.peers = mem.peers /\ mem'.tokens = mem.tokens
      /\ \A d \in Device : mem'.blobIdx[d] \in {id, mem.blobIdx[d]}
      /\ \A d, s \in Device : mem'.inbox[d][s] \in {None, id, mem.inbox[d][s]}
  BY <1>1, <1>3, <1>4, PutRefMaps
<1>6. saving[h] = 0 /\ up /\ Begin(h)
  BY <1>1, <1>2 DEF Done, PutsAlone, Down, Begin
<1>7. OnDisk' = OnDisk
  BY <1>2 DEF OnDisk
<1>8. TypeOK'
  <2>1. /\ saving' \in [Saver -> -1..(Len(Fields) + 1)] /\ shared' \subseteq Saver
        /\ mu' \in Saver \cup {None}
    BY <1>1, <1>2, <1>6, BeginTypes
  <2>2. /\ UNCHANGED <<now, up, crashes, failures, disk, snap, sweep, doomed, victim, found>>
        /\ UNCHANGED <<job, issued, sent, acked, behind>>
    BY <1>2 DEF cleaning
  <2> QED BY <1>1, <1>5, <2>1, <2>2 DEF TypeOK
<1>9. \A q \in Saver : saving'[q] = saving[q] \/ (saving[q] = 0 /\ saving'[q] = -1)
  BY <1>1, <1>2, <1>6, BeginTypes
<1>10. Tokens' /\ Uploads'
  <2>1. Tokens'
    BY <1>1, <1>2, <1>5, <1>9, TokensStay
  <2> QED BY <1>1, <1>2, <1>5, <2>1, UploadsStay
<1>11. ReferencesAreLive'
  <2>1. ASSUME NEW i \in BlobId, Kept(i) PROVE Kept(i)'
    BY <1>2, <1>5, <2>1 DEF Kept
  <2>2. Kept(id)
    <3>1. HoldsAt(job[h], mem, now) /\ sent[id] = job[h][3] /\ sent[id] # None
      BY <1>1, <1>2, <1>4, <1>5, <1>6, RelayAssumption DEF Done, DoneInMemory, DoneIsSent
    <3> QED BY <1>2, <1>4, <3>1 DEF HoldsAt, Kept
  <2>3. Kept(id)'
    BY <1>5, <2>1, <2>2
  <2> QED BY <1>1, <1>5, <2>1, <2>3, RefsStay
<1>12. Down' /\ Cleans' /\ DoomedExpired' /\ Alone'
  BY <1>1, <1>2, <1>6, BeginRest, BeginAlone
<1>13. Done'
  <2>1. ASSUME NEW f \in Fact, HoldsAt(f, mem, now) PROVE HoldsAt(f, mem', now')
    BY <1>2, <1>5, <2>1 DEF HoldsAt
  <2>2. DoneInMemory' /\ DoneIsSent'
    BY <1>1, <1>2, <2>1 DEF Done, DoneInMemory, DoneIsSent, TypeOK
  <2>3. \A g \in Handler : ~Putting(g)' /\ (g # h => ~Putting(g))
    BY <1>2, PersistenceAssumption DEF Putting
  <2>4. saving'[h] # 0 /\ \A g \in Handler \ {h} : saving'[g] = saving[g]
    BY <1>1, <1>2, <1>6, BeginTypes DEF Saver
  <2>5. PutsAlone' /\ Registering' /\ DoneOnDisk'
    BY <1>1, <1>2, <1>7, <2>3, <2>4 DEF Done, PutsAlone, Registering, DoneOnDisk
  <2>6. DevicesOnDisk'
    BY <1>1, <1>2, <1>5, <1>6, BeginDevices DEF Done
  <2> QED
    BY <2>2, <2>5, <2>6 DEF Done
<1> QED
  BY <1>8, <1>10, <1>11, <1>12, <1>13 DEF IInv

\* Reply: the Save of what is answered has ended.
LEMMA ReplyInv ==
  ASSUME IInv, NEW h \in Handler, Reply(h)
  PROVE  IInv'
<1>1. /\ saving[h] = 0 /\ job[h] # None /\ acked' = acked \cup {job[h]} /\ ~Putting(h)
      /\ job' = [job EXCEPT ![h] = None] /\ mu' = IF mu = h THEN None ELSE mu
      /\ UNCHANGED <<now, up, crashes, failures, mem, disk, saving, snap, cleaning, issued,
                     sent, shared, behind>>
      /\ h # Cleaner
  BY PersistenceAssumption DEF Reply
<1>2. /\ TypeOK /\ Tokens /\ Uploads /\ Alone /\ Done /\ Down /\ ReferencesAreLive
      /\ OnDisk' = OnDisk
  BY <1>1 DEF IInv, OnDisk
<1>3. job[h] \in Fact /\ up
  BY <1>1, <1>2 DEF TypeOK, Down
<1>4. job'[h] = None /\ \A g \in Handler \ {h} : job'[g] = job[g]
  BY <1>1, <1>2 DEF TypeOK
<1>5. \A g \in Handler : Putting(g)' <=> Putting(g)
  BY <1>1, <1>4, PersistenceAssumption DEF Putting
<1>6. TypeOK'
  <2>1. /\ acked' \subseteq Fact /\ mu' \in Saver \cup {None}
        /\ job' \in [Handler -> Fact \cup {None}]
    BY <1>1, <1>2, <1>3 DEF TypeOK
  <2>2. /\ UNCHANGED <<now, up, crashes, failures, mem, disk, saving, snap, sweep, doomed>>
        /\ UNCHANGED <<victim, found, issued, sent, shared, behind>>
    BY <1>1 DEF cleaning
  <2> QED BY <1>2, <2>1, <2>2 DEF TypeOK
<1>7. Tokens' /\ Uploads'
  BY <1>1, <1>2 DEF Tokens, SnapTokens, SnapKnown, Known, Unused, Uploads, FromUpload
<1>8. ReferencesAreLive' /\ DoomedExpired'
  BY <1>1 DEF IInv, ReferencesAreLive, DoomedExpired, cleaning
<1>9. Down' /\ Cleans'
  BY <1>1, <1>2, <1>3 DEF IInv, Down, Cleans, cleaning
<1>10. Alone'
  <2>1. \A id \in BlobId : BeingPut(id)' <=> BeingPut(id)
    BY <1>1, <1>4, <1>5 DEF BeingPut
  <2> QED BY <1>1, <1>2, <2>1 DEF Alone
<1>11. Done'
  <2>1. DoneInMemory' /\ DoneIsSent'
    BY <1>1, <1>2, <1>3, <1>4 DEF Done, DoneInMemory, DoneIsSent
  <2>2. PutsAlone'
    BY <1>1, <1>2, <1>4, <1>5 DEF Done, PutsAlone
  <2>3. Registering'
    BY <1>1, <1>2, <1>4 DEF Done, Registering
  <2>4. DoneOnDisk'
    BY <1>1, <1>2, <1>3, <1>4, <1>5 DEF Done, DoneOnDisk
  <2>5. DevicesOnDisk'
    BY <1>1, <1>2, <1>4 DEF Done, DevicesOnDisk
  <2> QED
    BY <2>1, <2>2, <2>3, <2>4, <2>5 DEF Done
<1> QED
  BY <1>6, <1>7, <1>8, <1>9, <1>10, <1>11 DEF IInv

\* Copy: nothing is in the snapshot yet.
LEMMA CopyInv ==
  ASSUME IInv, NEW p \in Saver, Copy(p)
  PROVE  IInv'
<1>1. /\ saving[p] = -1 /\ saving' = [saving EXCEPT ![p] = 1]
      /\ UNCHANGED <<now, up, crashes, failures, mem, disk, mu, snap, job, cleaning,
                     issued, sent, acked, shared, behind>>
  BY DEF Copy
<1>2. /\ TypeOK /\ Tokens /\ Uploads /\ Alone /\ Done /\ Down /\ Cleans /\ ReferencesAreLive
      /\ OnDisk' = OnDisk
  BY <1>1 DEF IInv, OnDisk
<1>3. saving'[p] = 1 /\ \A q \in Saver \ {p} : saving'[q] = saving[q]
  BY <1>1, <1>2 DEF TypeOK
<1>4. TypeOK'
  <2>1. saving' \in [Saver -> -1..(Len(Fields) + 1)]
    BY <1>1, <1>2, FieldsAre DEF TypeOK
  <2>2. /\ UNCHANGED <<now, up, crashes, failures, mem, disk, mu, snap, job, sweep, doomed>>
        /\ UNCHANGED <<victim, found, issued, sent, acked, shared, behind>>
    BY <1>1 DEF cleaning
  <2> QED BY <1>2, <2>1, <2>2 DEF TypeOK
<1>5. Tokens'
  <2>1. \A q \in Saver : \/ saving'[q] = saving[q]
                         \/ (saving[q] \in {-1, 0} /\ saving'[q] \in {-1, 1})
    BY <1>1, <1>3
  <2> QED BY <1>1, <1>2, <2>1, TokensStay
<1>6. Uploads' /\ ReferencesAreLive' /\ DoomedExpired'
  BY <1>1, <1>2 DEF IInv, Uploads, FromUpload, ReferencesAreLive, DoomedExpired, cleaning
<1>7. Down' /\ Cleans'
  BY <1>1, <1>2, <1>3 DEF Down, Cleans, cleaning
<1>8. Alone'
  <2>1. \A id \in BlobId : BeingPut(id)' <=> BeingPut(id)
    BY <1>1 DEF BeingPut, Putting
  <2> QED BY <1>1, <1>2, <1>3, <2>1 DEF Alone
<1>9. Done'
  <2>1. /\ \A g \in Handler : saving'[g] = 0 <=> saving[g] = 0
        /\ \A g \in Handler : Putting(g)' <=> Putting(g)
    BY <1>1, <1>3 DEF Saver, Putting
  <2>2. DoneInMemory' /\ DoneIsSent' /\ Registering'
    BY <1>1, <1>2 DEF Done, DoneInMemory, DoneIsSent, Registering
  <2>3. PutsAlone' /\ DoneOnDisk'
    BY <1>1, <1>2, <2>1 DEF Done, PutsAlone, DoneOnDisk
  <2>4. DevicesOnDisk'
    BY <1>1, <1>2, <2>1 DEF Done, DevicesOnDisk
  <2> QED BY <2>2, <2>3, <2>4 DEF Done
<1> QED
  BY <1>4, <1>5, <1>6, <1>7, <1>8, <1>9 DEF IInv

\* Marshal: the tokens are marshalled after the devices, and are then at least theirs.
LEMMA MarshalInv ==
  ASSUME IInv, NEW p \in Saver, Marshal(p)
  PROVE  IInv'
<1>1. TypeOK /\ Tokens /\ Uploads /\ Alone /\ Done /\ Down /\ Cleans
  BY DEF IInv
<1>2. /\ saving[p] \in 1..6 /\ saving' = [saving EXCEPT ![p] = saving[p] + 1]
      /\ snap' \in [Saver -> State]
      /\ \A q \in Saver \ {p} : snap'[q] = snap[q]
      /\ UNCHANGED <<now, up, crashes, failures, mem, disk, mu, job, cleaning, issued,
                     sent, acked, shared, behind>>
  BY <1>1, Marshalled
<1>3. /\ snap'[p].blobs   = IF saving[p] = 1 THEN mem.blobs   ELSE snap[p].blobs
      /\ snap'[p].devices = IF saving[p] = 2 THEN mem.devices ELSE snap[p].devices
      /\ snap'[p].peers   = IF saving[p] = 3 THEN mem.peers   ELSE snap[p].peers
      /\ snap'[p].inbox   = IF saving[p] = 4 THEN mem.inbox   ELSE snap[p].inbox
      /\ snap'[p].tokens  = IF saving[p] = 5 THEN mem.tokens  ELSE snap[p].tokens
      /\ snap'[p].blobIdx = IF saving[p] = 6 THEN mem.blobIdx ELSE snap[p].blobIdx
  BY <1>1, Marshalled
<1>4. /\ saving'[p] = saving[p] + 1 /\ \A q \in Saver \ {p} : saving'[q] = saving[q]
      /\ \A q \in Saver : saving[q] \in -1..7
      /\ OnDisk' = OnDisk
  BY <1>1, <1>2, FieldsAre DEF TypeOK, OnDisk
<1>5. TypeOK'
  <2>1. saving' \in [Saver -> -1..(Len(Fields) + 1)]
    BY <1>1, <1>2, FieldsAre DEF TypeOK
  <2>2. /\ UNCHANGED <<now, up, crashes, failures, mem, disk, mu, job, sweep, doomed>>
        /\ UNCHANGED <<victim, found, issued, sent, acked, shared, behind>>
    BY <1>2 DEF cleaning
  <2> QED BY <1>1, <1>2, <2>1, <2>2 DEF TypeOK
<1>6. Tokens'
  <2>1. (Known(mem) /\ Unused(mem) /\ Known(OnDisk) /\ Unused(OnDisk))'
    BY <1>1, <1>2, <1>4 DEF Tokens, Known, Unused
  <2>2. (\A q \in Saver : Unused(snap[q]))'
    BY <1>1, <1>2, <1>3 DEF Tokens, SnapTokens, Unused
  <2>3. ASSUME NEW q \in Saver
        PROVE  /\ saving'[q] <= 2 => snap'[q].devices = Empty.devices
               /\ saving'[q] <= 5 => snap'[q].tokens = Empty.tokens
               /\ saving'[q] \in 3..5 => \A d \in Device : snap'[q].devices[d] # None
                    => mem.tokens[snap'[q].devices[d]] = d
               /\ saving'[q] >= 6 => Known(snap'[q])
    <3>1. /\ saving[q] <= 2 => snap[q].devices = Empty.devices
          /\ saving[q] <= 5 => snap[q].tokens = Empty.tokens
          /\ saving[q] \in 3..5 => \A d \in Device : snap[q].devices[d] # None
               => mem.tokens[snap[q].devices[d]] = d
          /\ saving[q] >= 6 => Known(snap[q])
          /\ Known(mem)
      BY <1>1 DEF Tokens, SnapTokens, SnapKnown
    <3>2. CASE q # p
      BY <1>2, <1>4, <3>1, <3>2
    <3>3. CASE q = p /\ saving[p] = 1
      BY <1>3, <1>4, <3>1, <3>3
    <3>4. CASE q = p /\ saving[p] = 2
      BY <1>3, <1>4, <3>1, <3>4 DEF Known
    <3>5. CASE q = p /\ saving[p] \in 3..4
      BY <1>3, <1>4, <3>1, <3>5
    <3>6. CASE q = p /\ saving[p] = 5
      BY <1>3, <1>4, <3>1, <3>6 DEF Known
    <3>7. CASE q = p /\ saving[p] = 6
      BY <1>3, <1>4, <3>1, <3>7 DEF Known
    <3> QED
      BY <1>2, <3>2, <3>3, <3>4, <3>5, <3>6, <3>7
  <2>4. SnapKnown'
    BY <1>2, <2>3 DEF SnapKnown, Known
  <2> QED
    BY <2>1, <2>2, <2>4 DEF Tokens, SnapTokens
<1>7. Uploads'
  BY <1>1, <1>2, <1>3, <1>4 DEF Uploads, FromUpload
<1>8. ReferencesAreLive' /\ DoomedExpired'
  BY <1>2 DEF IInv, ReferencesAreLive, DoomedExpired, cleaning
<1>9. Down' /\ Cleans'
  <2>1. sweep # "wait" => p # Cleaner
    BY <1>1, <1>2 DEF Cleans
  <2> QED BY <1>1, <1>2, <1>4, <2>1 DEF Down, Cleans, cleaning, Saver
<1>10. Alone'
  <2>1. \A id \in BlobId : BeingPut(id)' <=> BeingPut(id)
    BY <1>2 DEF BeingPut, Putting
  <2> QED BY <1>1, <1>2, <1>3, <1>4, <2>1 DEF Alone
<1>11. Done'
  <2>1. /\ \A h \in Handler : saving'[h] = 0 <=> saving[h] = 0
        /\ \A h \in Handler : Putting(h)' <=> Putting(h)
    BY <1>2, <1>4 DEF Saver, Putting
  <2>2. DoneInMemory' /\ DoneIsSent' /\ Registering'
    BY <1>1, <1>2 DEF Done, DoneInMemory, DoneIsSent, Registering
  <2>3. PutsAlone' /\ DoneOnDisk'
    BY <1>1, <1>2, <1>4, <2>1 DEF Done, PutsAlone, DoneOnDisk
  <2>4. DevicesOnDisk'
    BY <1>1, <1>2, <1>4, <2>1 DEF Done, DevicesOnDisk
  <2> QED
    BY <2>2, <2>3, <2>4 DEF Done
<1> QED
  BY <1>5, <1>6, <1>7, <1>8, <1>9, <1>10, <1>11 DEF IInv

\* What the two ends of a Save share, whatever they leave on disk.
LEMMA EndSaveInv ==
  ASSUME IInv, NEW p \in Saver, saving[p] = 7, EndSave(p),
         disk' \in State \cup {None}, failures' \in 0..MaxFailures, behind' \in BOOLEAN,
         (Known(OnDisk) /\ Unused(OnDisk) /\ FromUpload(OnDisk))',
         (DoneOnDisk /\ DevicesOnDisk)'
  PROVE  IInv'
<1>1. TypeOK /\ Tokens /\ Uploads /\ Alone /\ Done /\ Down /\ Cleans
  BY DEF IInv
<1>2. /\ saving' = [saving EXCEPT ![p] = 0] /\ snap' = [snap EXCEPT ![p] = Empty]
      /\ shared' = shared \ {p} /\ mu' = IF mu = p /\ job[p] = None THEN None ELSE mu
      /\ UNCHANGED <<now, up, crashes, mem, job, cleaning, issued, sent, acked>>
  BY DEF EndSave
<1>3. up
  BY <1>1 DEF Down
<1>4. TypeOK'
  <2>1. saving' \in [Saver -> -1..(Len(Fields) + 1)]
    BY <1>1, <1>2, FieldsAre DEF TypeOK
  <2>2. snap' \in [Saver -> State]
    BY <1>1, <1>2, EmptyState DEF TypeOK
  <2>3. shared' \subseteq Saver /\ mu' \in Saver \cup {None}
    BY <1>1, <1>2 DEF TypeOK
  <2>4. /\ UNCHANGED <<now, up, crashes, mem, job, sweep, doomed, victim, found>>
        /\ UNCHANGED <<issued, sent, acked>>
    BY <1>2 DEF cleaning
  <2> QED
    BY <1>1, <2>1, <2>2, <2>3, <2>4 DEF TypeOK
<1>5. /\ saving'[p] = 0 /\ snap'[p] = Empty
      /\ \A q \in Saver \ {p} : saving'[q] = saving[q] /\ snap'[q] = snap[q]
  BY <1>1, <1>2 DEF TypeOK
<1>6. Tokens'
  <2>1. Known(mem)' /\ Unused(mem)'
    BY <1>1, <1>2 DEF Tokens, Known, Unused
  <2>2. (\A q \in Saver : Unused(snap[q]))'
    <3>1. Unused(Empty)
      BY DEF Unused, Empty
    <3> QED
      BY <1>1, <1>2, <1>5, <3>1 DEF Tokens, SnapTokens, Unused
  <2>3. SnapKnown'
    BY <1>1, <1>2, <1>5 DEF Tokens, SnapTokens, SnapKnown, Known
  <2> QED
    BY <2>1, <2>2, <2>3 DEF Tokens, SnapTokens
<1>7. Uploads'
  <2>1. FromUpload(mem)' /\ FromUpload(Empty)'
    BY <1>1, <1>2 DEF Uploads, FromUpload, Empty
  <2>2. (\A q \in Saver : FromUpload(snap[q]))'
    BY <1>1, <1>2, <1>5, <2>1 DEF Uploads, FromUpload
  <2> QED BY <2>1, <2>2 DEF Uploads
<1>8. ReferencesAreLive' /\ DoomedExpired'
  BY <1>2 DEF IInv, ReferencesAreLive, DoomedExpired, cleaning
<1>9. Down' /\ Cleans'
  <2>1. sweep # "wait" => p # Cleaner
    BY <1>1 DEF Cleans
  <2> QED BY <1>1, <1>2, <1>3, <1>5, <2>1 DEF Down, Cleans, cleaning, Saver
<1>10. \A g \in Handler : Putting(g)' <=> Putting(g)
  BY <1>2, PersistenceAssumption DEF Putting
<1>11. Alone'
  <2>1. \A id \in BlobId : BeingPut(id)' <=> BeingPut(id)
    BY <1>2, <1>10 DEF BeingPut
  <2> QED BY <1>1, <1>2, <1>5, <2>1 DEF Alone
<1>12. Done'
  <2>1. DoneInMemory' /\ DoneIsSent'
    BY <1>1, <1>2 DEF Done, DoneInMemory, DoneIsSent
  <2>2. Registering'
    BY <1>1, <1>2 DEF Done, Registering
  <2>3. PutsAlone'
    BY <1>1, <1>2, <1>5, <1>10 DEF Done, PutsAlone, Saver
  <2> QED
    BY <2>1, <2>2, <2>3 DEF Done
<1> QED
  BY <1>4, <1>6, <1>7, <1>8, <1>9, <1>11, <1>12 DEF IInv

\* Rename: a Save that ran alone has written what is in memory, except for the blob that
\* is being put, which nobody was told of.
LEMMA RenameInv ==
  ASSUME IInv, NEW p \in Saver, Rename(p)
  PROVE  IInv'
<1>1. TypeOK /\ Tokens /\ Uploads /\ Alone /\ Done /\ Down
  BY DEF IInv
<1>2. /\ saving[p] = 7 /\ disk' = snap[p] /\ behind' = (p \in shared) /\ EndSave(p)
      /\ failures' = failures
  BY FieldsAre DEF Rename
<1>3. snap[p] \in State /\ OnDisk' = snap[p]
  BY <1>1, <1>2, NoneAssumption DEF TypeOK, OnDisk
<1>4. Known(OnDisk)' /\ Unused(OnDisk)' /\ FromUpload(OnDisk)'
  BY <1>1, <1>2, <1>3 DEF Tokens, SnapTokens, SnapKnown, Known, Unused, EndSave, Uploads,
     FromUpload
<1>5. /\ UNCHANGED <<now, up, mem, job, acked, sent>> /\ up
      /\ now \in Nat /\ mem \in State /\ None \notin Blob
  BY <1>1, <1>2, PersistenceAssumption, RelayAssumption DEF EndSave, Down, TypeOK
<1>6. ~behind' => /\ \A id \in BlobId : mem.blobs[id] # None /\ ~BeingPut(id)
                                          => OnDisk'.blobs[id] = mem.blobs[id]
                  /\ OnDisk'.devices = mem.devices /\ OnDisk'.peers = mem.peers
  <2>1. ~behind' => p \in Saver \ shared
    BY <1>2
  <2> QED
    BY <1>1, <1>2, <1>3, <2>1 DEF Alone
<1>7. ASSUME ~behind', NEW f \in Fact, HoldsAt(f, mem, now),
             f[1] = "blob" => ~BeingPut(f[2])
      PROVE  HoldsAt(f, OnDisk', now')
  BY <1>5, <1>6, <1>7, FactIs DEF HoldsAt
<1>8. \A g \in Handler : Putting(g)' <=> Putting(g)
  BY <1>2, PersistenceAssumption DEF Putting, EndSave
<1>9. DoneOnDisk'
  <2>1. \A f \in acked : f[1] = "blob" => ~BeingPut(f[2])
    BY <1>1 DEF Done, PutsAlone, BeingPut
  <2>2. \A h \in Handler : ~Putting(h) /\ job[h] # None /\ job[h][1] = "blob"
                             => ~BeingPut(job[h][2])
    BY <1>1 DEF Done, PutsAlone, BeingPut
  <2> QED
    BY <1>1, <1>5, <1>7, <1>8, <2>1, <2>2 DEF Done, DoneInMemory, DoneOnDisk, TypeOK
<1>10. DevicesOnDisk'
  BY <1>5, <1>6 DEF DevicesOnDisk
<1> QED
  BY <1>1, <1>2, <1>3, <1>4, <1>9, <1>10, EndSaveInv DEF TypeOK

LEMMA WriteFailsInv ==
  ASSUME IInv, NEW p \in Saver, WriteFails(p)
  PROVE  IInv'
<1>1. TypeOK /\ Tokens /\ Uploads
  BY DEF IInv
<1>2. /\ saving[p] = 7 /\ disk' = disk /\ behind' = TRUE /\ EndSave(p)
      /\ failures < MaxFailures /\ failures' = failures + 1
  BY FieldsAre DEF WriteFails
<1>3. Known(OnDisk)' /\ Unused(OnDisk)' /\ FromUpload(OnDisk)'
  BY <1>1, <1>2 DEF Tokens, Known, Unused, EndSave, OnDisk, Uploads, FromUpload
<1>4. DoneOnDisk' /\ DevicesOnDisk'
  BY <1>2 DEF DoneOnDisk, DevicesOnDisk
<1>5. disk' \in State \cup {None} /\ failures' \in 0..MaxFailures
  BY <1>1, <1>2, PersistenceAssumption DEF TypeOK
<1> QED
  BY <1>2, <1>3, <1>4, <1>5, EndSaveInv

\* What the steps of the cleanup goroutine share: nothing goes but references and blobs
\* that may.
LEMMA SweepInv ==
  ASSUME IInv, up,
         UNCHANGED <<now, up, crashes, failures, disk, saving, snap, job, issued, sent, acked,
                     shared, behind>>,
         mem' \in State, mem'.devices = mem.devices, mem'.peers = mem.peers,
         mem'.tokens = mem.tokens,
         \A id \in BlobId : \/ mem'.blobs[id] = mem.blobs[id]
                            \/ /\ mem'.blobs[id] = None
                               /\ sent[id] # None /\ MayGo(sent[id], now),
         \A d \in Device : mem'.blobIdx[d] \in {None, mem.blobIdx[d]},
         \A d, s \in Device : mem'.inbox[d][s] \in {None, mem.inbox[d][s]},
         mu' = mu \/ (mu \in {None, Cleaner} /\ mu' \in {None, Cleaner}),
         sweep' \in {"wait", "clean", "scan", "compact"}, doomed' \subseteq BlobId,
         victim' \in BlobId \cup {None}, found' \in Found \cup {None},
         (DoomedExpired /\ Cleans)'
  PROVE  IInv'
<1>1. TypeOK /\ Tokens /\ Uploads /\ Alone /\ Done /\ ReferencesAreLive
  BY DEF IInv
<1>2. OnDisk' = OnDisk
  BY DEF OnDisk
<1>3. TypeOK'
  <2>1. mu' \in Saver \cup {None}
    BY <1>1 DEF TypeOK, Saver
  <2> QED BY <1>1, <2>1 DEF TypeOK
<1>4. Tokens' /\ Uploads'
  <2>1. Tokens'
    BY <1>1, TokensStay
  <2> QED BY <1>1, <2>1, UploadsStay
<1>5. ReferencesAreLive'
  <2>1. ASSUME NEW id \in BlobId, Kept(id) PROVE Kept(id)'
    BY <1>1, <2>1, KeptStays
  <2> QED BY <1>1, <2>1, RefsStay
<1>6. \A g \in Handler : (mu' = g <=> mu = g) /\ (Putting(g)' <=> Putting(g))
  BY PersistenceAssumption DEF Putting
<1>7. Alone'
  <2>1. \A id \in BlobId : BeingPut(id)' <=> BeingPut(id)
    BY <1>6 DEF BeingPut
  <2>2. \A id \in BlobId : mem'.blobs[id] # None => mem'.blobs[id] = mem.blobs[id]
    OBVIOUS
  <2> QED BY <1>1, <2>1, <2>2 DEF Alone
<1>8. Done'
  <2>1. ASSUME NEW f \in Fact, HoldsAt(f, mem, now), f[1] = "blob" => sent[f[2]] = f[3]
        PROVE  HoldsAt(f, mem', now')
    <3>1. \A id \in BlobId : \/ mem'.blobs[id] = mem.blobs[id]
                             \/ sent[id] = None \/ MayGo(sent[id], now)
      OBVIOUS
    <3>2. /\ \A d \in Device : mem.devices[d] # None => mem'.devices[d] = mem.devices[d]
          /\ \A d \in Device : mem.peers[d] \subseteq mem'.peers[d]
      OBVIOUS
    <3> QED BY <1>1, <2>1, <3>1, <3>2, FactStays
  <2>2. DoneInMemory' /\ DoneIsSent'
    BY <1>1, <2>1 DEF Done, DoneInMemory, DoneIsSent, TypeOK
  <2>3. PutsAlone' /\ Registering'
    BY <1>1, <1>6 DEF Done, PutsAlone, Registering
  <2>4. DoneOnDisk'
    BY <1>1, <1>2, <1>6 DEF Done, DoneOnDisk
  <2>5. DevicesOnDisk'
    BY <1>1, <1>2 DEF Done, DevicesOnDisk
  <2> QED BY <2>2, <2>3, <2>4, <2>5 DEF Done
<1>9. Down'
  BY DEF Down
<1> QED
  BY <1>3, <1>4, <1>5, <1>7, <1>8, <1>9 DEF IInv

\* The blobs that are expired in memory may go, as uploads of their IDs.
LEMMA ExpiredAreDoomed ==
  ASSUME IInv, NEW id \in ExpiredIds(mem.blobs, now)
  PROVE  id \in BlobId /\ sent[id] # None /\ MayGo(sent[id], now)
<1>1. /\ id \in BlobId /\ mem.blobs[id] # None /\ Expired(mem.blobs[id], now)
      /\ mem.blobs[id] \in Blob /\ now \in Nat /\ sent[id] = mem.blobs[id]
  BY PersistenceAssumption DEF IInv, TypeOK, State, BlobMap, Uploads, FromUpload, ExpiredIds,
     LiveIds
<1> QED BY <1>1, ExpiredMayGo

LEMMA CleanBeginsInv ==
  ASSUME IInv, CleanBegins
  PROVE  IInv'
<1>1. /\ up /\ saving[Cleaner] = 0 /\ mu = None /\ mu' = Cleaner /\ sweep' = "clean"
      /\ doomed' = ExpiredIds(mem.blobs, now)
      /\ UNCHANGED <<now, up, crashes, failures, mem, disk, saving, snap, job, victim,
                     found, issued, sent, acked, shared, behind>>
  BY DEF CleanBegins
<1>2. TypeOK
  BY DEF IInv
<1>3. doomed' \subseteq BlobId /\ DoomedExpired'
  BY <1>1, ExpiredAreDoomed DEF DoomedExpired
<1>4. Cleans'
  BY <1>1 DEF Cleans
<1> QED BY <1>1, <1>2, <1>3, <1>4, SweepInv DEF TypeOK

LEMMA CleanEndsInv ==
  ASSUME IInv, CleanEnds
  PROVE  IInv'
<1>1. /\ sweep = "clean" /\ mu' = None /\ sweep' = "scan"
      /\ UNCHANGED <<now, up, crashes, failures, mem, disk, saving, snap, job, doomed,
                     victim, found, issued, sent, acked, shared, behind>>
  BY DEF CleanEnds
<1>2. TypeOK /\ up /\ mu = Cleaner
  BY <1>1 DEF IInv, Down, Cleans
<1>3. DoomedExpired' /\ Cleans'
  BY <1>1 DEF IInv, DoomedExpired, Cleans
<1> QED BY <1>1, <1>2, <1>3, SweepInv DEF TypeOK

LEMMA CompactScanInv ==
  ASSUME IInv, CompactScan
  PROVE  IInv'
<1>1. /\ sweep = "scan" /\ sweep' = "compact"
      /\ doomed' = ExpiredIds(mem.blobs, now)
      /\ UNCHANGED <<now, up, crashes, failures, mem, disk, mu, saving, snap, job, victim,
                     found, issued, sent, acked, shared, behind>>
  BY DEF CompactScan
<1>2. TypeOK /\ up
  BY <1>1 DEF IInv, Down
<1>3. doomed' \subseteq BlobId /\ DoomedExpired'
  BY <1>1, ExpiredAreDoomed DEF DoomedExpired
<1>4. Cleans'
  BY <1>1 DEF IInv, Cleans
<1> QED BY <1>1, <1>2, <1>3, <1>4, SweepInv DEF TypeOK

LEMMA DropBlobInv ==
  ASSUME IInv, NEW id \in BlobId, DropBlob(id)
  PROVE  IInv'
<1>1. /\ id \in doomed /\ doomed' = doomed \ {id} /\ victim' = id
      /\ mem' = [mem EXCEPT !.blobs = BlobsWithout(mem.blobs, {id})]
      /\ UNCHANGED <<now, up, crashes, failures, disk, mu, saving, snap, job, sweep, found,
                     issued, sent, acked, shared, behind>>
  BY DEF DropBlob
<1>2. TypeOK /\ up /\ mem \in State /\ sent[id] # None /\ MayGo(sent[id], now)
  BY <1>1 DEF IInv, Down, TypeOK, DoomedExpired
<1>3. BlobsWithout(mem.blobs, {id}) \in BlobMap
  BY <1>2 DEF BlobsWithout, BlobMap, State
<1>4. /\ mem' \in State /\ mem'.blobs = BlobsWithout(mem.blobs, {id})
      /\ mem'.devices = mem.devices /\ mem'.peers = mem.peers /\ mem'.tokens = mem.tokens
      /\ mem'.blobIdx = mem.blobIdx /\ mem'.inbox = mem.inbox
  BY <1>1, <1>2, <1>3 DEF State
<1>5. \A i \in BlobId : mem'.blobs[i] = IF i = id THEN None ELSE mem.blobs[i]
  BY <1>4 DEF BlobsWithout
<1>6. DoomedExpired' /\ Cleans'
  BY <1>1 DEF IInv, DoomedExpired, Cleans
<1>7. \A i \in BlobId : \/ mem'.blobs[i] = mem.blobs[i]
                        \/ /\ mem'.blobs[i] = None
                           /\ sent[i] # None /\ MayGo(sent[i], now)
  BY <1>2, <1>5
<1>8. /\ sweep' \in {"wait", "clean", "scan", "compact"} /\ doomed' \subseteq BlobId
      /\ victim' \in BlobId \cup {None} /\ found' \in Found \cup {None}
  BY <1>1, <1>2 DEF TypeOK
<1> QED BY <1>1, <1>2, <1>4, <1>6, <1>7, <1>8, SweepInv

LEMMA FindRefsInv ==
  ASSUME IInv, FindRefs
  PROVE  IInv'
<1>1. /\ victim # None /\ found' \in Found
      /\ UNCHANGED <<now, up, crashes, failures, mem, disk, mu, saving, snap, job, sweep,
                     doomed, victim, issued, sent, acked, shared, behind>>
  BY DEF FindRefs, Found
<1>2. TypeOK /\ up
  BY <1>1 DEF IInv, Down
<1>3. DoomedExpired' /\ Cleans'
  BY <1>1 DEF IInv, DoomedExpired, Cleans
<1> QED BY <1>1, <1>2, <1>3, SweepInv DEF TypeOK

LEMMA DropRefsInv ==
  ASSUME IInv, DropRefs
  PROVE  IInv'
<1> DEFINE idx == [d \in Device |-> IF d \in found.idx THEN None ELSE mem.blobIdx[d]]
           box == [r \in Device |-> [s \in Device |->
                     IF <<r, s>> \in found.slots THEN None ELSE mem.inbox[r][s]]]
<1>1. /\ found # None /\ victim' = None /\ found' = None
      /\ mem' = [mem EXCEPT !.blobIdx = idx, !.inbox = box]
      /\ UNCHANGED <<now, up, crashes, failures, disk, mu, saving, snap, job, sweep, doomed,
                     issued, sent, acked, shared, behind>>
  BY DEF DropRefs
<1>2. TypeOK /\ up /\ mem \in State
  BY <1>1 DEF IInv, Down, TypeOK
<1>3. idx \in IdxMap /\ box \in InboxMap
  BY <1>2 DEF State, IdxMap, InboxMap
<1>4. /\ \A d \in Device : idx[d] \in {None, mem.blobIdx[d]}
      /\ \A d, s \in Device : box[d][s] \in {None, mem.inbox[d][s]}
  OBVIOUS
<1> HIDE DEF idx, box
<1>5. /\ mem' \in State /\ mem'.blobs = mem.blobs
      /\ mem'.devices = mem.devices /\ mem'.peers = mem.peers /\ mem'.tokens = mem.tokens
      /\ mem'.blobIdx = idx /\ mem'.inbox = box
  BY <1>1, <1>2, <1>3 DEF State
<1>6. DoomedExpired' /\ Cleans'
  BY <1>1 DEF IInv, DoomedExpired, Cleans
<1>7. /\ sweep' \in {"wait", "clean", "scan", "compact"} /\ doomed' \subseteq BlobId
      /\ victim' \in BlobId \cup {None} /\ found' \in Found \cup {None}
  BY <1>1, <1>2 DEF TypeOK
<1> QED BY <1>1, <1>2, <1>4, <1>5, <1>6, <1>7, SweepInv

\* CompactEnds: nothing goes, and the cleanup goroutine saves.
LEMMA CompactEndsInv ==
  ASSUME IInv, CompactEnds
  PROVE  IInv'
<1>1. TypeOK /\ Tokens /\ Uploads /\ Alone /\ Done /\ Down /\ Cleans /\ ReferencesAreLive
  BY DEF IInv
<1>2. /\ sweep = "compact" /\ sweep' = "wait" /\ StartSave(Cleaner)
      /\ UNCHANGED <<now, up, crashes, failures, mem, disk, mu, snap, job, doomed, victim,
                     found, issued, sent, acked, behind>>
  BY DEF CompactEnds
<1>3. up /\ Begin(Cleaner) /\ Cleaner \in Saver /\ saving[Cleaner] = 0 /\ OnDisk' = OnDisk
  BY <1>1, <1>2 DEF Down, Cleans, Begin, Saver, OnDisk
<1>4. TypeOK'
  <2>1. saving' \in [Saver -> -1..(Len(Fields) + 1)] /\ shared' \subseteq Saver
    BY <1>1, <1>3, BeginTypes
  <2> QED BY <1>1, <1>2, <2>1 DEF TypeOK
<1>5. \A q \in Saver : saving'[q] = saving[q] \/ (saving[q] = 0 /\ saving'[q] = -1)
  BY <1>1, <1>3, BeginTypes
<1>6. Tokens' /\ Uploads'
  <2>1. Tokens'
    BY <1>1, <1>2, <1>5, TokensStay
  <2> QED BY <1>1, <1>2, <2>1, UploadsStay
<1>7. ReferencesAreLive' /\ DoomedExpired'
  BY <1>2 DEF IInv, ReferencesAreLive, DoomedExpired
<1>8. Down' /\ Cleans' /\ Alone'
  BY <1>1, <1>2, <1>3, BeginAlone DEF Down, Cleans
<1>9. Done'
  <2>1. \A g \in Handler : saving'[g] = saving[g] /\ (Putting(g)' <=> Putting(g))
    BY <1>1, <1>2, <1>3, BeginTypes, PersistenceAssumption DEF Saver, Putting
  <2>2. DoneInMemory' /\ DoneIsSent' /\ Registering'
    BY <1>1, <1>2 DEF Done, DoneInMemory, DoneIsSent, Registering
  <2>3. PutsAlone' /\ DoneOnDisk'
    BY <1>1, <1>2, <1>3, <2>1 DEF Done, PutsAlone, DoneOnDisk
  <2>4. DevicesOnDisk'
    BY <1>1, <1>2, <1>3, <2>1 DEF Done, DevicesOnDisk
  <2> QED BY <2>2, <2>3, <2>4 DEF Done
<1> QED
  BY <1>4, <1>6, <1>7, <1>8, <1>9 DEF IInv

\* Crash: what was not on disk is gone, and with it the promises about it.
LEMMA CrashInv ==
  ASSUME IInv, Crash
  PROVE  IInv'
<1>1. TypeOK /\ Tokens /\ Uploads /\ Done
  BY DEF IInv
<1>2. /\ crashes < MaxCrashes /\ crashes' = crashes + 1 /\ up' = FALSE /\ mem' = Empty
      /\ mu' = None /\ saving' = [p \in Saver |-> 0] /\ snap' = [p \in Saver |-> Empty]
      /\ job' = [h \in Handler |-> None] /\ shared' = {} /\ behind' = FALSE
      /\ sweep' = "wait" /\ doomed' = {} /\ victim' = None /\ found' = None
      /\ acked' = {f \in acked : Holds(f, OnDisk)}
      /\ UNCHANGED <<now, failures, disk, issued, sent>>
  BY DEF Crash
<1>3. OnDisk' = OnDisk
  BY <1>2 DEF OnDisk
<1>4. TypeOK'
  <2>1. mem' \in State /\ snap' \in [Saver -> State]
    BY <1>2, EmptyState
  <2>2. saving' \in [Saver -> -1..(Len(Fields) + 1)] /\ job' \in [Handler -> Fact \cup {None}]
    BY <1>2, FieldsAre
  <2>3. crashes' \in 0..MaxCrashes /\ acked' \subseteq Fact
    BY <1>1, <1>2, PersistenceAssumption DEF TypeOK
  <2> QED
    BY <1>1, <1>2, <2>1, <2>2, <2>3 DEF TypeOK
<1>5. Tokens'
  <2>1. Known(Empty) /\ Unused(Empty)
    BY DEF Known, Unused, Empty
  <2>2. (Known(mem) /\ Unused(mem) /\ Known(OnDisk) /\ Unused(OnDisk))'
    BY <1>1, <1>2, <1>3, <2>1 DEF Tokens, Known, Unused
  <2>3. (\A q \in Saver : Unused(snap[q]))'
    BY <1>2, <2>1 DEF Unused
  <2>4. SnapKnown'
    BY <1>2 DEF SnapKnown
  <2> QED
    BY <2>2, <2>3, <2>4 DEF Tokens, SnapTokens
<1>6. Uploads'
  <2>1. FromUpload(OnDisk)'
    BY <1>1, <1>2, <1>3 DEF Uploads, FromUpload
  <2>2. FromUpload(mem)' /\ (\A p \in Saver : FromUpload(snap[p]))'
    BY <1>2 DEF FromUpload, Empty
  <2> QED BY <2>1, <2>2 DEF Uploads
<1>7. ReferencesAreLive' /\ DoomedExpired'
  BY <1>2 DEF ReferencesAreLive, Empty, EmptyBox, DoomedExpired
<1>8. Down' /\ Cleans' /\ Alone'
  BY <1>2 DEF Down, Cleans, Alone
<1>9. Done'
  <2>1. \A f \in acked' : f \in acked /\ HoldsAt(f, OnDisk, now)
    BY <1>1, <1>2, HoldsIs DEF TypeOK
  <2>2. DoneOnDisk'
    BY <1>2, <1>3, <2>1 DEF DoneOnDisk
  <2>3. DoneInMemory' /\ DoneIsSent' /\ PutsAlone' /\ Registering' /\ DevicesOnDisk'
    BY <1>1, <1>2, <2>1
       DEF Done, DoneInMemory, DoneIsSent, PutsAlone, Putting, Registering, DevicesOnDisk
  <2> QED
    BY <2>2, <2>3 DEF Done
<1> QED
  BY <1>4, <1>5, <1>6, <1>7, <1>8, <1>9 DEF IInv

\* Restart: Load takes every live blob of the file, and no reference to another.
LEMMA RestartInv ==
  ASSUME IInv, Restart
  PROVE  IInv'
<1> DEFINE live == {id \in LiveIds(OnDisk.blobs) : ~Expired(OnDisk.blobs[id], now)}
           gone == BlobId \ live
<1>1. TypeOK /\ Tokens /\ Uploads /\ Alone /\ Done /\ OnDisk \in State
  BY DiskState DEF IInv
<1>2. /\ mem' = Without(OnDisk, gone) /\ up' = TRUE
      /\ UNCHANGED <<now, crashes, failures, disk, mu, saving, snap, job, cleaning, issued,
                     sent, acked, shared, behind>>
  BY DEF Restart, Load
<1>3. /\ mu = None /\ ~behind /\ shared = {}
      /\ \A h \in Handler : job[h] = None
      /\ \A p \in Saver : saving[p] = 0
      /\ sweep = "wait" /\ doomed = {}
  BY DEF IInv, Down, Restart
<1>4. OnDisk' = OnDisk /\ now \in Nat
  BY <1>1, <1>2, PersistenceAssumption DEF OnDisk, TypeOK
<1>5. /\ mem' \in State
      /\ mem'.devices = OnDisk.devices /\ mem'.peers = OnDisk.peers
      /\ mem'.tokens = OnDisk.tokens
      /\ \A id \in BlobId : mem'.blobs[id] = IF id \in gone THEN None ELSE OnDisk.blobs[id]
      /\ \A d \in Device :
           mem'.blobIdx[d] = IF OnDisk.blobIdx[d] \in gone THEN None ELSE OnDisk.blobIdx[d]
      /\ \A d, s \in Device : mem'.inbox[d][s]
           = IF OnDisk.inbox[d][s] \in gone THEN None ELSE OnDisk.inbox[d][s]
  BY <1>1, <1>2, WithoutState
<1>6. TypeOK'
  <2>1. /\ UNCHANGED <<now, crashes, failures, disk, mu, saving, snap, job, sweep, doomed>>
        /\ UNCHANGED <<victim, found, issued, sent, acked, shared, behind>> /\ up' = TRUE
    BY <1>2 DEF cleaning
  <2> QED BY <1>1, <1>5, <2>1 DEF TypeOK
<1>7. Tokens'
  <2>1. (Known(OnDisk) /\ Unused(OnDisk))'
    BY <1>1, <1>2, <1>4 DEF Tokens, Known, Unused
  <2>2. Known(mem)' /\ Unused(mem)'
    <3>1. Known(OnDisk) /\ Unused(OnDisk) /\ issued' = issued
      BY <1>1, <1>2 DEF Tokens
    <3>2. mem'.devices = OnDisk.devices /\ mem'.tokens = OnDisk.tokens
      BY <1>5
    <3> QED
      BY <3>1, <3>2 DEF Known, Unused
  <2>3. SnapTokens'
    BY <1>1, <1>2, <1>3 DEF Tokens, SnapTokens, SnapKnown, Unused
  <2> QED
    BY <2>1, <2>2, <2>3 DEF Tokens, SnapTokens
<1>8. Uploads'
  <2>1. FromUpload(OnDisk)' /\ (\A p \in Saver : FromUpload(snap[p]))'
    BY <1>1, <1>2, <1>4 DEF Uploads, FromUpload
  <2> HIDE DEF gone
  <2>2. FromUpload(mem)'
    BY <1>1, <1>2, <1>5 DEF Uploads, FromUpload
  <2> QED BY <2>1, <2>2 DEF Uploads
<1>9. ReferencesAreLive'
  <2>1. /\ \A d \in Device : OnDisk.blobIdx[d] \in BlobId \cup {None}
        /\ \A d, s \in Device : OnDisk.inbox[d][s] \in BlobId \cup {None}
    BY <1>1 DEF State, IdxMap, InboxMap
  <2>2. \A id \in BlobId \ gone : OnDisk.blobs[id] # None
    BY DEF LiveIds
  <2>3. None \notin gone
    BY RelayAssumption
  <2> HIDE DEF gone
  <2>4. ASSUME NEW id \in BlobId \ gone PROVE mem'.blobs[id] # None
    BY <1>5, <2>2
  <2> QED
    BY <1>5, <2>1, <2>3, <2>4 DEF ReferencesAreLive
<1>10. Down' /\ Cleans' /\ DoomedExpired' /\ Alone'
  BY <1>1, <1>2, <1>3 DEF Down, Cleans, DoomedExpired, Alone, cleaning
<1>11. Done'
  <2>1. ASSUME NEW f \in Fact, HoldsAt(f, OnDisk, now) PROVE HoldsAt(f, mem', now')
    <3>1. f[1] = "blob" /\ OnDisk.blobs[f[2]] = f[3] =>
            mem'.blobs[f[2]] = f[3] \/ MayGo(f[3], now)
      <4> SUFFICES ASSUME f[1] = "blob", OnDisk.blobs[f[2]] = f[3]
                   PROVE  mem'.blobs[f[2]] = f[3] \/ MayGo(f[3], now)
        OBVIOUS
      <4>1. f[2] \in BlobId /\ f[3] \in Blob /\ f[3] # None
        BY FactIs, RelayAssumption
      <4>2. CASE f[2] \in gone
        <5>1. Expired(f[3], now)
          BY <4>1, <4>2 DEF LiveIds
        <5> QED BY <1>4, <4>1, <5>1, ExpiredMayGo
      <4>3. CASE f[2] \notin gone
        <5> HIDE DEF gone
        <5> QED BY <1>5, <4>1, <4>3
      <4> QED BY <4>2, <4>3
    <3> HIDE DEF gone
    <3>2. /\ \A d \in Device : OnDisk.devices[d] # None => mem'.devices[d] = OnDisk.devices[d]
          /\ \A d \in Device : OnDisk.peers[d] \subseteq mem'.peers[d]
      BY <1>5
    <3>3. HoldsAt(f, mem', now)
      BY <1>1, <1>4, <1>5, <2>1, <3>1, <3>2, HoldsStays
    <3> QED
      BY <1>2, <3>3
  <2> HIDE DEF gone
  <2>2. DoneInMemory'
    BY <1>1, <1>2, <1>3, <2>1 DEF Done, DoneInMemory, DoneOnDisk, TypeOK
  <2>3. DoneOnDisk' /\ DevicesOnDisk'
    BY <1>1, <1>2, <1>3, <1>4, <1>5 DEF Done, DoneOnDisk, DevicesOnDisk
  <2>4. DoneIsSent' /\ PutsAlone' /\ Registering'
    BY <1>1, <1>2, <1>3 DEF Done, DoneIsSent, PutsAlone, Putting, Registering
  <2> QED
    BY <2>2, <2>3, <2>4 DEF Done
<1> QED
  BY <1>6, <1>7, <1>8, <1>9, <1>10, <1>11 DEF IInv

LEMMA TickInv ==
  ASSUME IInv, Tick
  PROVE  IInv'
<1>1. TypeOK /\ Tokens /\ Uploads /\ Alone /\ Done /\ Down /\ Cleans /\ ReferencesAreLive
  BY DEF IInv
<1>2. /\ now < MaxTime /\ now' = now + 1
      /\ UNCHANGED <<up, crashes, failures, mem, disk, mu, saving, snap, job, cleaning,
                     issued, sent, acked, shared, behind>>
  BY DEF Tick
<1>3. OnDisk' = OnDisk /\ now \in Nat
  BY <1>1, <1>2, PersistenceAssumption DEF OnDisk, TypeOK
<1>4. TypeOK'
  <2>1. now' \in 0..MaxTime
    BY <1>1, <1>2, PersistenceAssumption DEF TypeOK
  <2>2. /\ UNCHANGED <<up, crashes, failures, mem, disk, mu, saving, snap, job, sweep>>
        /\ UNCHANGED <<doomed, victim, found, issued, sent, acked, shared, behind>>
    BY <1>2 DEF cleaning
  <2> QED
    BY <1>1, <2>1, <2>2 DEF TypeOK
<1>5. Tokens' /\ Uploads'
  BY <1>1, <1>2, <1>3
     DEF Tokens, SnapTokens, SnapKnown, Known, Unused, Uploads, FromUpload
<1>6. ReferencesAreLive'
  <2>1. ASSUME NEW id \in BlobId, Kept(id) PROVE Kept(id)'
    BY <1>1, <1>2, <2>1, KeptStays
  <2> QED BY <1>1, <1>2, <2>1, RefsStay
<1>7. DoomedExpired'
  <2>1. ASSUME NEW id \in doomed
        PROVE  sent[id] \in Blob /\ sent[id] # None /\ MayGo(sent[id], now)
    BY <1>1 DEF IInv, DoomedExpired, TypeOK, BlobMap
  <2>2. ASSUME NEW id \in doomed PROVE MayGo(sent[id], now')
    BY <1>2, <1>3, <2>1, MayGoLater
  <2> QED BY <1>2, <2>1, <2>2 DEF DoomedExpired, cleaning
<1>8. Down' /\ Cleans'
  BY <1>1, <1>2 DEF Down, Cleans, cleaning
<1>9. \A g \in Handler : Putting(g)' <=> Putting(g)
  BY <1>2 DEF Putting
<1>10. Alone'
  <2>1. \A id \in BlobId : BeingPut(id)' <=> BeingPut(id)
    BY <1>2, <1>9 DEF BeingPut
  <2> QED BY <1>1, <1>2, <2>1 DEF Alone
<1>11. Done'
  <2>1. ASSUME NEW f \in Fact
        PROVE  /\ HoldsAt(f, mem, now) => HoldsAt(f, mem', now')
               /\ HoldsAt(f, OnDisk, now) => HoldsAt(f, OnDisk', now')
    BY <1>2, <1>3, HoldsLater
  <2>2. DoneInMemory' /\ DoneOnDisk'
    BY <1>1, <1>2, <1>9, <2>1 DEF Done, DoneInMemory, DoneOnDisk, TypeOK
  <2>3. DoneIsSent' /\ PutsAlone' /\ Registering' /\ DevicesOnDisk'
    BY <1>1, <1>2, <1>3, <1>9 DEF Done, DoneIsSent, PutsAlone, Registering, DevicesOnDisk
  <2> QED
    BY <2>2, <2>3 DEF Done
<1> QED
  BY <1>4, <1>5, <1>6, <1>7, <1>8, <1>10, <1>11 DEF IInv

LEMMA StepInv ==
  ASSUME IInv, [Next]_vars
  PROVE  IInv'
<1>1. ASSUME NEW h \in Handler, NEW d \in Device,
             \/ Register(h, d) \/ RegisterAgain(h, d)
             \/ PutBlob(h, d)
             \/ \E e \in Device : AddPeer(h, d, e)
      PROVE  IInv'
  BY <1>1, RegisterInv, RegisterAgainInv, PutBlobInv, AddPeerInv
<1>2. ASSUME NEW h \in Handler, PutRef(h) \/ Reply(h) PROVE IInv'
  BY <1>2, PutRefInv, ReplyInv
<1>3. ASSUME NEW p \in Saver, Copy(p) \/ Marshal(p) \/ Rename(p) \/ WriteFails(p)
      PROVE  IInv'
  BY <1>3, CopyInv, MarshalInv, RenameInv, WriteFailsInv
<1>4. ASSUME \/ CleanBegins \/ CleanEnds \/ CompactScan
             \/ \E id \in BlobId : DropBlob(id)
             \/ FindRefs \/ DropRefs \/ CompactEnds
      PROVE  IInv'
  BY <1>4, CleanBeginsInv, CleanEndsInv, CompactScanInv, DropBlobInv, FindRefsInv,
     DropRefsInv, CompactEndsInv
<1>5. ASSUME Crash \/ Restart \/ Tick PROVE IInv'
  BY <1>5, CrashInv, RestartInv, TickInv
<1>6. CASE UNCHANGED vars
  <2>1. OnDisk' = OnDisk
    BY <1>6 DEF vars, OnDisk
  <2>2. TypeOK' /\ Down' /\ Cleans' /\ DoomedExpired' /\ ReferencesAreLive'
    BY <1>6 DEF IInv, vars, cleaning, TypeOK, Down, Cleans, DoomedExpired, ReferencesAreLive
  <2>3. Tokens' /\ Uploads'
    BY <1>6, <2>1 DEF IInv, vars, Tokens, SnapTokens, SnapKnown, Known, Unused, Uploads,
       FromUpload
  <2>4. /\ \A g \in Handler : Putting(g)' <=> Putting(g)
        /\ \A id \in BlobId : BeingPut(id)' <=> BeingPut(id)
    BY <1>6 DEF vars, Putting, BeingPut
  <2>5. Alone'
    BY <1>6, <2>4 DEF IInv, vars, Alone
  <2>6. Done'
    BY <1>6, <2>1, <2>4 DEF IInv, vars, Done, DoneInMemory, DoneIsSent, PutsAlone,
       Registering, DoneOnDisk, DevicesOnDisk
  <2> QED
    BY <2>2, <2>3, <2>5, <2>6 DEF IInv
<1> QED
  BY <1>1, <1>2, <1>3, <1>4, <1>5, <1>6 DEF Next

LEMMA Invariant == Spec => []IInv
<1>1. Init => IInv
  BY InitInv
<1>2. IInv /\ [Next]_vars => IInv'
  BY StepInv
<1> QED
  BY <1>1, <1>2, PTL DEF Spec

-----------------------------------------------------------------------------
\* RelayPersistence's state stays well typed, through crashes, failed writes and Load.
THEOREM PersistenceTyped == Spec => []TypeOK
<1>1. IInv => TypeOK
  BY DEF IInv
<1> QED
  BY <1>1, Invariant, PTL

\* After a restart too, a device that handleRegister knows has a token that authenticate
\* accepts, although Save marshals Devices and Tokens at different moments.
THEOREM KnownDevicesAuthenticate == Spec => []KnownDevicesCanAuthenticate
<1>1. IInv => KnownDevicesCanAuthenticate
  BY DEF IInv, Tokens, Known, KnownDevicesCanAuthenticate
<1> QED
  BY <1>1, Invariant, PTL

\* In the running server, whatever Compact does beside a handler, and in what Load makes
\* of a file whose maps are of different moments, an inbox entry and an index entry refer
\* to a blob that exists, or to one whose TTL is over or does not fit into a Duration.
THEOREM NoDanglingReferences == Spec => []ReferencesAreLive
<1>1. IInv => ReferencesAreLive
  BY DEF IInv
<1> QED
  BY <1>1, Invariant, PTL

\* Unless a write failed or two Saves overlapped, and no Save has run alone since, what
\* handlers answered is in state.json.
THEOREM DurableWhenAlone == Spec => []DurableUnlessBehind
<1>1. IInv => DurableUnlessBehind
  <2> SUFFICES ASSUME IInv, ~behind, NEW f \in acked PROVE Holds(f, OnDisk)
    BY DEF DurableUnlessBehind, AckedIsDurable
  <2> QED
    BY HoldsIs DEF IInv, TypeOK, Done, DoneOnDisk
<1> QED
  BY <1>1, Invariant, PTL
=============================================================================
