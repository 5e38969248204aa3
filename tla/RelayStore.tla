------------------------------ MODULE RelayStore ------------------------------
(***************************************************************************)
(* The data of the relay server (internal/relay/store.go, types.go) and    *)
(* the pure operators its handlers, its cleanup goroutine and its loader   *)
(* apply to the maps.  A Go map from K to V is a total function on K whose *)
(* value is None where the map has no entry; the one place where a missing *)
(* map differs from an empty one, Inbox[receiver], is kept by the modules  *)
(* that need it.  A blob keeps what the server itself looks at: who sent   *)
(* it, the timestamp the sender claims and its TTL.  The ciphertext stands *)
(* behind the blob's ID.                                                   *)
(***************************************************************************)
EXTENDS Integers, FiniteSets

CONSTANTS
  Device,      \* device IDs
  BlobId,      \* what generateBlobID can return
  Timestamp,   \* timestamps a client may put in an upload (seconds)
  TTL,         \* times to live a client may ask for (0: none)
  MaxInbox,    \* maxInboxPerDevice
  Second,      \* time.Second, in nanoseconds
  MaxDuration, \* the largest time.Duration, an int64 of nanoseconds
  None         \* no entry in a map

Blob == [sender : Device, timestamp : Timestamp, ttl : TTL]

ASSUME RelayAssumption ==
  /\ Timestamp \subseteq Nat
  /\ TTL \subseteq Nat
  /\ MaxInbox \in Nat \ {0}
  /\ Second \in Nat \ {0}
  /\ MaxDuration \in Nat
  /\ IsFiniteSet(Device)
  /\ None \notin Device \cup BlobId \cup Blob

BlobMap  == [BlobId -> Blob \cup {None}]
IdxMap   == [Device -> BlobId \cup {None}]
InboxMap == [Device -> IdxMap]         \* receiver -> sender -> blob ID

-----------------------------------------------------------------------------
\* time.Duration(ttl) * time.Second wraps around.
Duration(ttl) ==
  ((ttl * Second + MaxDuration + 1) % (2 * (MaxDuration + 1))) - (MaxDuration + 1)

\* t.Sub(u) stops at the largest and at the smallest duration.
Elapsed(t, u) ==
  LET d == (t - u) * Second
  IN  IF d > MaxDuration THEN MaxDuration
      ELSE IF d < -(MaxDuration + 1) THEN -(MaxDuration + 1) ELSE d

\* The test of cleanupExpiredBlobs, Compact and Load: TTL > 0 and older than it.
Expired(blob, now) == blob.ttl > 0 /\ Elapsed(now, blob.timestamp) > Duration(blob.ttl)

\* What it stands for, and the uploads for which it may be true before that:
\* nobody checks that a client's TTL fits into a Duration.
Outlived(blob, now) == blob.ttl > 0 /\ now > blob.timestamp + blob.ttl
Overflows(blob)     == blob.ttl * Second > MaxDuration
MayGo(blob, now)    == Outlived(blob, now) \/ Overflows(blob)

LiveIds(blobs) == {id \in BlobId : blobs[id] # None}

\* Variants with a mistake in them (an early bound, no look at TTL > 0, TTL read
\* as minutes): what the properties below must notice.
ExpiredIdsEarly(blobs, now) ==
  {id \in LiveIds(blobs) : /\ blobs[id].ttl > 0
                           /\ Elapsed(now, blobs[id].timestamp) >= Duration(blobs[id].ttl)}

ExpiredIdsNoTTL(blobs, now) ==
  {id \in LiveIds(blobs) : Elapsed(now, blobs[id].timestamp) > Duration(blobs[id].ttl)}

ExpiredIdsMinutes(blobs, now) ==
  {id \in LiveIds(blobs) : blobs[id].ttl > 0 /\ now > blobs[id].timestamp + 60 * blobs[id].ttl}

ExpiredIds(blobs, now) == {id \in LiveIds(blobs) : Expired(blobs[id], now)}

\* What is left of each map when the blobs in ids are dropped with every
\* reference to them.
BlobsWithout(blobs, ids) ==
  [id \in BlobId |-> IF id \in ids THEN None ELSE blobs[id]]

RefsWithout(idx, ids) ==
  [d \in Device |-> IF idx[d] \in ids THEN None ELSE idx[d]]

InboxWithout(inbox, ids) == [r \in Device |-> RefsWithout(inbox[r], ids)]

\* The senders that have an entry in one receiver's inbox.
Senders(box) == {s \in Device : box[s] # None}

EmptyBox == [s \in Device |-> None]

\* The inboxes that can result from writing id into sender's slot of box: when
\* that makes more than MaxInbox entries, the entry of one other sender goes,
\* whichever the map iteration yields first; were there still too many, any
\* entry would.
Drop(box, s) == [box EXCEPT ![s] = None]

\* A variant that tolerates one entry too many.
CappedLate(box, victims) ==
  IF Cardinality(Senders(box)) > MaxInbox + 1 /\ victims # {}
  THEN {Drop(box, s) : s \in victims}
  ELSE {box}

Capped(box, victims) ==
  IF Cardinality(Senders(box)) > MaxInbox /\ victims # {}
  THEN {Drop(box, s) : s \in victims}
  ELSE {box}

\* A variant that may evict the entry it has just written.
PutResultsAny(box, sender, id) ==
  LET put == [box EXCEPT ![sender] = id] IN Capped(put, Senders(put))

PutResults(box, sender, id) ==
  LET put == [box EXCEPT ![sender] = id]
  IN  UNION {Capped(b, Senders(b)) : b \in Capped(put, Senders(put) \ {sender})}
=============================================================================
