--------------------------- MODULE RelayPersistence ---------------------------
(***************************************************************************)
(* The relay server with a state file: registration, uploads, pairing and  *)
(* clean-up, each followed by RelayStore.Save, with crashes and Load       *)
(* (internal/relay/store.go, cmd/relay-server/main.go).                    *)
(*                                                                         *)
(* Save copies the references of the six maps under the store's mutex and  *)
(* then marshals them with no lock, in the order of PersistentState's      *)
(* fields; what it writes is each map as it was when that field's turn     *)
(* came, then renamed over state.json.  An upload puts its blob and then   *)
(* the reference to it, both under s.mu.  The cleanup goroutine removes a  *)
(* blob, looks for the references to it and deletes these: first with s.mu *)
(* (cleanupExpiredBlobs), then again under the store's mutex only          *)
(* (Compact), beside the handlers.  RelayServer has what these leave out:  *)
(* the inner maps of Inbox, the handlers that read, and the panic.         *)
(***************************************************************************)
EXTENDS RelayStore, Sequences

CONSTANTS
  Token,        \* what generateToken can return
  Handler,      \* goroutines that serve requests
  Cleaner,      \* the cleanup goroutine
  MaxTime,      \* bound on now
  MaxCrashes,   \* bound on crashes
  MaxFailures   \* bound on failed writes of the state file

ASSUME PersistenceAssumption ==
  /\ Cleaner \notin Handler
  /\ None \notin Token \cup Handler \cup {Cleaner}
  /\ MaxTime \in Nat
  /\ MaxCrashes \in Nat
  /\ MaxFailures \in Nat

VARIABLES
  now, up, crashes, failures,
  mem,        \* the maps of the running server
  disk,       \* the contents of state.json, or None
  mu,         \* who holds s.mu from one step to the next, or None
  saving,     \* per saver: the field of Fields Save marshals next, -1 when it has
              \* yet to copy the maps, or 0
  snap,       \* per saver: what it has marshalled
  job,        \* per handler: what it will acknowledge
  sweep,      \* where the cleanup goroutine is; Compact holds the store's mutex
  doomed,     \* its toExpire or toDelete, what is left of it
  victim,     \* the ID it is at, or None
  found,      \* the references it has found and will delete, or None
  issued,     \* history: tokens generated so far
  sent,       \* history: the upload of each blob ID
  acked,      \* history: what clients were told has been done
  shared,     \* history: savers whose Save has overlapped another
  behind      \* history: the last Save to end failed or had overlapped another

Saver == Handler \cup {Cleaner}

cleaning == <<sweep, doomed, victim, found>>
vars == <<now, up, crashes, failures, mem, disk, mu, saving, snap, job, cleaning,
          issued, sent, acked, shared, behind>>

\* PersistentState, in the order its fields are marshalled.
FieldsTokensFirst == <<"tokens", "blobs", "devices", "peers", "inbox", "blobIdx">>  \* a mistake

Fields == <<"blobs", "devices", "peers", "inbox", "tokens", "blobIdx">>

State == [blobs   : BlobMap,
          devices : [Device -> Token \cup {None}],   \* registered: its token
          peers   : [Device -> SUBSET Device],
          inbox   : InboxMap,
          tokens  : [Token -> Device \cup {None}],
          blobIdx : IdxMap]

Empty == [blobs   |-> [id \in BlobId |-> None],
          devices |-> [d \in Device |-> None],
          peers   |-> [d \in Device |-> {}],
          inbox   |-> [r \in Device |-> EmptyBox],
          tokens  |-> [t \in Token |-> None],
          blobIdx |-> [d \in Device |-> None]]

\* What can be acknowledged: a device's token, a pair, an uploaded blob.
Fact == ({"device"} \X Device \X Token) \cup ({"peer"} \X Device \X Device)
          \cup ({"blob"} \X BlobId \X Blob)

ASSUME NoneAssumption == None \notin State \cup Fact

Found == [idx : SUBSET Device, slots : SUBSET (Device \X Device)]

ASSUME FoundAssumption == None \notin Found

\* The fact is true of a state; a blob need not outlive its TTL, nor be kept at all
\* if that does not fit into a Duration.
Holds(fact, st) ==
  CASE fact[1] = "device" -> st.devices[fact[2]] = fact[3]
    [] fact[1] = "peer"   -> fact[3] \in st.peers[fact[2]]
    [] fact[1] = "blob"   -> st.blobs[fact[2]] = fact[3] \/ MayGo(fact[3], now)

TypeOK ==
  /\ now \in 0..MaxTime /\ up \in BOOLEAN /\ crashes \in 0..MaxCrashes
  /\ failures \in 0..MaxFailures
  /\ mem \in State
  /\ disk \in State \cup {None}
  /\ mu \in Saver \cup {None}
  /\ saving \in [Saver -> -1..(Len(Fields) + 1)]
  /\ snap \in [Saver -> State]
  /\ job \in [Handler -> Fact \cup {None}]
  /\ sweep \in {"wait", "clean", "scan", "compact"}
  /\ doomed \subseteq BlobId
  /\ victim \in BlobId \cup {None}
  /\ found \in Found \cup {None}
  /\ issued \subseteq Token
  /\ sent \in BlobMap
  /\ acked \subseteq Fact
  /\ shared \subseteq Saver
  /\ behind \in BOOLEAN

Init ==
  /\ now = 0 /\ up = TRUE /\ crashes = 0 /\ failures = 0
  /\ mem = Empty
  /\ disk = None
  /\ mu = None
  /\ saving = [p \in Saver |-> 0]
  /\ snap = [p \in Saver |-> Empty]
  /\ job = [h \in Handler |-> None]
  /\ sweep = "wait" /\ doomed = {} /\ victim = None /\ found = None
  /\ issued = {}
  /\ sent = [id \in BlobId |-> None]
  /\ acked = {}
  /\ shared = {}
  /\ behind = FALSE

-----------------------------------------------------------------------------
\* Save.
StartSave(p) ==
  LET others == {q \in Saver \ {p} : saving[q] # 0}
  IN  /\ saving' = [saving EXCEPT ![p] = -1]
      /\ shared' = IF others = {} THEN shared ELSE shared \cup {p} \cup others

\* It waits for Compact, if that is under way.
Copy(p) ==
  /\ saving[p] = -1
  /\ sweep # "compact"
  /\ saving' = [saving EXCEPT ![p] = 1]
  /\ UNCHANGED <<now, up, crashes, failures, mem, disk, mu, snap, job, cleaning,
                 issued, sent, acked, shared, behind>>

Marshal(p) ==
  LET i == saving[p] IN
  /\ i \in 1..Len(Fields)
  /\ snap' = [snap EXCEPT ![p][Fields[i]] = mem[Fields[i]]]
  /\ saving' = [saving EXCEPT ![p] = i + 1]
  /\ UNCHANGED <<now, up, crashes, failures, mem, disk, mu, job, cleaning, issued,
                 sent, acked, shared, behind>>

\* Save returns.  A registration keeps s.mu until it has answered; if it has
\* nothing left to answer, it lets go here.
EndSave(p) ==
  /\ saving' = [saving EXCEPT ![p] = 0]
  /\ snap' = [snap EXCEPT ![p] = Empty]
  /\ shared' = shared \ {p}
  /\ mu' = IF mu = p /\ job[p] = None THEN None ELSE mu
  /\ UNCHANGED <<now, up, crashes, mem, job, cleaning, issued, sent, acked>>

\* writeAtomic: all of the new file or all of the old one.
Rename(p) ==
  /\ saving[p] = Len(Fields) + 1
  /\ disk' = snap[p]
  /\ behind' = (p \in shared)
  /\ EndSave(p)
  /\ UNCHANGED failures

\* An error of writeAtomic is logged; the request is answered as if it had not
\* happened.
WriteFails(p) ==
  /\ saving[p] = Len(Fields) + 1
  /\ failures < MaxFailures
  /\ failures' = failures + 1
  /\ behind' = TRUE
  /\ EndSave(p)
  /\ UNCHANGED disk

-----------------------------------------------------------------------------
Idle(h) == up /\ saving[h] = 0 /\ job[h] = None

\* A handler's critical section changes mem, is over, and Save follows.
Change(h, fact, st) ==
  /\ Idle(h)
  /\ mu = None
  /\ mem' = st
  /\ job' = [job EXCEPT ![h] = fact]
  /\ StartSave(h)
  /\ UNCHANGED <<now, up, crashes, failures, disk, snap, cleaning, behind>>

Authenticated(d) == \E t \in Token : mem.tokens[t] = d

RegisterTokenToItself(h, d) ==   \* a mistaken variant: Tokens[token] = token
  \E t \in Token \ issued :
    /\ mem.devices[d] = None
    /\ Change(h, <<"device", d, t>>,
              [mem EXCEPT !.devices[d] = t, !.tokens[t] = t])
    /\ issued' = issued \cup {t}
    /\ mu' = h
    /\ UNCHANGED <<sent, acked>>

\* handleRegister, of a device that is not known: s.mu is held until the answer.
Register(h, d) ==
  \E t \in Token \ issued :
    /\ mem.devices[d] = None
    /\ Change(h, <<"device", d, t>>,
              [mem EXCEPT !.devices[d] = t, !.tokens[t] = d])
    /\ issued' = issued \cup {t}
    /\ mu' = h
    /\ UNCHANGED <<sent, acked>>

\* Of a known one: its token is answered first and Save comes after.
RegisterAgain(h, d) ==
  /\ mem.devices[d] # None
  /\ Change(h, None, mem)
  /\ acked' = acked \cup {<<"device", d, mem.devices[d]>>}
  /\ mu' = h
  /\ UNCHANGED <<issued, sent>>

\* handleUpload and handleUploadTo put the blob,
PutBlob(h, d) ==
  \E id \in {i \in BlobId : sent[i] = None}, ts \in Timestamp, ttl \in TTL :
    LET blob == [sender |-> d, timestamp |-> ts, ttl |-> ttl]
    IN  /\ Authenticated(d)
        /\ Idle(h)
        /\ mu = None
        /\ mu' = h
        /\ mem' = [mem EXCEPT !.blobs[id] = blob]
        /\ job' = [job EXCEPT ![h] = <<"blob", id, blob>>]
        /\ sent' = [sent EXCEPT ![id] = blob]
        /\ UNCHANGED <<now, up, crashes, failures, disk, saving, snap, cleaning, issued,
                       acked, shared, behind>>

Putting(h) == mu = h /\ job[h] # None /\ job[h][1] = "blob"

\* and then the reference to it: the sender's own, or in a receiver's inbox.
PutRef(h) ==
  LET id == job[h][2]
      d  == job[h][3].sender
  IN  /\ Putting(h)
      /\ \/ mem' = [mem EXCEPT !.blobIdx[d] = id]
         \/ \E r \in Device : \E box \in PutResults(mem.inbox[r], d, id) :
              mem' = [mem EXCEPT !.inbox[r] = box]
      /\ mu' = None
      /\ StartSave(h)
      /\ UNCHANGED <<now, up, crashes, failures, disk, snap, job, cleaning, issued, sent,
                     acked, behind>>

\* handlePeers, POST.  The list of a device is kept as a set.
AddPeer(h, d, e) ==
  /\ Authenticated(d)
  /\ mem.devices[e] # None
  /\ Change(h, <<"peer", d, e>>, [mem EXCEPT !.peers[d] = @ \cup {e}])
  /\ UNCHANGED <<mu, issued, sent, acked>>

ReplyBeforeSave(h) ==   \* a mistaken variant: the answer does not wait for Save
  /\ job[h] # None
  /\ ~Putting(h)
  /\ acked' = acked \cup {job[h]}
  /\ job' = [job EXCEPT ![h] = None]
  /\ UNCHANGED <<now, up, crashes, failures, mem, disk, mu, saving, snap, cleaning,
                 issued, sent, shared, behind>>

Reply(h) ==
  /\ saving[h] = 0
  /\ job[h] # None
  /\ ~Putting(h)
  /\ acked' = acked \cup {job[h]}
  /\ job' = [job EXCEPT ![h] = None]
  /\ mu' = IF mu = h THEN None ELSE mu
  /\ UNCHANGED <<now, up, crashes, failures, mem, disk, saving, snap, cleaning,
                 issued, sent, shared, behind>>

\* cleanupExpiredBlobs takes s.mu and lists the expired blobs.
CleanBegins ==
  /\ up
  /\ sweep = "wait"
  /\ saving[Cleaner] = 0
  /\ mu = None
  /\ mu' = Cleaner
  /\ sweep' = "clean"
  /\ doomed' = ExpiredIds(mem.blobs, now)
  /\ UNCHANGED <<now, up, crashes, failures, mem, disk, saving, snap, job, victim, found,
                 issued, sent, acked, shared, behind>>

CleanEnds ==
  /\ sweep = "clean"
  /\ doomed = {} /\ victim = None
  /\ mu' = None
  /\ sweep' = "scan"
  /\ UNCHANGED <<now, up, crashes, failures, mem, disk, saving, snap, job, doomed, victim,
                 found, issued, sent, acked, shared, behind>>

\* Compact takes the store's mutex, which no handler takes, and does so again.
CompactScan ==
  /\ sweep = "scan"
  /\ sweep' = "compact"
  /\ doomed' = ExpiredIds(mem.blobs, now)
  /\ UNCHANGED <<now, up, crashes, failures, mem, disk, mu, saving, snap, job, victim,
                 found, issued, sent, acked, shared, behind>>

\* Both drop one blob after another,
DropBlob(id) ==
  /\ id \in doomed
  /\ victim = None
  /\ doomed' = doomed \ {id}
  /\ victim' = id
  /\ mem' = [mem EXCEPT !.blobs = BlobsWithout(@, {id})]
  /\ UNCHANGED <<now, up, crashes, failures, disk, mu, saving, snap, job, sweep, found,
                 issued, sent, acked, shared, behind>>

\* find what refers to it, and every slot of an inbox that has nothing else in it
\* (the inner map a handler has just made may be among these),
FindRefs ==
  /\ victim # None
  /\ found = None
  /\ \E bare \in SUBSET {r \in Device : Senders(mem.inbox[r]) = {}} :
       /\ bare # {} => \E h \in Handler : Putting(h)
       /\ found' = [idx   |-> {d \in Device : mem.blobIdx[d] = victim},
                    slots |-> {x \in Device \X Device :
                                 \/ mem.inbox[x[1]][x[2]] = victim
                                 \/ x[1] \in bare
                                 \/ {mem.inbox[x[1]][s] : s \in Senders(mem.inbox[x[1]])} = {victim}}]
  /\ UNCHANGED <<now, up, crashes, failures, mem, disk, mu, saving, snap, job, sweep,
                 doomed, victim, issued, sent, acked, shared, behind>>

\* and delete that, whatever is there now.
DropRefs ==
  /\ found # None
  /\ mem' = [mem EXCEPT
       !.blobIdx = [d \in Device |-> IF d \in found.idx THEN None ELSE mem.blobIdx[d]],
       !.inbox = [r \in Device |-> [s \in Device |->
                    IF <<r, s>> \in found.slots THEN None ELSE mem.inbox[r][s]]]]
  /\ victim' = None
  /\ found' = None
  /\ UNCHANGED <<now, up, crashes, failures, disk, mu, saving, snap, job, sweep, doomed,
                 issued, sent, acked, shared, behind>>

\* Compact unlocks, and saves.
CompactEnds ==
  /\ sweep = "compact"
  /\ doomed = {} /\ victim = None
  /\ sweep' = "wait"
  /\ StartSave(Cleaner)
  /\ UNCHANGED <<now, up, crashes, failures, mem, disk, mu, snap, job, doomed, victim,
                 found, issued, sent, acked, behind>>

-----------------------------------------------------------------------------
Without(st, ids) ==
  [st EXCEPT !.blobs = BlobsWithout(@, ids), !.blobIdx = RefsWithout(@, ids),
             !.inbox = InboxWithout(@, ids)]

\* Load drops expired blobs and the references to blobs it does not find.
LoadUnpruned(st) ==   \* a mistaken variant: references are taken as they are
  [st EXCEPT !.blobs = BlobsWithout(@, ExpiredIds(@, now))]

Load(st) ==
  LET live == {id \in LiveIds(st.blobs) : ~Expired(st.blobs[id], now)}
  IN  Without(st, BlobId \ live)

OnDisk == IF disk = None THEN Empty ELSE disk

\* The process dies, or the runtime stops it: maps are being iterated while
\* others write to them.  What clients were told and is not on disk is gone.
Crash ==
  /\ up
  /\ crashes < MaxCrashes
  /\ crashes' = crashes + 1
  /\ up' = FALSE
  /\ mem' = Empty
  /\ mu' = None
  /\ saving' = [p \in Saver |-> 0]
  /\ snap' = [p \in Saver |-> Empty]
  /\ job' = [h \in Handler |-> None]
  /\ sweep' = "wait" /\ doomed' = {} /\ victim' = None /\ found' = None
  /\ shared' = {}
  /\ behind' = FALSE
  /\ acked' = {f \in acked : Holds(f, OnDisk)}
  /\ UNCHANGED <<now, failures, disk, issued, sent>>

Restart ==
  /\ ~up
  /\ up' = TRUE
  /\ mem' = Load(OnDisk)
  /\ UNCHANGED <<now, crashes, failures, disk, mu, saving, snap, job, cleaning, issued,
                 sent, acked, shared, behind>>

Tick ==
  /\ now < MaxTime
  /\ now' = now + 1
  /\ UNCHANGED <<up, crashes, failures, mem, disk, mu, saving, snap, job, cleaning,
                 issued, sent, acked, shared, behind>>

Next ==
  \/ \E h \in Handler, d \in Device :
       \/ Register(h, d) \/ RegisterAgain(h, d)
       \/ PutBlob(h, d)
       \/ \E e \in Device : AddPeer(h, d, e)
  \/ \E h \in Handler : PutRef(h) \/ Reply(h)
  \/ \E p \in Saver : Copy(p) \/ Marshal(p) \/ Rename(p) \/ WriteFails(p)
  \/ CleanBegins \/ CleanEnds \/ CompactScan
  \/ \E id \in BlobId : DropBlob(id)
  \/ FindRefs \/ DropRefs \/ CompactEnds
  \/ Crash \/ Restart \/ Tick

Spec == Init /\ [][Next]_vars

-----------------------------------------------------------------------------
\* A device the server knows can authenticate: its token is in Tokens - also
\* after a restart from a file whose maps are of different moments.  Otherwise
\* handleRegister would for ever hand out a token no handler accepts.
KnownDevicesCanAuthenticate ==
  \A d \in Device : mem.devices[d] # None => mem.tokens[mem.devices[d]] = d

\* What an inbox or the index refers to exists, in the running server and in what
\* Load makes of such a file, unless it is the blob of an upload whose TTL is over or
\* does not fit into a Duration: Compact may take that before its reference is put.
ReferencesAreLive ==
  LET Live(id) == mem.blobs[id] # None \/ (sent[id] # None /\ MayGo(sent[id], now))
  IN  \A d \in Device :
        /\ mem.blobIdx[d] # None => Live(mem.blobIdx[d])
        /\ \A s \in Device : mem.inbox[d][s] # None => Live(mem.inbox[d][s])

\* What a client was told has been done survives a crash: "atomic writes for
\* durability" (store.go:21).
AckedIsDurable == \A f \in acked : Holds(f, OnDisk)

\* It does unless a write failed or two Saves overlapped, and until then a Save
\* has run alone again.
DurableUnlessBehind == ~behind => AckedIsDurable
=============================================================================
