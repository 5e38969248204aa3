------------------------------- MODULE WatchHub -------------------------------
(***************************************************************************)
(* The daemon's hub of WebSocket watchers (internal/server/watcher.go).    *)
(*                                                                         *)
(* A watcher has a buffered channel and two goroutines: ReadPump only      *)
(* finds out that the connection has ended and then unsubscribes, in two   *)
(* steps of which one is under the hub's mutex; WritePump sends what is in *)
(* the channel.  Notify, called by the handlers of GET /clipboard and by   *)
(* the clipboard watcher, holds the mutex and never blocks: it drops a     *)
(* notification for a watcher whose channel is full.  What the mutex       *)
(* protects is one step.  A client that reconnects is another Client.      *)
(***************************************************************************)
EXTENDS Naturals, Sequences, Functions

CONSTANTS
  Client,      \* WebSocket connections
  QueueCap,    \* capacity of a watcher's channel
  MaxNews      \* bound on the notifications sent

ASSUME HubAssumption ==
  /\ QueueCap \in Nat \ {0}
  /\ MaxNews \in Nat

VARIABLES
  news,         \* notifications sent so far; each is its number
  subscribers,  \* h.subscribers
  send,         \* per client: what its channel holds
  closed,       \* clients whose channel is closed
  conn,         \* per client: its connection
  reader,       \* per client: where ReadPump is
  writer,       \* per client: where WritePump is
  hand,         \* per client: what WritePump is writing, as a sequence
  since,        \* history: the last notification before it subscribed
  received,     \* history: what the client has received
  panicked      \* a goroutine has sent on a closed channel

pumps == <<reader, writer, hand>>
vars  == <<news, subscribers, send, closed, conn, pumps, since, received, panicked>>

TypeOK ==
  /\ news \in 0..MaxNews
  /\ subscribers \subseteq Client
  /\ send \in [Client -> Seq(1..MaxNews)]
  /\ \A c \in Client : Len(send[c]) <= QueueCap
  /\ closed \subseteq Client
  /\ conn \in [Client -> {"none", "open", "broken"}]
  /\ reader \in [Client -> {"none", "reading", "unsubscribing", "ended"}]
  /\ writer \in [Client -> {"none", "waiting", "writing", "ended"}]
  /\ hand \in [Client -> Seq(1..MaxNews)]
  /\ since \in [Client -> 0..MaxNews]
  /\ received \in [Client -> Seq(1..MaxNews)]
  /\ panicked \in BOOLEAN

Init ==
  /\ news = 0
  /\ subscribers = {}
  /\ send = [c \in Client |-> <<>>]
  /\ closed = {}
  /\ conn = [c \in Client |-> "none"]
  /\ reader = [c \in Client |-> "none"]
  /\ writer = [c \in Client |-> "none"]
  /\ hand = [c \in Client |-> <<>>]
  /\ since = [c \in Client |-> 0]
  /\ received = [c \in Client |-> <<>>]
  /\ panicked = FALSE

-----------------------------------------------------------------------------
\* handleWatch: accept, Subscribe, start the pumps.  The client may already be
\* gone again when it is subscribed.
Subscribe(c) ==
  /\ conn[c] = "none"
  /\ \E state \in {"open", "broken"} : conn' = [conn EXCEPT ![c] = state]
  /\ subscribers' = subscribers \cup {c}
  /\ reader' = [reader EXCEPT ![c] = "reading"]
  /\ writer' = [writer EXCEPT ![c] = "waiting"]
  /\ since' = [since EXCEPT ![c] = news]
  /\ UNCHANGED <<news, send, closed, hand, received, panicked>>

\* Mistaken variants: the newest notification goes first, one slot of the channel
\* is never used, and there is one too many.
EnqueueFirst(queue, n) == IF Len(queue) < QueueCap THEN <<n>> \o queue ELSE queue

EnqueueEarly(queue, n) == IF Len(queue) + 1 < QueueCap THEN Append(queue, n) ELSE queue

EnqueueLate(queue, n) == IF Len(queue) <= QueueCap THEN Append(queue, n) ELSE queue

\* The select with a default.
Enqueue(queue, n) == IF Len(queue) < QueueCap THEN Append(queue, n) ELSE queue

\* Notify.  A send on a closed channel panics, also in a select.
Notify ==
  /\ news < MaxNews
  /\ news' = news + 1
  /\ panicked' = (panicked \/ subscribers \cap closed # {})
  /\ send' = [c \in Client |-> IF c \in subscribers \ closed THEN Enqueue(send[c], news')
                               ELSE send[c]]
  /\ UNCHANGED <<subscribers, closed, conn, pumps, since, received>>

\* The client closes the connection, or it is lost.
Disconnect(c) ==
  /\ conn[c] = "open"
  /\ conn' = [conn EXCEPT ![c] = "broken"]
  /\ UNCHANGED <<news, subscribers, send, closed, pumps, since, received, panicked>>

-----------------------------------------------------------------------------
\* A mistaken variant: the channel is closed while the watcher is still there.
ReadFailsClosing(c) ==
  /\ reader[c] = "reading"
  /\ conn[c] = "broken"
  /\ closed' = closed \cup {c}
  /\ reader' = [reader EXCEPT ![c] = "unsubscribing"]
  /\ UNCHANGED <<news, send, subscribers, conn, writer, hand, since, received, panicked>>

\* ReadPump: Read fails, Unsubscribe deletes the watcher under the mutex ...
ReadFails(c) ==
  /\ reader[c] = "reading"
  /\ conn[c] = "broken"
  /\ subscribers' = subscribers \ {c}
  /\ reader' = [reader EXCEPT ![c] = "unsubscribing"]
  /\ UNCHANGED <<news, send, closed, conn, writer, hand, since, received, panicked>>

\* A mistaken variant: the channel is left open.
CloseSendNever(c) ==
  /\ reader[c] = "unsubscribing"
  /\ reader' = [reader EXCEPT ![c] = "ended"]
  /\ UNCHANGED <<news, subscribers, send, closed, conn, writer, hand, since, received, panicked>>

\* ... and closes its channel without it.  CloseNow finds the connection broken.
CloseSend(c) ==
  /\ reader[c] = "unsubscribing"
  /\ closed' = closed \cup {c}
  /\ reader' = [reader EXCEPT ![c] = "ended"]
  /\ UNCHANGED <<news, subscribers, send, conn, writer, hand, since, received, panicked>>

-----------------------------------------------------------------------------
\* WritePump: the next message, ...
Receive(c) ==
  /\ writer[c] = "waiting"
  /\ send[c] # <<>>
  /\ send' = [send EXCEPT ![c] = Tail(send[c])]
  /\ hand' = [hand EXCEPT ![c] = <<Head(send[c])>>]
  /\ writer' = [writer EXCEPT ![c] = "writing"]
  /\ UNCHANGED <<news, subscribers, closed, conn, reader, since, received, panicked>>

\* ... which the client reads in time ...
WriteDone(c) ==
  /\ writer[c] = "writing"
  /\ conn[c] = "open"
  /\ received' = [received EXCEPT ![c] = @ \o hand[c]]
  /\ hand' = [hand EXCEPT ![c] = <<>>]
  /\ writer' = [writer EXCEPT ![c] = "waiting"]
  /\ UNCHANGED <<news, subscribers, send, closed, conn, reader, since, panicked>>

\* A mistaken variant: the pump goes on after a failed write.
WriteFailsGoesOn(c) ==
  /\ writer[c] = "writing"
  /\ writer' = [writer EXCEPT ![c] = "waiting"]
  /\ hand' = [hand EXCEPT ![c] = <<>>]
  /\ UNCHANGED <<news, subscribers, send, closed, conn, reader, since, received, panicked>>

\* ... or not within five seconds, or never: the pump ends with CloseNow, ...
WriteFails(c) ==
  /\ writer[c] = "writing"
  /\ writer' = [writer EXCEPT ![c] = "ended"]
  /\ conn' = [conn EXCEPT ![c] = "broken"]
  /\ hand' = [hand EXCEPT ![c] = <<>>]
  /\ UNCHANGED <<news, subscribers, send, closed, reader, since, received, panicked>>

\* ... as it does once the channel is closed and drained.
WriterEnds(c) ==
  /\ writer[c] = "waiting"
  /\ send[c] = <<>>
  /\ c \in closed
  /\ writer' = [writer EXCEPT ![c] = "ended"]
  /\ conn' = [conn EXCEPT ![c] = "broken"]
  /\ UNCHANGED <<news, subscribers, send, closed, reader, hand, since, received, panicked>>

-----------------------------------------------------------------------------
Reading(c) == ReadFails(c) \/ CloseSend(c)
Writing(c) == Receive(c) \/ WriteDone(c) \/ WriteFails(c) \/ WriterEnds(c)

Next ==
  \/ Notify
  \/ \E c \in Client : Subscribe(c) \/ Disconnect(c) \/ Reading(c) \/ Writing(c)

Spec == Init /\ [][Next]_vars

\* The pumps are goroutines; a write has a timeout.  Nobody has to subscribe,
\* to notify or to disconnect.
Fairness == \A c \in Client : WF_vars(Reading(c)) /\ WF_vars(Writing(c))

FairSpec == Spec /\ Fairness

-----------------------------------------------------------------------------
\* What a client has received, is being sent and has waiting for it.
Stream(c) == received[c] \o hand[c] \o send[c]

\* Notify never sends on a closed channel although it is closed without the
\* hub's mutex: a watcher is deleted before.
NoSendOnClosed == ~panicked /\ subscribers \cap closed = {}

\* A client receives notifications in the order they were sent, none twice, and
\* none from before it subscribed.
ReceivedInOrder ==
  \A c \in Client :
    /\ \A i, j \in DOMAIN Stream(c) : i < j => Stream(c)[i] < Stream(c)[j]
    /\ \A i \in DOMAIN Stream(c) : since[c] < Stream(c)[i]

\* A watcher loses nothing until its channel has been full: the first QueueCap
\* notifications after it subscribed are all in its stream, and a later gap has
\* at least that many before it.
GapsOnlyWhenFull ==
  \A c \in subscribers :
    LET s    == <<since[c]>> \o Stream(c)
        last == s[Len(s)]
    IN  writer[c] # "ended" =>
          /\ \A i \in 1..(Len(s) - 1) : s[i + 1] # s[i] + 1 => i > QueueCap
          /\ last # news => Len(s) > QueueCap

\* When a connection has ended, by the client, by a failed write or by a write
\* that took too long, the watcher is removed and both its goroutines end.
BrokenAreRemoved ==
  \A c \in Client :
    conn[c] = "broken" ~> c \notin subscribers /\ reader[c] = "ended" /\ writer[c] = "ended"

\* What is in a watcher's channel is received, unless the connection breaks.
QueuedIsReceived ==
  \A c \in Client, n \in 1..MaxNews :
    n \in Range(send[c]) ~> (n \in Range(received[c]) \/ conn[c] = "broken")
=============================================================================
