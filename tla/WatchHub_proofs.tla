---------------------------- MODULE WatchHub_proofs ----------------------------
(***************************************************************************)
(* Proofs about WatchHub, for any clients, any capacity and any number of  *)
(* notifications.  What a client has received, is being sent and has       *)
(* waiting is one sequence, Stream, and a step does one of four things to  *)
(* it: nothing, a new number at its end, the loss of what was being sent,  *)
(* or, in Subscribe, its beginning.                                        *)
(***************************************************************************)
EXTENDS WatchHub, SequenceTheorems, TLAPS

Number == 1..MaxNews

\* Where the goroutines of a client can be, and what that says of the rest.  A watcher
\* is a subscriber exactly while its ReadPump reads, and its channel is closed only
\* after that.
Stages ==
  \A c \in Client :
    /\ c \in subscribers <=> reader[c] = "reading"
    /\ c \in closed => reader[c] = "ended"
    /\ conn[c] = "none" =>
         /\ reader[c] = "none" /\ writer[c] = "none"
         /\ received[c] = <<>> /\ hand[c] = <<>> /\ send[c] = <<>>
    /\ writer[c] # "writing" => hand[c] = <<>>

Ordered(s, low, high) ==
  /\ \A i, j \in DOMAIN s : i < j => s[i] < s[j]
  /\ \A i \in DOMAIN s : low < s[i] /\ s[i] <= high

\* ReceivedInOrder, and nothing is received that has not been sent.
Orders ==
  \A c \in Client : since[c] <= news /\ Ordered(Stream(c), since[c], news)

\* GapsOnlyWhenFull of one client, without the number before its stream.
NoEarlyGap(s, low, high) ==
  /\ \A i \in 1..Len(s) :
       (IF i = 1 THEN low ELSE s[i - 1]) + 1 # s[i] => i > QueueCap
  /\ (IF s = <<>> THEN low ELSE s[Len(s)]) # high => Len(s) >= QueueCap

Gaps ==
  \A c \in subscribers : writer[c] # "ended" => NoEarlyGap(Stream(c), since[c], news)

IInv == TypeOK /\ Stages /\ ~panicked /\ Orders /\ Gaps

-----------------------------------------------------------------------------
(* Sequences. *)

\* A sequence is its head before its tail.
LEMMA HeadBeforeTail ==
  ASSUME NEW S, NEW s \in Seq(S), s # <<>>
  PROVE  s = <<Head(s)>> \o Tail(s)
<1>1. Head(s) \in S /\ Tail(s) \in Seq(S) /\ Len(Tail(s)) = Len(s) - 1
      /\ \A i \in 1..Len(Tail(s)) : Tail(s)[i] = s[i + 1]
  BY HeadTailProperties
<1>2. <<Head(s)>> \in Seq(S) /\ Len(<<Head(s)>>) = 1 /\ <<Head(s)>>[1] = Head(s)
  BY <1>1
<1>3. Head(s) = s[1] /\ Len(s) \in Nat \ {0}
  BY EmptySeq
<1> DEFINE t == <<Head(s)>> \o Tail(s)
<1>4. /\ t \in Seq(S) /\ Len(t) = Len(s)
      /\ \A i \in 1..Len(s) : t[i] = IF i <= 1 THEN <<Head(s)>>[i] ELSE Tail(s)[i - 1]
  BY <1>1, <1>2, <1>3, ConcatProperties
<1>5. \A i \in 1..Len(s) : s[i] = t[i]
  <2> SUFFICES ASSUME NEW i \in 1..Len(s)
               PROVE  s[i] = t[i]
    OBVIOUS
  <2>1. CASE i = 1
    BY <2>1, <1>2, <1>3, <1>4
  <2>2. CASE i # 1
    <3>1. i - 1 \in 1..Len(Tail(s)) /\ ~(i <= 1) /\ (i - 1) + 1 = i
      BY <2>2, <1>1, <1>3
    <3> HIDE DEF t
    <3> QED
      BY <3>1, <1>1, <1>4
  <2> QED
    BY <2>1, <2>2
<1> HIDE DEF t
<1> QED
  BY <1>4, <1>5, SeqEqual DEF t

\* Concatenation is associative.
LEMMA Regroup ==
  \A r, s, u \in Seq(Number) : (r \o s) \o u = r \o (s \o u)
OBVIOUS

\* The three parts of a stream.
LEMMA StreamParts ==
  ASSUME NEW r \in Seq(Number), NEW h \in Seq(Number), NEW s \in Seq(Number)
  PROVE  /\ r \o h \o s \in Seq(Number)
         /\ Len(r \o h \o s) = Len(r) + Len(h) + Len(s)
         /\ \A i \in 1..Len(r) : (r \o h \o s)[i] = r[i]
         /\ \A i \in 1..Len(s) : (r \o h \o s)[Len(r) + Len(h) + i] = s[i]
<1>1. /\ r \o h \in Seq(Number) /\ Len(r \o h) = Len(r) + Len(h)
      /\ \A i \in 1..Len(r) + Len(h) : (r \o h)[i] = IF i <= Len(r) THEN r[i] ELSE h[i - Len(r)]
  BY ConcatProperties
<1>2. /\ (r \o h) \o s \in Seq(Number) /\ Len((r \o h) \o s) = Len(r \o h) + Len(s)
      /\ \A i \in 1..Len(r \o h) + Len(s) :
           ((r \o h) \o s)[i] = IF i <= Len(r \o h) THEN (r \o h)[i] ELSE s[i - Len(r \o h)]
  BY <1>1, ConcatProperties
<1>3. Len(r) \in Nat /\ Len(h) \in Nat /\ Len(s) \in Nat
  BY LenProperties
<1>4. ASSUME NEW i \in 1..Len(r)
      PROVE  ((r \o h) \o s)[i] = r[i]
  <2>1. i \in 1..Len(r) + Len(h) /\ i \in 1..Len(r \o h) + Len(s) /\ i <= Len(r \o h) /\ i <= Len(r)
    BY <1>1, <1>3
  <2> QED
    BY <2>1, <1>1, <1>2
<1>5. ASSUME NEW i \in 1..Len(s)
      PROVE  ((r \o h) \o s)[Len(r) + Len(h) + i] = s[i]
  <2> DEFINE k == Len(r) + Len(h) + i
  <2>1. k \in 1..Len(r \o h) + Len(s) /\ ~(k <= Len(r \o h)) /\ k - Len(r \o h) = i
    BY <1>1, <1>3
  <2> HIDE DEF k
  <2>2. ((r \o h) \o s)[k] = s[k - Len(r \o h)]
    BY <2>1, <1>2
  <2> QED
    BY <2>1, <2>2 DEF k
<1> QED
  BY <1>1, <1>2, <1>4, <1>5

\* A number later than all that were sent comes after the others.
LEMMA OrderedAppend ==
  ASSUME NEW s \in Seq(Number), NEW low \in Nat, NEW high \in Nat, low <= high,
         high + 1 \in Number, Ordered(s, low, high)
  PROVE  Ordered(Append(s, high + 1), low, high + 1)
<1> DEFINE t == Append(s, high + 1)
<1>1. /\ t \in Seq(Number) /\ Len(t) = Len(s) + 1 /\ t[Len(s) + 1] = high + 1
      /\ \A i \in 1..Len(s) : t[i] = s[i]
  BY AppendProperties
<1>2. DOMAIN t = 1..Len(s) + 1 /\ DOMAIN s = 1..Len(s) /\ Len(s) \in Nat
  BY <1>1, LenProperties
<1>3. \A i \in 1..Len(s) : s[i] \in Number
  BY ElementOfSeq
<1> HIDE DEF t
<1>4. \A i, j \in DOMAIN t : i < j => t[i] < t[j]
  <2> SUFFICES ASSUME NEW i \in DOMAIN t, NEW j \in DOMAIN t, i < j
               PROVE  t[i] < t[j]
    OBVIOUS
  <2>1. i \in 1..Len(s) /\ t[i] = s[i] /\ s[i] \in Nat /\ s[i] <= high
    BY <1>1, <1>2, <1>3 DEF Ordered, Number
  <2>2. CASE j = Len(s) + 1
    BY <2>1, <2>2, <1>1
  <2>3. CASE j # Len(s) + 1
    <3>1. j \in 1..Len(s)
      BY <2>3, <1>2
    <3> QED
      BY <3>1, <2>1, <1>1, <1>2 DEF Ordered
  <2> QED
    BY <2>2, <2>3
<1>5. \A i \in DOMAIN t : low < t[i] /\ t[i] <= high + 1
  <2> SUFFICES ASSUME NEW i \in DOMAIN t
               PROVE  low < t[i] /\ t[i] <= high + 1
    OBVIOUS
  <2>1. CASE i = Len(s) + 1
    BY <2>1, <1>1
  <2>2. CASE i # Len(s) + 1
    <3>1. i \in 1..Len(s)
      BY <2>2, <1>2
    <3> QED
      BY <3>1, <1>1, <1>2, <1>3 DEF Ordered, Number
  <2> QED
    BY <2>1, <2>2
<1> QED
  BY <1>4, <1>5 DEF Ordered, t

\* What is lost from the middle leaves the others in their order.
LEMMA OrderedWithout ==
  ASSUME NEW r \in Seq(Number), NEW h \in Seq(Number), NEW s \in Seq(Number),
         NEW low, NEW high, Ordered(r \o h \o s, low, high)
  PROVE  Ordered(r \o <<>> \o s, low, high)
<1> DEFINE t == r \o h \o s
           u == r \o <<>> \o s
<1>0. <<>> \in Seq(Number) /\ Len(<<>>) = 0
  BY EmptySeq
<1>1. /\ t \in Seq(Number) /\ Len(t) = Len(r) + Len(h) + Len(s)
      /\ \A i \in 1..Len(r) : t[i] = r[i]
      /\ \A i \in 1..Len(s) : t[Len(r) + Len(h) + i] = s[i]
  BY StreamParts
<1>2. /\ u \in Seq(Number) /\ Len(u) = Len(r) + 0 + Len(s)
      /\ \A i \in 1..Len(r) : u[i] = r[i]
      /\ \A i \in 1..Len(s) : u[Len(r) + 0 + i] = s[i]
  BY <1>0, StreamParts
<1>3. /\ DOMAIN t = 1..Len(r) + Len(h) + Len(s) /\ DOMAIN u = 1..Len(r) + Len(s)
      /\ Len(r) \in Nat /\ Len(h) \in Nat /\ Len(s) \in Nat
  BY <1>1, <1>2, LenProperties
<1> HIDE DEF t, u
<1> DEFINE at(i) == IF i <= Len(r) THEN i ELSE i + Len(h)
<1>4. \A i \in DOMAIN u : at(i) \in DOMAIN t /\ u[i] = t[at(i)]
  <2> SUFFICES ASSUME NEW i \in DOMAIN u
               PROVE  at(i) \in DOMAIN t /\ u[i] = t[at(i)]
    OBVIOUS
  <2>1. CASE i <= Len(r)
    <3>1. i \in 1..Len(r) /\ at(i) = i /\ i \in DOMAIN t
      BY <2>1, <1>3
    <3> QED
      BY <3>1, <1>1, <1>2
  <2>2. CASE ~(i <= Len(r))
    <3>0. i \in 1..Len(r) + Len(s) /\ i \in Nat
      BY <1>3
    <3>1. /\ i - Len(r) \in 1..Len(s) /\ i + Len(h) \in DOMAIN t
          /\ Len(r) + 0 + (i - Len(r)) = i /\ Len(r) + Len(h) + (i - Len(r)) = i + Len(h)
      BY <3>0, <2>2, <1>3
    <3>2. at(i) = i + Len(h)
      BY <2>2
    <3> QED
      BY <3>1, <3>2, <1>1, <1>2
  <2> QED
    BY <2>1, <2>2
<1>5. \A i, j \in DOMAIN u : i < j => at(i) < at(j)
  BY <1>3
<1> HIDE DEF at
<1>6. \A i, j \in DOMAIN u : i < j => u[i] < u[j]
  BY <1>4, <1>5 DEF Ordered, t
<1>7. \A i \in DOMAIN u : low < u[i] /\ u[i] <= high
  BY <1>4 DEF Ordered, t
<1> QED
  BY <1>6, <1>7 DEF Ordered, u

\* A new number at the end leaves a gap only where one was allowed to begin.
LEMMA GapAppend ==
  ASSUME NEW s \in Seq(Number), NEW low, NEW high \in Nat, high + 1 \in Number,
         NoEarlyGap(s, low, high)
  PROVE  NoEarlyGap(Append(s, high + 1), low, high + 1)
<1> USE HubAssumption
<1> DEFINE t == Append(s, high + 1)
<1>1. /\ t \in Seq(Number) /\ Len(t) = Len(s) + 1 /\ t[Len(s) + 1] = high + 1 /\ t # <<>>
      /\ \A i \in 1..Len(s) : t[i] = s[i]
  BY AppendProperties
<1>2. Len(s) \in Nat /\ (s = <<>> <=> Len(s) = 0)
  BY EmptySeq, LenProperties
<1> HIDE DEF t
<1>3. ASSUME NEW i \in 1..Len(t), (IF i = 1 THEN low ELSE t[i - 1]) + 1 # t[i]
      PROVE  i > QueueCap
  <2>1. CASE i \in 1..Len(s)
    <3>1. t[i] = s[i] /\ (i # 1 => i - 1 \in 1..Len(s) /\ t[i - 1] = s[i - 1])
      BY <2>1, <1>1, <1>2
    <3>2. (IF i = 1 THEN low ELSE s[i - 1]) + 1 # s[i]
      BY <3>1, <1>3
    <3> QED
      BY <3>2, <2>1 DEF NoEarlyGap
  <2>2. CASE i = Len(s) + 1
    <3>1. (IF i = 1 THEN low ELSE t[i - 1]) = (IF s = <<>> THEN low ELSE s[Len(s)])
      <4>1. CASE s = <<>>
        BY <4>1, <2>2, <1>2
      <4>2. CASE s # <<>>
        <5>1. i # 1 /\ i - 1 = Len(s) /\ Len(s) \in 1..Len(s)
          BY <4>2, <2>2, <1>2
        <5> QED
          BY <5>1, <4>2, <1>1
      <4> QED
        BY <4>1, <4>2
    <3>2. (IF s = <<>> THEN low ELSE s[Len(s)]) # high
      BY <3>1, <1>3, <2>2, <1>1
    <3>3. Len(s) >= QueueCap
      BY <3>2 DEF NoEarlyGap
    <3> QED
      BY <3>3, <2>2, <1>2
  <2> QED
    BY <2>1, <2>2, <1>1, <1>2
<1>4. (IF t = <<>> THEN low ELSE t[Len(t)]) = high + 1
  BY <1>1
<1> QED
  BY <1>3, <1>4 DEF NoEarlyGap, t

-----------------------------------------------------------------------------
(* The steps. *)

LEMMA InitInv == Init => IInv
<1> SUFFICES ASSUME Init
             PROVE  IInv
  OBVIOUS
<1> USE HubAssumption
<1>0. <<>> \in Seq(Number) /\ Len(<<>>) = 0
  BY EmptySeq
<1>1. TypeOK
  <2>1. <<>> \in Seq(1..MaxNews) /\ Len(<<>>) <= QueueCap /\ 0 \in 0..MaxNews
    BY <1>0 DEF Number
  <2>2. /\ send \in [Client -> Seq(1..MaxNews)] /\ hand \in [Client -> Seq(1..MaxNews)]
        /\ received \in [Client -> Seq(1..MaxNews)] /\ \A c \in Client : Len(send[c]) <= QueueCap
    BY <2>1 DEF Init
  <2> QED
    BY <2>1, <2>2 DEF Init, TypeOK
<1>2. Stages
  BY DEF Init, Stages
<1>3. \A c \in Client : Stream(c) \in Seq(Number) /\ Len(Stream(c)) = 0
  <2> SUFFICES ASSUME NEW c \in Client
               PROVE  Stream(c) \in Seq(Number) /\ Len(Stream(c)) = 0
    OBVIOUS
  <2>1. received[c] = <<>> /\ hand[c] = <<>> /\ send[c] = <<>>
    BY DEF Init
  <2> QED
    BY <2>1, <1>0, StreamParts DEF Stream
<1>4. Orders
  <2> SUFFICES ASSUME NEW c \in Client
               PROVE  since[c] <= news /\ Ordered(Stream(c), since[c], news)
    BY DEF Orders
  <2>1. DOMAIN Stream(c) = {}
    BY <1>3, LenProperties
  <2>2. since[c] = 0 /\ news = 0
    BY DEF Init
  <2> QED
    BY <2>1, <2>2 DEF Ordered
<1>5. Gaps /\ ~panicked
  BY DEF Init, Gaps
<1> QED
  BY <1>1, <1>2, <1>4, <1>5 DEF IInv

\* What the types say of one client.
LEMMA Queues ==
  ASSUME TypeOK, NEW c \in Client
  PROVE  /\ received[c] \in Seq(Number) /\ hand[c] \in Seq(Number) /\ send[c] \in Seq(Number)
         /\ Stream(c) \in Seq(Number)
         /\ Len(Stream(c)) = Len(received[c]) + Len(hand[c]) + Len(send[c])
         /\ Len(send[c]) <= QueueCap
         /\ since[c] \in Nat /\ news \in Nat
<1>1. received[c] \in Seq(Number) /\ hand[c] \in Seq(Number) /\ send[c] \in Seq(Number)
  BY DEF TypeOK, Number
<1>2. Len(send[c]) <= QueueCap /\ since[c] \in Nat /\ news \in Nat
  BY HubAssumption DEF TypeOK
<1> QED
  BY <1>1, <1>2, StreamParts DEF Stream

\* A step that leaves the streams as they are.
LEMMA Quiet ==
  ASSUME IInv, TypeOK', Stages', UNCHANGED <<news, since, panicked>>,
         \A c \in Client : Stream(c)' = Stream(c),
         subscribers' \subseteq subscribers,
         \A c \in subscribers' : writer'[c] # "ended" => writer[c] # "ended"
  PROVE  IInv'
<1>1. Orders'
  <2> SUFFICES ASSUME NEW c \in Client
               PROVE  since'[c] <= news' /\ Ordered(Stream(c)', since'[c], news')
    BY DEF Orders
  <2>1. since[c] <= news /\ Ordered(Stream(c), since[c], news)
    BY DEF IInv, Orders
  <2>2. Stream(c)' = Stream(c)
    OBVIOUS
  <2> QED
    BY <2>1, <2>2
<1>2. Gaps'
  <2> SUFFICES ASSUME NEW c \in subscribers', writer'[c] # "ended"
               PROVE  NoEarlyGap(Stream(c)', since'[c], news')
    BY DEF Gaps
  <2>1. NoEarlyGap(Stream(c), since[c], news)
    BY DEF IInv, Gaps
  <2>2. Stream(c)' = Stream(c)
    BY DEF TypeOK
  <2> QED
    BY <2>1, <2>2
<1> QED
  BY <1>1, <1>2 DEF IInv

\* The goroutines of ReadPump and the client touch no stream.
LEMMA QuietStreams ==
  ASSUME UNCHANGED <<received, hand, send>>
  PROVE  \A c \in Client : Stream(c)' = Stream(c)
BY DEF Stream

LEMMA DisconnectKeeps ==
  ASSUME IInv, NEW c \in Client, Disconnect(c)
  PROVE  IInv'
<1>1. TypeOK'
  BY DEF IInv, TypeOK, Disconnect, pumps
<1>2. Stages'
  BY DEF IInv, TypeOK, Stages, Disconnect, pumps
<1>3. \A d \in Client : Stream(d)' = Stream(d)
  BY QuietStreams DEF Disconnect, pumps
<1> QED
  BY <1>1, <1>2, <1>3, Quiet DEF Disconnect, pumps

LEMMA ReadFailsKeeps ==
  ASSUME IInv, NEW c \in Client, ReadFails(c)
  PROVE  IInv'
<1>1. TypeOK'
  BY DEF IInv, TypeOK, ReadFails
<1>2. Stages'
  BY DEF IInv, TypeOK, Stages, ReadFails
<1>3. \A d \in Client : Stream(d)' = Stream(d)
  BY QuietStreams DEF ReadFails
<1> QED
  BY <1>1, <1>2, <1>3, Quiet DEF ReadFails

LEMMA CloseSendKeeps ==
  ASSUME IInv, NEW c \in Client, CloseSend(c)
  PROVE  IInv'
<1>1. TypeOK'
  BY DEF IInv, TypeOK, CloseSend
<1>2. Stages'
  BY DEF IInv, TypeOK, Stages, CloseSend
<1>3. \A d \in Client : Stream(d)' = Stream(d)
  BY QuietStreams DEF CloseSend
<1> QED
  BY <1>1, <1>2, <1>3, Quiet DEF CloseSend

LEMMA WriterEndsKeeps ==
  ASSUME IInv, NEW c \in Client, WriterEnds(c)
  PROVE  IInv'
<1>1. TypeOK'
  BY DEF IInv, TypeOK, WriterEnds
<1>2. Stages'
  BY DEF IInv, TypeOK, Stages, WriterEnds
<1>3. \A d \in Client : Stream(d)' = Stream(d)
  BY QuietStreams DEF WriterEnds
<1>4. \A d \in subscribers' : writer'[d] # "ended" => writer[d] # "ended"
  BY DEF IInv, TypeOK, WriterEnds
<1> QED
  BY <1>1, <1>2, <1>3, <1>4, Quiet DEF WriterEnds

\* From the channel to the pump's hand: the head of what waits was first already.
LEMMA ReceiveKeeps ==
  ASSUME IInv, NEW c \in Client, Receive(c)
  PROVE  IInv'
<1> DEFINE h == <<Head(send[c])>>
           s == Tail(send[c])
<1>1. /\ writer[c] = "waiting" /\ send[c] # <<>>
      /\ send' = [send EXCEPT ![c] = s] /\ hand' = [hand EXCEPT ![c] = h]
      /\ writer' = [writer EXCEPT ![c] = "writing"]
      /\ UNCHANGED <<news, subscribers, closed, conn, reader, since, received, panicked>>
  BY DEF Receive
<1>2. /\ received[c] \in Seq(Number) /\ hand[c] = <<>> /\ send[c] \in Seq(Number)
      /\ Len(send[c]) <= QueueCap
  BY <1>1, Queues DEF IInv, Stages
<1>3. h \in Seq(Number) /\ s \in Seq(Number) /\ Len(s) = Len(send[c]) - 1 /\ send[c] = h \o s
  BY <1>1, <1>2, HeadTailProperties, HeadBeforeTail
<1>4. Len(s) <= QueueCap
  BY <1>2, <1>3, LenProperties, HubAssumption
<1> HIDE DEF h, s
<1>5. TypeOK'
  BY <1>1, <1>3, <1>4 DEF IInv, TypeOK, Number
<1>6. Stages'
  BY <1>1 DEF IInv, TypeOK, Stages
<1>7. ASSUME NEW d \in Client
      PROVE  Stream(d)' = Stream(d)
  <2>1. CASE d # c
    BY <2>1, <1>1 DEF Stream, IInv, TypeOK
  <2>2. CASE d = c
    <3>1. Stream(c)' = (received[c] \o h) \o s
      BY <1>1 DEF Stream, IInv, TypeOK
    <3>2. Stream(c) = received[c] \o (h \o s)
      BY <1>2, <1>3, ConcatEmptySeq DEF Stream
    <3>3. (received[c] \o h) \o s = received[c] \o (h \o s)
      BY <1>2, <1>3, Regroup, Zenon
    <3> QED
      BY <2>2, <3>1, <3>2, <3>3
  <2> QED
    BY <2>1, <2>2
<1>8. \A d \in subscribers' : writer'[d] # "ended" => writer[d] # "ended"
  BY <1>1 DEF IInv, TypeOK
<1> QED
  BY <1>1, <1>5, <1>6, <1>7, <1>8, Quiet

\* From the pump's hand to the client.
LEMMA WriteDoneKeeps ==
  ASSUME IInv, NEW c \in Client, WriteDone(c)
  PROVE  IInv'
<1> DEFINE r == received[c] \o hand[c]
<1>1. /\ writer[c] = "writing"
      /\ received' = [received EXCEPT ![c] = r] /\ hand' = [hand EXCEPT ![c] = <<>>]
      /\ writer' = [writer EXCEPT ![c] = "waiting"]
      /\ UNCHANGED <<news, subscribers, send, closed, conn, reader, since, panicked>>
  BY DEF WriteDone
<1>2. received[c] \in Seq(Number) /\ hand[c] \in Seq(Number) /\ send[c] \in Seq(Number)
  BY Queues DEF IInv
<1>3. r \in Seq(Number) /\ r \o <<>> = r /\ <<>> \in Seq(Number)
  BY <1>2, ConcatProperties, ConcatEmptySeq, EmptySeq
<1> HIDE DEF r
<1>4. TypeOK'
  BY <1>1, <1>3 DEF IInv, TypeOK, Number
<1>5. Stages'
  BY <1>1, <1>3 DEF IInv, TypeOK, Stages, WriteDone
<1>6. ASSUME NEW d \in Client
      PROVE  Stream(d)' = Stream(d)
  <2>1. CASE d # c
    BY <2>1, <1>1 DEF Stream, IInv, TypeOK
  <2>2. CASE d = c
    <3>1. Stream(c)' = (r \o <<>>) \o send[c]
      BY <1>1 DEF Stream, IInv, TypeOK
    <3>2. Stream(c) = r \o send[c]
      BY DEF Stream, r
    <3> QED
      BY <2>2, <3>1, <3>2, <1>3
  <2> QED
    BY <2>1, <2>2
<1>7. \A d \in subscribers' : writer'[d] # "ended" => writer[d] # "ended"
  BY <1>1 DEF IInv, TypeOK
<1> QED
  BY <1>1, <1>4, <1>5, <1>6, <1>7, Quiet

\* A write that fails loses what the pump had in its hand, and ends the pump.
LEMMA WriteFailsKeeps ==
  ASSUME IInv, NEW c \in Client, WriteFails(c)
  PROVE  IInv'
<1>1. /\ writer[c] = "writing"
      /\ hand' = [hand EXCEPT ![c] = <<>>]
      /\ writer' = [writer EXCEPT ![c] = "ended"]
      /\ conn' = [conn EXCEPT ![c] = "broken"]
      /\ UNCHANGED <<news, subscribers, send, closed, reader, since, received, panicked>>
  BY DEF WriteFails
<1>2. <<>> \in Seq(Number)
  BY EmptySeq
<1>3. TypeOK'
  BY <1>1, <1>2 DEF IInv, TypeOK, Number
<1>4. Stages'
  BY <1>1 DEF IInv, TypeOK, Stages
<1>5. \A d \in Client \ {c} : Stream(d)' = Stream(d)
  BY <1>1 DEF Stream, IInv, TypeOK
<1>6. Orders'
  <2> SUFFICES ASSUME NEW d \in Client
               PROVE  since'[d] <= news' /\ Ordered(Stream(d)', since'[d], news')
    BY DEF Orders
  <2>1. since[d] <= news /\ Ordered(Stream(d), since[d], news)
    BY DEF IInv, Orders
  <2>2. CASE d # c
    <3>1. Stream(d)' = Stream(d)
      BY <2>2, <1>5
    <3> QED
      BY <2>1, <3>1, <1>1
  <2>3. CASE d = c
    <3>1. Stream(c)' = received[c] \o <<>> \o send[c]
      BY <1>1 DEF Stream, IInv, TypeOK
    <3>2. received[c] \in Seq(Number) /\ hand[c] \in Seq(Number) /\ send[c] \in Seq(Number)
      BY Queues DEF IInv
    <3>3. Ordered(received[c] \o hand[c] \o send[c], since[c], news)
      BY <2>1, <2>3 DEF Stream
    <3>4. Ordered(received[c] \o <<>> \o send[c], since[c], news)
      BY <3>2, <3>3, OrderedWithout
    <3> QED
      BY <2>1, <2>3, <3>1, <3>4, <1>1
  <2> QED
    BY <2>2, <2>3
<1>7. Gaps'
  <2> SUFFICES ASSUME NEW d \in subscribers', writer'[d] # "ended"
               PROVE  NoEarlyGap(Stream(d)', since'[d], news')
    BY DEF Gaps
  <2>1. d \in Client \ {c} /\ d \in subscribers /\ writer[d] # "ended"
    BY <1>1 DEF IInv, TypeOK
  <2>2. NoEarlyGap(Stream(d), since[d], news)
    BY <2>1 DEF IInv, Gaps
  <2>3. Stream(d)' = Stream(d)
    BY <2>1, <1>5
  <2> QED
    BY <2>2, <2>3, <1>1
<1> QED
  BY <1>1, <1>3, <1>4, <1>6, <1>7 DEF IInv

\* A stream begins empty, after the last number that was sent.
LEMMA SubscribeKeeps ==
  ASSUME IInv, NEW c \in Client, Subscribe(c)
  PROVE  IInv'
<1>1. /\ conn[c] = "none"
      /\ \E state \in {"open", "broken"} : conn' = [conn EXCEPT ![c] = state]
      /\ subscribers' = subscribers \cup {c}
      /\ reader' = [reader EXCEPT ![c] = "reading"]
      /\ writer' = [writer EXCEPT ![c] = "waiting"]
      /\ since' = [since EXCEPT ![c] = news]
      /\ UNCHANGED <<news, send, closed, hand, received, panicked>>
  BY DEF Subscribe
<1>2. reader[c] = "none" /\ received[c] = <<>> /\ hand[c] = <<>> /\ send[c] = <<>>
  BY <1>1 DEF IInv, Stages
<1>3. TypeOK'
  BY <1>1 DEF IInv, TypeOK
<1>4. Stages'
  BY <1>1, <1>2 DEF IInv, TypeOK, Stages
<1>5. \A d \in Client : Stream(d)' = Stream(d)
  BY <1>1, QuietStreams
<1>6. Len(Stream(c)) = 0 /\ Stream(c) \in Seq(Number) /\ news \in Nat
  <2>1. /\ Stream(c) \in Seq(Number) /\ news \in Nat
        /\ Len(Stream(c)) = Len(received[c]) + Len(hand[c]) + Len(send[c])
    BY Queues DEF IInv
  <2>2. Len(<<>>) = 0
    BY EmptySeq
  <2> QED
    BY <2>1, <2>2, <1>2
<1>7. Stream(c) = <<>> /\ DOMAIN Stream(c) = {}
  BY <1>6, EmptySeq, LenProperties
<1>8. Orders'
  <2> SUFFICES ASSUME NEW d \in Client
               PROVE  since'[d] <= news' /\ Ordered(Stream(d)', since'[d], news')
    BY DEF Orders
  <2>1. Stream(d)' = Stream(d)
    BY <1>5
  <2>2. CASE d # c
    <3>1. since[d] <= news /\ Ordered(Stream(d), since[d], news)
      BY DEF IInv, Orders
    <3>2. since'[d] = since[d]
      BY <2>2, <1>1 DEF IInv, TypeOK
    <3> QED
      BY <2>1, <3>1, <3>2, <1>1
  <2>3. CASE d = c
    <3>1. since'[c] = news
      BY <1>1 DEF IInv, TypeOK
    <3>2. Ordered(Stream(c), news, news)
      BY <1>7 DEF Ordered
    <3> QED
      BY <2>1, <2>3, <3>1, <3>2, <1>1, <1>6
  <2> QED
    BY <2>2, <2>3
<1>9. Gaps'
  <2> SUFFICES ASSUME NEW d \in subscribers', writer'[d] # "ended"
               PROVE  NoEarlyGap(Stream(d)', since'[d], news')
    BY DEF Gaps
  <2>0. d \in Client
    BY <1>1 DEF IInv, TypeOK
  <2>1. Stream(d)' = Stream(d)
    BY <2>0, <1>5
  <2>2. CASE d # c
    <3>1. d \in subscribers /\ writer[d] # "ended" /\ since'[d] = since[d]
      BY <2>0, <2>2, <1>1 DEF IInv, TypeOK
    <3>2. NoEarlyGap(Stream(d), since[d], news)
      BY <3>1 DEF IInv, Gaps
    <3> QED
      BY <2>1, <3>1, <3>2, <1>1
  <2>3. CASE d = c
    <3>1. since'[c] = news
      BY <1>1 DEF IInv, TypeOK
    <3>2. NoEarlyGap(Stream(c), news, news)
      BY <1>6, <1>7 DEF NoEarlyGap
    <3> QED
      BY <2>1, <2>3, <3>1, <3>2, <1>1
  <2> QED
    BY <2>2, <2>3
<1> QED
  BY <1>1, <1>3, <1>4, <1>8, <1>9 DEF IInv

\* A notification comes to the end of a stream, or the channel is full and the stream
\* is at least as long as the channel.
LEMMA NotifyKeeps ==
  ASSUME IInv, Notify
  PROVE  IInv'
<1> USE HubAssumption
<1>0. TypeOK /\ Stages /\ Orders /\ Gaps /\ ~panicked
  BY DEF IInv
<1>1. /\ news < MaxNews /\ news' = news + 1
      /\ panicked' = (panicked \/ subscribers \cap closed # {})
      /\ send' = [c \in Client |-> IF c \in subscribers \ closed THEN Enqueue(send[c], news')
                                   ELSE send[c]]
      /\ UNCHANGED <<subscribers, closed, conn, reader, writer, hand, since, received>>
  BY DEF Notify, pumps
<1>2. news \in Nat /\ news + 1 \in Number
  BY <1>0, <1>1 DEF TypeOK, Number
<1>3. subscribers \cap closed = {}
  BY <1>0 DEF TypeOK, Stages
<1>4. ASSUME NEW c \in Client
      PROVE  /\ send'[c] \in Seq(Number) /\ Len(send'[c]) <= QueueCap
             /\ c \notin subscribers => send'[c] = send[c]
             /\ \/ send'[c] = send[c] /\ Stream(c)' = Stream(c)
                \/ Stream(c)' = Append(Stream(c), news + 1)
             /\ c \in subscribers =>
                  \/ Stream(c)' = Append(Stream(c), news + 1)
                  \/ Stream(c)' = Stream(c) /\ Len(Stream(c)) >= QueueCap
  <2>1. /\ received[c] \in Seq(Number) /\ hand[c] \in Seq(Number) /\ send[c] \in Seq(Number)
        /\ Len(Stream(c)) = Len(received[c]) + Len(hand[c]) + Len(send[c])
        /\ Len(send[c]) <= QueueCap
    BY <1>0, Queues
  <2>2. Len(received[c]) \in Nat /\ Len(hand[c]) \in Nat /\ Len(send[c]) \in Nat
    BY <2>1, LenProperties
  <2>3. Stream(c)' = (received[c] \o hand[c]) \o send'[c]
    BY <1>1 DEF Stream
  <2>4. CASE c \in subscribers /\ Len(send[c]) < QueueCap
    <3>1. send'[c] = Append(send[c], news + 1)
      BY <1>1, <1>3, <2>4 DEF Enqueue
    <3>2. /\ Append(send[c], news + 1) \in Seq(Number)
          /\ Len(Append(send[c], news + 1)) = Len(send[c]) + 1
      BY <1>2, <2>1, AppendProperties
    <3>3. Append(send[c], news + 1) = send[c] \o <<news + 1>>
      BY <1>2, <2>1, AppendIsConcat
    <3>4. received[c] \o hand[c] \in Seq(Number) /\ <<news + 1>> \in Seq(Number)
      <4>1. received[c] \o hand[c] \in Seq(Number)
        BY <2>1
      <4>2. <<news + 1>> \in Seq(Number)
        BY <1>2
      <4> QED
        BY <4>1, <4>2
    <3>5. (received[c] \o hand[c]) \o (send[c] \o <<news + 1>>)
            = ((received[c] \o hand[c]) \o send[c]) \o <<news + 1>>
      <4> DEFINE k == received[c] \o hand[c]
                 q == send[c]
                 n == <<news + 1>>
      <4>1. k \in Seq(Number) /\ q \in Seq(Number) /\ n \in Seq(Number)
        BY <2>1, <3>4
      <4> HIDE DEF k, q, n
      <4>2. (k \o q) \o n = k \o (q \o n)
        BY <4>1, Regroup
      <4> QED
        BY <4>2 DEF k, q, n
    <3>6. (received[c] \o hand[c]) \o send[c] = Stream(c) /\ Stream(c) \in Seq(Number)
      BY <1>0, Queues DEF Stream
    <3>7. Append(Stream(c), news + 1) = Stream(c) \o <<news + 1>>
      BY <1>2, <3>6, AppendIsConcat
    <3>8. Stream(c)' = Append(Stream(c), news + 1)
      BY <2>3, <3>1, <3>3, <3>5, <3>6, <3>7
    <3>9. Len(send[c]) + 1 <= QueueCap
      BY <2>2, <2>4
    <3> QED
      BY <2>4, <3>1, <3>2, <3>8, <3>9
  <2>5. CASE c \in subscribers /\ ~(Len(send[c]) < QueueCap)
    <3>1. send'[c] = send[c]
      BY <1>1, <1>3, <2>5 DEF Enqueue
    <3>2. Stream(c)' = Stream(c)
      BY <2>3, <3>1 DEF Stream
    <3>3. Len(Stream(c)) >= Len(send[c]) /\ Len(Stream(c)) \in Nat
      <4> DEFINE k == Len(received[c])
                 l == Len(hand[c])
                 m == Len(send[c])
                 n == Len(Stream(c))
      <4>1. k \in Nat /\ l \in Nat /\ m \in Nat /\ n = k + l + m
        BY <2>1, <2>2
      <4> HIDE DEF k, l, m, n
      <4>2. n >= m /\ n \in Nat
        BY <4>1
      <4> QED
        BY <4>2 DEF m, n
    <3>4. Len(Stream(c)) >= QueueCap
      BY <3>3, <2>2, <2>5
    <3> QED
      BY <2>1, <3>1, <3>2, <3>4
  <2>6. CASE c \notin subscribers
    <3>1. send'[c] = send[c]
      BY <1>1, <2>6
    <3>2. Stream(c)' = Stream(c)
      BY <2>3, <3>1 DEF Stream
    <3> QED
      BY <2>1, <2>6, <3>1, <3>2
  <2> QED
    BY <2>4, <2>5, <2>6
<1>5. TypeOK'
  <2>1. send' \in [Client -> Seq(1..MaxNews)]
    BY <1>1, <1>4 DEF Number
  <2>2. \A c \in Client : Len(send'[c]) <= QueueCap
    BY <1>4
  <2>3. news' \in 0..MaxNews /\ panicked' \in BOOLEAN
    BY <1>0, <1>1, <1>2
  <2> QED
    BY <1>0, <1>1, <2>1, <2>2, <2>3 DEF TypeOK
<1>6. Stages'
  BY <1>0, <1>1, <1>4 DEF TypeOK, Stages
<1>7. Orders'
  <2> SUFFICES ASSUME NEW c \in Client
               PROVE  since'[c] <= news' /\ Ordered(Stream(c)', since'[c], news')
    BY DEF Orders
  <2>1. since[c] <= news /\ Ordered(Stream(c), since[c], news)
    BY <1>0 DEF Orders
  <2>2. since[c] \in Nat /\ Stream(c) \in Seq(Number)
    BY <1>0, Queues
  <2>3. Ordered(Stream(c), since[c], news + 1)
    <3>1. \A i \in DOMAIN Stream(c) : Stream(c)[i] \in Number
      BY <2>2, ElementOfSeq, LenProperties
    <3> QED
      BY <1>2, <2>1, <3>1 DEF Ordered, Number
  <2>4. Ordered(Append(Stream(c), news + 1), since[c], news + 1)
    BY <1>2, <2>1, <2>2, OrderedAppend
  <2>5. Ordered(Stream(c)', since[c], news + 1)
    BY <1>4, <2>3, <2>4
  <2> QED
    BY <1>1, <1>2, <2>1, <2>2, <2>5
<1>8. Gaps'
  <2> SUFFICES ASSUME NEW c \in subscribers', writer'[c] # "ended"
               PROVE  NoEarlyGap(Stream(c)', since'[c], news')
    BY DEF Gaps
  <2>1. c \in Client /\ c \in subscribers /\ writer[c] # "ended" /\ since'[c] = since[c]
    BY <1>0, <1>1 DEF TypeOK
  <2>2. NoEarlyGap(Stream(c), since[c], news)
    BY <1>0, <2>1 DEF Gaps
  <2>3. Stream(c) \in Seq(Number)
    BY <1>0, <2>1, Queues
  <2>4. CASE Stream(c)' = Append(Stream(c), news + 1)
    BY <1>1, <1>2, <2>1, <2>2, <2>3, <2>4, GapAppend
  <2>5. CASE Stream(c)' = Stream(c) /\ Len(Stream(c)) >= QueueCap
    <3>1. NoEarlyGap(Stream(c), since[c], news + 1)
      BY <2>2, <2>5 DEF NoEarlyGap
    <3> QED
      BY <1>1, <2>1, <2>5, <3>1
  <2> QED
    BY <1>4, <2>1, <2>4, <2>5
<1>9. ~panicked'
  BY <1>0, <1>1, <1>3
<1> QED
  BY <1>5, <1>6, <1>7, <1>8, <1>9 DEF IInv

-----------------------------------------------------------------------------
LEMMA NextInv == IInv /\ [Next]_vars => IInv'
<1> SUFFICES ASSUME IInv, [Next]_vars
             PROVE  IInv'
  OBVIOUS
<1>1. CASE Notify
  BY <1>1, NotifyKeeps
<1>2. ASSUME NEW c \in Client, Subscribe(c) \/ Disconnect(c)
      PROVE  IInv'
  BY <1>2, SubscribeKeeps, DisconnectKeeps
<1>3. ASSUME NEW c \in Client, Reading(c)
      PROVE  IInv'
  BY <1>3, ReadFailsKeeps, CloseSendKeeps DEF Reading
<1>4. ASSUME NEW c \in Client, Writing(c)
      PROVE  IInv'
  BY <1>4, ReceiveKeeps, WriteDoneKeeps, WriteFailsKeeps, WriterEndsKeeps DEF Writing
<1>5. CASE UNCHANGED vars
  <2>1. TypeOK' /\ Stages'
    BY <1>5 DEF IInv, TypeOK, Stages, vars, pumps
  <2>2. \A c \in Client : Stream(c)' = Stream(c)
    BY <1>5, QuietStreams DEF vars, pumps
  <2> QED
    BY <1>5, <2>1, <2>2, Quiet DEF vars, pumps
<1> QED
  BY <1>1, <1>2, <1>3, <1>4, <1>5 DEF Next

LEMMA Invariance == Spec => []IInv
BY InitInv, NextInv, PTL DEF Spec

\* Type correctness of the hub.
THEOREM HubTyped == Spec => []TypeOK
<1>1. IInv => TypeOK
  BY DEF IInv
<1> QED
  BY Invariance, <1>1, PTL

\* No notification goes to a channel that Unsubscribe has closed.
THEOREM NothingSentOnClosed == Spec => []NoSendOnClosed
<1>1. IInv => NoSendOnClosed
  BY DEF IInv, TypeOK, Stages, NoSendOnClosed
<1> QED
  BY Invariance, <1>1, PTL

\* WritePump sends what Notify gave it in the order of Notify, once, and nothing from
\* before Subscribe.
THEOREM StreamsInOrder == Spec => []ReceivedInOrder
<1>1. IInv => ReceivedInOrder
  BY DEF IInv, Orders, Ordered, ReceivedInOrder
<1> QED
  BY Invariance, <1>1, PTL

\* Notify drops a notification only for a watcher whose channel is full, and that takes
\* as many notifications as the channel holds.
THEOREM GapsOnlyAfterFull == Spec => []GapsOnlyWhenFull
<1>1. IInv => GapsOnlyWhenFull
  <2> SUFFICES ASSUME IInv, NEW c \in subscribers, writer[c] # "ended"
               PROVE  LET s    == <<since[c]>> \o Stream(c)
                          last == s[Len(s)]
                      IN  /\ \A i \in 1..(Len(s) - 1) : s[i + 1] # s[i] + 1 => i > QueueCap
                          /\ last # news => Len(s) > QueueCap
    BY DEF GapsOnlyWhenFull
  <2> DEFINE m == Stream(c)
             s == <<since[c]>> \o m
  <2>1. c \in Client /\ NoEarlyGap(m, since[c], news)
    BY DEF IInv, TypeOK, Gaps
  <2>2. m \in Seq(Number) /\ since[c] \in Nat
    BY <2>1, Queues DEF IInv
  <2>0. Number \subseteq Nat
    BY DEF Number
  <2>3. m \in Seq(Nat) /\ <<since[c]>> \in Seq(Nat) /\ Len(<<since[c]>>) = 1
    <3>1. m \in Seq(Nat)
      BY <2>2, <2>0, SeqMonotonic
    <3>2. <<since[c]>> \in Seq(Nat) /\ Len(<<since[c]>>) = 1
      BY <2>2
    <3> QED
      BY <3>1, <3>2
  <2>4. /\ s \in Seq(Nat) /\ Len(s) = 1 + Len(m)
        /\ \A i \in 1..1 + Len(m) : s[i] = IF i <= 1 THEN <<since[c]>>[i] ELSE m[i - 1]
    BY <2>3, ConcatProperties
  <2>5. Len(m) \in Nat /\ (m = <<>> <=> Len(m) = 0) /\ QueueCap \in Nat
    BY <2>3, EmptySeq, LenProperties, HubAssumption
  <2>6. s[1] = since[c]
    BY <2>4, <2>5
  <2>7. \A i \in 1..Len(m) : s[i + 1] = m[i]
    <3> SUFFICES ASSUME NEW i \in 1..Len(m)
                 PROVE  s[i + 1] = m[i]
      OBVIOUS
    <3>1. i + 1 \in 1..1 + Len(m) /\ ~(i + 1 <= 1) /\ (i + 1) - 1 = i
      BY <2>5
    <3> HIDE DEF s
    <3> QED
      BY <3>1, <2>4
  <2> HIDE DEF s, m
  <2>8. ASSUME NEW i \in 1..(Len(s) - 1), s[i + 1] # s[i] + 1
        PROVE  i > QueueCap
    <3>1. i \in 1..Len(m) /\ s[i + 1] = m[i]
      BY <2>4, <2>5, <2>7
    <3>2. s[i] = IF i = 1 THEN since[c] ELSE m[i - 1]
      <4>1. CASE i = 1
        BY <4>1, <2>6
      <4>2. CASE i # 1
        <5>1. i - 1 \in 1..Len(m) /\ (i - 1) + 1 = i
          BY <4>2, <3>1, <2>5
        <5> QED
          BY <5>1, <4>2, <2>7
      <4> QED
        BY <4>1, <4>2
    <3>3. (IF i = 1 THEN since[c] ELSE m[i - 1]) + 1 # m[i]
      BY <3>1, <3>2, <2>8
    <3> QED
      BY <3>1, <3>3, <2>1 DEF NoEarlyGap
  <2>9. ASSUME s[Len(s)] # news
        PROVE  Len(s) > QueueCap
    <3>1. s[Len(s)] = IF m = <<>> THEN since[c] ELSE m[Len(m)]
      <4>1. CASE m = <<>>
        BY <4>1, <2>4, <2>5, <2>6
      <4>2. CASE m # <<>>
        <5>1. Len(m) \in 1..Len(m) /\ Len(s) = Len(m) + 1
          BY <4>2, <2>4, <2>5
        <5> QED
          BY <5>1, <4>2, <2>7
      <4> QED
        BY <4>1, <4>2
    <3>2. Len(m) >= QueueCap
      BY <3>1, <2>9, <2>1 DEF NoEarlyGap
    <3> QED
      BY <3>2, <2>4, <2>5
  <2> QED
    BY <2>8, <2>9 DEF s, m
<1> QED
  BY Invariance, <1>1, PTL
===============================================================================
