-------------------------- MODULE LogManagerProofs --------------------------
(***************************************************************************)
(* Proofs about LogManager for every set of callers, handlers and levels,  *)
(* every size of the buffer and every number of entries: first the channel *)
(* and how it is closed, then the handlers, the log stream, and last what  *)
(* the backend has stored.                                                 *)
(***************************************************************************)
EXTENDS LogManager, FilteringProofs, SequenceTheorems, TLAPS

-----------------------------------------------------------------------------
(* Types.                                                                  *)

\* The part of TypeOK that is about the channel, run and the handlers.
ChannelTypes ==
    /\ clock \in 0..MaxEntries
    /\ caller \in [Callers -> Caller]
    /\ queue \in Seq(Entry)
    /\ closing \in {"open", "closed", "done"}
    /\ run \in {"receive", "write", "snapshot", "handle", "exited"}
    /\ todo \in Seq(Handlers)
    /\ handlers \in Seq(Handlers)
    /\ received \in Seq(Entry)
    /\ handled \in [Handlers -> Seq(Entry)]
    /\ since \in [Handlers -> Nat]
    /\ panicked \subseteq Callers

\* While run works on an entry, it is the last one received.
HasCurrent == run \in {"write", "snapshot", "handle"} => received # <<>>

\* What is in the buffer are entries, at most Capacity of them, the first in
\* the channel.
LEMMA BufferedIsPrefix ==
    ASSUME queue \in Seq(Entry)
    PROVE  LET n == IF Len(queue) < Capacity THEN Len(queue) ELSE Capacity
           IN  /\ Buffered \in Seq(Entry)
               /\ Len(Buffered) = n
               /\ n \in 0..Len(queue)
               /\ \A i \in 1..n : Buffered[i] = queue[i]
<1> DEFINE n == IF Len(queue) < Capacity THEN Len(queue) ELSE Capacity
<1>1. n \in 0..Len(queue) /\ n \in Nat /\ Len(queue) \in Nat
  BY CapacityAssumption
<1>2. \A i \in 1..n : queue[i] \in Entry
  BY <1>1
<1>3. /\ SubSeq(queue, 1, n) \in Seq(Entry)
      /\ Len(SubSeq(queue, 1, n)) = IF 1 <= n THEN n - 1 + 1 ELSE 0
      /\ \A i \in 1..(n - 1 + 1) : SubSeq(queue, 1, n)[i] = queue[1 + i - 1]
  BY <1>1, <1>2, SubSeqProperties
<1>4. QED
  BY <1>1, <1>3 DEF Buffered

\* An entry just stamped is an entry.
LEMMA StampType ==
    ASSUME clock \in 0..MaxEntries, clock < MaxEntries,
           NEW c \in Callers, NEW l \in Levels
    PROVE  /\ NewLogEntry(c, l) \in Entry
           /\ clock + 1 \in 0..MaxEntries
           /\ NewLogEntry(c, l).at = clock + 1
           /\ NewLogEntry(c, l).by = c
BY CapacityAssumption DEF NewLogEntry, Entry

\* A caller about to send has its entry.
LEMMA SenderType ==
    ASSUME ChannelTypes, NEW c \in Callers, caller[c].pc = "send"
    PROVE  caller[c].entry \in Entry
BY DEF ChannelTypes, Caller

\* A caller that waits does not send.
LEMMA CallerTypes == Idle \in Caller /\ [pc |-> "blocked"] \in Caller
                        /\ \A e \in Entry : [pc |-> "send", entry |-> e] \in Caller
BY DEF Idle, Caller

\* Before the first entry every part of the manager is empty.
LEMMA InitChannelTypes == Init => ChannelTypes /\ HasCurrent
BY CapacityAssumption, CallerTypes DEF Init, ChannelTypes, HasCurrent

\* The channel, run and the handlers keep their types.
LEMMA NextChannelTypes ==
    ChannelTypes /\ HasCurrent /\ [Next]_vars => ChannelTypes' /\ HasCurrent'
<1> SUFFICES ASSUME ChannelTypes, HasCurrent, [Next]_vars
             PROVE  ChannelTypes' /\ HasCurrent'
  OBVIOUS
<1> USE DEF ChannelTypes, HasCurrent
<1>1. ASSUME NEW c \in Callers, NEW l \in Levels, WriteLog(c, l)
      PROVE  ChannelTypes' /\ HasCurrent'
  <2>1. [pc |-> "send", entry |-> NewLogEntry(c, l)] \in Caller
    BY <1>1, StampType, CallerTypes DEF WriteLog
  <2>2. clock' \in 0..MaxEntries
    BY <1>1, StampType DEF WriteLog
  <2>3. QED
    BY <1>1, <2>1, <2>2 DEF WriteLog
<1>2. ASSUME NEW c \in Callers, Send(c)
      PROVE  ChannelTypes' /\ HasCurrent'
  <2>1. caller[c].entry \in Entry
    BY <1>2, SenderType DEF Send
  <2>2. queue' \in Seq(Entry)
    <3>1. Append(queue, caller[c].entry) \in Seq(Entry)
      BY <2>1, AppendProperties
    <3>2. QED
      BY <1>2, <3>1 DEF Send
  <2>3. PICK next \in {Idle, [pc |-> "blocked"]} :
          caller' = [caller EXCEPT ![c] = next]
    BY <1>2 DEF Send
  <2>4. caller' \in [Callers -> Caller]
    BY <2>3, CallerTypes
  <2>5. panicked' \subseteq Callers
    BY <1>2 DEF Send
  <2>6. QED
    BY <1>2, <2>2, <2>4, <2>5 DEF Send
<1>3. ASSUME NEW h \in Handlers, RegisterLogHandler(h)
      PROVE  ChannelTypes' /\ HasCurrent'
  <2>1. (run \in {"write", "snapshot"} => Len(received) - 1 \in Nat)
            /\ Len(received) \in Nat
    OBVIOUS
  <2>2. since' \in [Handlers -> Nat] /\ handlers' \in Seq(Handlers)
    BY <1>3, <2>1 DEF RegisterLogHandler
  <2>3. QED
    BY <1>3, <2>2 DEF RegisterLogHandler
<1>4. ASSUME NEW before \in ClearTimes, ClearLogs(before)
      PROVE  ChannelTypes' /\ HasCurrent'
  BY <1>4 DEF ClearLogs
<1>5. ASSUME CloseChannel
      PROVE  ChannelTypes' /\ HasCurrent'
  <2>1. queue' \in Seq(Entry)
    BY <1>5, BufferedIsPrefix DEF CloseChannel, KeptByClose
  <2>2. caller' \in [Callers -> Caller] /\ panicked' \subseteq Callers
    BY <1>5, CallerTypes DEF CloseChannel
  <2>3. QED
    BY <1>5, <2>1, <2>2 DEF CloseChannel
<1>6. ASSUME Receive
      PROVE  ChannelTypes' /\ HasCurrent'
  <2>1. queue' \in Seq(Entry) /\ received' \in Seq(Entry) /\ received' # <<>>
    BY <1>6, HeadTailProperties, AppendProperties DEF Receive
  <2>2. caller' \in [Callers -> Caller]
    BY <1>6, CallerTypes DEF Receive
  <2>3. QED
    BY <1>6, <2>1, <2>2 DEF Receive
<1>7. ASSUME Write
      PROVE  ChannelTypes' /\ HasCurrent'
  BY <1>7 DEF Write, AfterError
<1>8. ASSUME Snapshot
      PROVE  ChannelTypes' /\ HasCurrent'
  BY <1>8 DEF Snapshot, HandlersNow
<1>9. ASSUME Handle
      PROVE  ChannelTypes' /\ HasCurrent'
  <2>1. Current \in Entry
    BY <1>9 DEF Handle, Current
  <2>2. CASE todo # <<>>
    <3>1. Head(todo) \in Handlers /\ Tail(todo) \in Seq(Handlers)
      BY <2>2, HeadTailProperties
    <3>2. Append(handled[Head(todo)], Current) \in Seq(Entry)
      BY <2>1, <3>1, AppendProperties
    <3>3. QED
      BY <1>9, <2>2, <3>1, <3>2 DEF Handle
  <2>3. CASE todo = <<>>
    BY <1>9, <2>3 DEF Handle
  <2>4. QED
    BY <2>2, <2>3
<1>10. CASE Exit
  BY <1>10 DEF Exit
<1>11. CASE CloseReturns
  BY <1>11 DEF CloseReturns
<1>12. CASE UNCHANGED vars
  BY <1>12 DEF vars
<1>13. QED
  BY <1>1, <1>2, <1>3, <1>4, <1>5, <1>6, <1>7, <1>8, <1>9, <1>10, <1>11,
     <1>12
  DEF Next, Run

-----------------------------------------------------------------------------
(* The channel, and how it is closed.                                      *)

\* A caller sends its own entries.
SendsOwn == \A c \in Callers : caller[c].pc = "send" => caller[c].entry.by = c

\* What is in the channel beyond its buffer belongs to callers blocked in the
\* send, one entry each.
BlockedBehind ==
    \A i \in DOMAIN queue : i > Capacity =>
        /\ caller[queue[i].by].pc = "blocked"
        /\ \A k \in DOMAIN queue :
            k > Capacity /\ queue[k].by = queue[i].by => k = i

\* The closed channel has nobody blocked on it, and run ends only when it is
\* closed and empty, between two entries.
Closing ==
    /\ IsClosed => Len(queue) <= Capacity
    /\ run = "exited" => queue = <<>> /\ IsClosed
    /\ todo # <<>> => run = "handle"
    /\ closing = "done" => run = "exited"
    /\ closing = "open" => panicked = {}

\* What every goroutine that uses the manager relies on.
ChannelInv == ChannelTypes /\ HasCurrent /\ SendsOwn /\ BlockedBehind /\ Closing

\* The buffer is empty before the first entry.
LEMMA InitChannelInv == Init => ChannelInv
BY InitChannelTypes, CapacityAssumption
DEF Init, ChannelInv, SendsOwn, BlockedBehind, Closing, Idle, IsClosed

\* Only NewLogEntry gives a caller an entry to send.
LEMMA NextSendsOwn ==
    ASSUME ChannelTypes, SendsOwn, [Next]_vars
    PROVE  SendsOwn'
<1> USE DEF SendsOwn, ChannelTypes, Idle
<1>1. ASSUME NEW c \in Callers, NEW l \in Levels, WriteLog(c, l)
      PROVE  SendsOwn'
  <2>1. NewLogEntry(c, l).by = c
    BY DEF NewLogEntry
  <2>2. /\ caller'[c].entry = NewLogEntry(c, l)
        /\ \A b \in Callers \ {c} : caller'[b] = caller[b]
    BY <1>1 DEF WriteLog
  <2>3. QED
    BY <2>1, <2>2
<1>2. ASSUME NEW c \in Callers, Send(c)
      PROVE  SendsOwn'
  <2>1. PICK next \in {Idle, [pc |-> "blocked"]} :
          caller' = [caller EXCEPT ![c] = next]
    BY <1>2 DEF Send
  <2>2. caller'[c].pc # "send"
    BY <2>1
  <2>3. QED
    BY <2>1, <2>2
<1>3. CASE CloseChannel
  BY <1>3 DEF CloseChannel
<1>4. CASE Receive
  BY <1>4 DEF Receive
<1>5. CASE UNCHANGED caller
  BY <1>5
<1>6. QED
  BY <1>1, <1>2, <1>3, <1>4, <1>5
  DEF Next, Run, RegisterLogHandler, ClearLogs, Write, Snapshot, Handle, Exit,
      CloseReturns, vars

\* A caller joins the end of the channel when it blocks, and the first one
\* behind the buffer is let in when run takes an entry out.
LEMMA NextBlockedBehind ==
    ASSUME ChannelTypes, SendsOwn, BlockedBehind, [Next]_vars
    PROVE  BlockedBehind'
<1>1. ASSUME NEW c \in Callers, NEW l \in Levels, WriteLog(c, l)
      PROVE  BlockedBehind'
  BY <1>1 DEF WriteLog, BlockedBehind, ChannelTypes, Entry, Idle
<1>2. ASSUME NEW c \in Callers, Send(c)
      PROVE  BlockedBehind'
  <2>1. caller[c].entry \in Entry /\ caller[c].entry.by = c
    BY <1>2, SenderType DEF Send, SendsOwn
  <2>2. \A b \in Callers \ {c} : caller'[b] = caller[b]
    BY <1>2 DEF Send, ChannelTypes
  <2>3. CASE IsClosed
    <3>1. queue' = queue
      BY <1>2, <2>3 DEF Send
    <3>2. ASSUME NEW i \in DOMAIN queue, i > Capacity
          PROVE  caller'[queue[i].by] = caller[queue[i].by]
      <4>1. queue[i] \in Entry
        BY DEF ChannelTypes
      <4>2. queue[i].by # c /\ queue[i].by \in Callers
        BY <1>2, <3>2, <4>1 DEF Send, BlockedBehind, Entry
      <4>3. QED
        BY <2>2, <4>2
    <3>3. QED
      BY <3>1, <3>2 DEF BlockedBehind
  <2>4. CASE ~IsClosed
    <3>1. /\ queue' = Append(queue, caller[c].entry)
          /\ Len(queue) >= Capacity => caller'[c].pc = "blocked"
      BY <1>2, <2>4, CapacityAssumption DEF Send, ChannelTypes
    <3>2. /\ Len(queue') = Len(queue) + 1
          /\ \A i \in 1..Len(queue) : queue'[i] = queue[i]
          /\ queue'[Len(queue) + 1] = caller[c].entry
          /\ DOMAIN queue' = 1..(Len(queue) + 1)
          /\ DOMAIN queue = 1..Len(queue)
          /\ Len(queue) \in Nat
      BY <2>1, <3>1, AppendProperties DEF ChannelTypes
    <3>3. ASSUME NEW i \in DOMAIN queue, i > Capacity
          PROVE  /\ queue[i].by # c
                 /\ queue[i].by \in Callers
                 /\ caller'[queue[i].by].pc = "blocked"
      <4>1. queue[i] \in Entry
        BY DEF ChannelTypes
      <4>2. QED
        BY <1>2, <2>2, <3>3, <4>1 DEF Send, BlockedBehind, Entry
    <3>4. ASSUME NEW i \in DOMAIN queue', i > Capacity
          PROVE  /\ caller'[queue'[i].by].pc = "blocked"
                 /\ \A k \in DOMAIN queue' :
                      k > Capacity /\ queue'[k].by = queue'[i].by => k = i
      <4>1. CASE i \in DOMAIN queue
        BY <2>1, <3>2, <3>3, <3>4, <4>1 DEF BlockedBehind
      <4>2. CASE i = Len(queue) + 1
        BY <2>1, <3>1, <3>2, <3>3, <3>4, <4>2, CapacityAssumption
      <4>3. QED
        BY <3>2, <4>1, <4>2
    <3>5. QED
      BY <3>4 DEF BlockedBehind
  <2>5. QED
    BY <2>3, <2>4
<1>3. CASE CloseChannel
  BY <1>3, BufferedIsPrefix, CapacityAssumption
  DEF CloseChannel, KeptByClose, BlockedBehind, ChannelTypes
<1>4. CASE Receive
  <2>1. /\ queue # <<>> /\ queue' = Tail(queue)
        /\ Len(queue') = Len(queue) - 1
        /\ \A i \in 1..Len(queue') : queue'[i] = queue[i + 1]
        /\ DOMAIN queue' = 1..Len(queue') /\ DOMAIN queue = 1..Len(queue)
        /\ Len(queue) \in Nat
    BY <1>4, HeadTailProperties DEF Receive, ChannelTypes
  <2>2. CASE Len(queue) <= Capacity
    BY <2>1, <2>2, CapacityAssumption DEF BlockedBehind
  <2>3. CASE Len(queue) > Capacity
    <3>1. caller' = [caller EXCEPT ![queue[Capacity + 1].by] = Idle]
      BY <1>4, <2>3 DEF Receive
    <3>2. ASSUME NEW i \in DOMAIN queue', i > Capacity
          PROVE  /\ caller'[queue'[i].by].pc = "blocked"
                 /\ \A k \in DOMAIN queue' :
                      k > Capacity /\ queue'[k].by = queue'[i].by => k = i
      <4>1. i \in Nat /\ i + 1 \in DOMAIN queue /\ i + 1 > Capacity
            /\ queue'[i] = queue[i + 1]
        BY <2>1, <3>2, CapacityAssumption
      <4>2. Capacity + 1 \in DOMAIN queue /\ Capacity + 1 > Capacity
            /\ i + 1 # Capacity + 1
        BY <2>1, <2>3, <3>2, CapacityAssumption
      <4>3. queue[i + 1].by # queue[Capacity + 1].by
        BY <4>1, <4>2 DEF BlockedBehind
      <4>4. caller'[queue'[i].by].pc = "blocked"
        <5>1. queue[i + 1] \in Entry /\ queue[Capacity + 1] \in Entry
          BY <4>1, <4>2 DEF ChannelTypes
        <5>2. QED
          BY <3>1, <4>1, <4>3, <5>1 DEF BlockedBehind, ChannelTypes, Entry
      <4>5. ASSUME NEW k \in DOMAIN queue', k > Capacity,
                   queue'[k].by = queue'[i].by
            PROVE  k = i
        <5>1. k \in Nat /\ k + 1 \in DOMAIN queue /\ k + 1 > Capacity
              /\ queue'[k] = queue[k + 1]
          BY <2>1, <4>5, CapacityAssumption
        <5>2. k + 1 = i + 1
          BY <4>1, <4>5, <5>1 DEF BlockedBehind
        <5>3. QED
          BY <4>1, <5>1, <5>2
      <4>6. QED
        BY <4>4, <4>5
    <3>3. QED
      BY <3>2 DEF BlockedBehind
  <2>4. QED
    BY <2>1, <2>2, <2>3, CapacityAssumption
<1>5. CASE UNCHANGED <<caller, queue>>
  BY <1>5 DEF BlockedBehind
<1>6. QED
  BY <1>1, <1>2, <1>3, <1>4, <1>5
  DEF Next, Run, RegisterLogHandler, ClearLogs, Write, Snapshot, Handle, Exit,
      CloseReturns, vars

\* Close empties the channel of what nobody took in, and waits for run.
LEMMA NextClosing ==
    ASSUME ChannelTypes, Closing, [Next]_vars
    PROVE  Closing'
<1> USE DEF Closing, IsClosed
<1>1. ASSUME NEW c \in Callers, Send(c)
      PROVE  Closing'
  BY <1>1 DEF Send, ChannelTypes
<1>2. CASE CloseChannel
  <2>1. Len(queue') <= Capacity
    BY <1>2, BufferedIsPrefix, CapacityAssumption
    DEF CloseChannel, KeptByClose, ChannelTypes
  <2>2. run # "exited" /\ closing' = "closed"
    BY <1>2 DEF CloseChannel
  <2>3. QED
    BY <1>2, <2>1, <2>2 DEF CloseChannel
<1>3. CASE Receive
  <2>1. queue # <<>> /\ Len(queue') = Len(queue) - 1 /\ Len(queue) \in Nat
    BY <1>3, HeadTailProperties DEF Receive, ChannelTypes
  <2>2. QED
    BY <1>3, <2>1, CapacityAssumption DEF Receive
<1>4. CASE Handle
  BY <1>4 DEF Handle, ChannelTypes
<1>5. CASE Snapshot
  BY <1>5 DEF Snapshot
<1>6. CASE Exit
  BY <1>6 DEF Exit, RangeEnds
<1>7. CASE CloseReturns
  BY <1>7 DEF CloseReturns, WaitGroupDone
<1>8. CASE Write
  BY <1>8 DEF Write, AfterError
<1>9. CASE UNCHANGED <<queue, closing, run, todo, panicked>>
  BY <1>9
<1>10. QED
  BY <1>1, <1>2, <1>3, <1>4, <1>5, <1>6, <1>7, <1>8, <1>9
  DEF Next, Run, WriteLog, RegisterLogHandler, ClearLogs, vars

\* Every step of callers, run and Close keeps the channel in order.
LEMMA NextChannelInv == ChannelInv /\ [Next]_vars => ChannelInv'
BY NextChannelTypes, NextSendsOwn, NextBlockedBehind, NextClosing
DEF ChannelInv

\* The channel is in order in every reachable state.
THEOREM ChannelInvariance == Spec => []ChannelInv
BY InitChannelInv, NextChannelInv, PTL DEF Spec

\* Nobody panics before Close was called, and once Close returned all that the
\* channel took was received, stored and handled.
THEOREM CloseDrains == Spec => []ClosedMeansDrained
<1>1. ChannelInv => ClosedMeansDrained
  BY DEF ChannelInv, Closing, ClosedMeansDrained
<1>2. QED
  BY <1>1, ChannelInvariance, PTL

-----------------------------------------------------------------------------
(* What the handlers get.                                                  *)

Registered(h) == \E i \in DOMAIN handlers : handlers[i] = h

\* run still has to call h for its entry.
Pending(h) == \E k \in DOMAIN todo : todo[k] = h

\* How many of the entries received h has not been called with yet.
Missed(h) == IF run \in {"write", "snapshot"} \/ Pending(h) THEN 1 ELSE 0

\* run calls a handler once for an entry, and only those that registered
\* before it read them; each has all the entries since.
HandlerOrder ==
    /\ \A i, k \in DOMAIN todo : todo[i] = todo[k] => i = k
    /\ \A i, k \in DOMAIN handlers : handlers[i] = handlers[k] => i = k
    /\ \A h \in Handlers :
        /\ Pending(h) => Registered(h)
        /\ ~Registered(h) => handled[h] = <<>>
        /\ Registered(h) =>
            /\ since[h] + Missed(h) <= Len(received)
            /\ handled[h] = SubSeq(received, since[h] + 1,
                                   Len(received) - Missed(h))

\* An entry more leaves what was received before as it was.
LEMMA SubSeqOfAppend ==
    ASSUME NEW S, NEW s \in Seq(S), NEW e \in S, NEW m \in Nat \ {0},
           NEW n \in Nat, n <= Len(s)
    PROVE  SubSeq(Append(s, e), m, n) = SubSeq(s, m, n)
<1>1. /\ Append(s, e) \in Seq(S)
      /\ \A i \in 1..Len(s) : Append(s, e)[i] = s[i]
  BY AppendProperties
<1>2. \A i \in m..n : s[i] \in S /\ Append(s, e)[i] \in S
                        /\ Append(s, e)[i] = s[i]
  BY <1>1
<1>3. /\ SubSeq(s, m, n) \in Seq(S)
      /\ Len(SubSeq(s, m, n)) = IF m <= n THEN n - m + 1 ELSE 0
      /\ \A i \in 1..(n - m + 1) : SubSeq(s, m, n)[i] = s[m + i - 1]
  BY <1>2, SubSeqProperties
<1>4. /\ SubSeq(Append(s, e), m, n) \in Seq(S)
      /\ Len(SubSeq(Append(s, e), m, n)) = IF m <= n THEN n - m + 1 ELSE 0
      /\ \A i \in 1..(n - m + 1) :
            SubSeq(Append(s, e), m, n)[i] = Append(s, e)[m + i - 1]
  <2>1. \A i \in m..n : Append(s, e)[i] \in S
    BY <1>2
  <2>2. QED
    BY <2>1, SubSeqProperties
<1>5. ASSUME NEW i \in 1..Len(SubSeq(s, m, n))
      PROVE  SubSeq(Append(s, e), m, n)[i] = SubSeq(s, m, n)[i]
  <2>1. i \in 1..(n - m + 1) /\ m + i - 1 \in m..n
    BY <1>3, <1>5
  <2>2. QED
    BY <1>2, <1>3, <1>4, <2>1
<1>6. QED
  BY <1>3, <1>4, <1>5, SeqEqual

\* A stretch of a sequence grows by the element after it.
LEMMA SubSeqGrows ==
    ASSUME NEW S, NEW s \in Seq(S), NEW m \in Nat \ {0}, NEW n \in Nat \ {0},
           m <= n, n <= Len(s)
    PROVE  Append(SubSeq(s, m, n - 1), s[n]) = SubSeq(s, m, n)
<1> DEFINE p == SubSeq(s, m, n - 1)
           q == SubSeq(s, m, n)
<1>1. \A i \in m..n : s[i] \in S
  OBVIOUS
<1>2. /\ q \in Seq(S) /\ Len(q) = n - m + 1
      /\ \A i \in 1..(n - m + 1) : q[i] = s[m + i - 1]
  BY <1>1, SubSeqProperties
<1>3. /\ p \in Seq(S) /\ Len(p) = n - m
      /\ \A i \in 1..(n - m) : p[i] = s[m + i - 1]
  <2>1. \A i \in m..(n - 1) : s[i] \in S
    BY <1>1
  <2>2. /\ p \in Seq(S)
        /\ Len(p) = IF m <= n - 1 THEN n - 1 - m + 1 ELSE 0
        /\ \A i \in 1..(n - 1 - m + 1) : p[i] = s[m + i - 1]
    BY <2>1, SubSeqProperties
  <2>3. QED
    BY <2>2
<1>4. s[n] \in S
  BY <1>1
<1> HIDE DEF p, q
<1>5. /\ Append(p, s[n]) \in Seq(S)
      /\ Len(Append(p, s[n])) = n - m + 1
      /\ \A i \in 1..(n - m) : Append(p, s[n])[i] = p[i]
      /\ Append(p, s[n])[n - m + 1] = s[n]
  BY <1>3, <1>4, AppendProperties
<1>6. ASSUME NEW i \in 1..(n - m + 1)
      PROVE  Append(p, s[n])[i] = q[i]
  <2>1. CASE i = n - m + 1
    <3>1. q[i] = s[n]
      BY <1>2, <2>1
    <3>2. QED
      BY <1>5, <2>1, <3>1
  <2>2. CASE i \in 1..(n - m)
    BY <1>2, <1>3, <1>5, <2>2
  <2>3. i = n - m + 1 \/ i \in 1..(n - m)
    BY <1>6
  <2>4. QED
    BY <2>1, <2>2, <2>3
<1>7. Append(p, s[n]) = q
  BY <1>2, <1>5, <1>6, SeqEqual
<1>8. QED
  BY <1>7 DEF p, q


\* Nobody is registered before the first entry.
LEMMA InitHandlerOrder == Init => HandlerOrder
BY DEF Init, HandlerOrder, Registered, Pending

\* A handler is registered once, with all that was handed out behind it.
LEMMA RegisterKeepsOrder ==
    ASSUME ChannelInv, HandlerOrder, NEW h \in Handlers, RegisterLogHandler(h)
    PROVE  HandlerOrder'
<1>0. /\ received \in Seq(Entry) /\ queue \in Seq(Entry)
      /\ todo \in Seq(Handlers) /\ handlers \in Seq(Handlers)
      /\ handled \in [Handlers -> Seq(Entry)] /\ since \in [Handlers -> Nat]
  BY DEF ChannelInv, ChannelTypes
<1>1. /\ handlers' = Append(handlers, h)
      /\ UNCHANGED <<run, todo, received, handled>>
      /\ ~Registered(h)
  BY DEF RegisterLogHandler, Registered
<1>2. /\ Len(handlers) \in Nat
      /\ DOMAIN handlers = 1..Len(handlers)
      /\ DOMAIN handlers' = 1..(Len(handlers) + 1)
      /\ \A i \in 1..Len(handlers) : handlers'[i] = handlers[i]
      /\ handlers'[Len(handlers) + 1] = h
  BY <1>1, AppendProperties
<1>3. ASSUME NEW g \in Handlers
      PROVE  Registered(g)' <=> Registered(g) \/ g = h
  <2>1. ASSUME NEW i \in DOMAIN handlers', handlers'[i] = g
        PROVE  Registered(g) \/ g = h
    <3>1. CASE i \in DOMAIN handlers
      BY <1>2, <2>1, <3>1 DEF Registered
    <3>2. CASE i = Len(handlers) + 1
      BY <1>2, <2>1, <3>2
    <3>3. QED
      BY <1>2, <2>1, <3>1, <3>2
  <2>2. ASSUME NEW i \in DOMAIN handlers, handlers[i] = g
        PROVE  Registered(g)'
    BY <1>2, <2>2 DEF Registered
  <2>3. ASSUME g = h
        PROVE  Registered(g)'
    BY <1>2, <2>3 DEF Registered
  <2>4. QED
    BY <2>1, <2>2, <2>3 DEF Registered
<1>4. \A g \in Handlers : (Pending(g)' <=> Pending(g)) /\ Missed(g)' = Missed(g)
  BY <1>1 DEF Pending, Missed
<1>5. \A g \in Handlers \ {h} : since'[g] = since[g]
  BY <1>0 DEF RegisterLogHandler
<1>6. /\ since'[h] = Len(received) - Missed(h)
      /\ since'[h] \in Nat
      /\ Len(received) \in Nat /\ Missed(h) \in {0, 1}
  <2>1. ~Pending(h)
    BY <1>1 DEF HandlerOrder
  <2>2. run \in {"write", "snapshot"} => Len(received) # 0
    BY EmptySeq DEF ChannelInv, HasCurrent
  <2>3. QED
    BY <1>0, <2>1, <2>2 DEF RegisterLogHandler, Missed
<1>7. handled'[h] = SubSeq(received', since'[h] + 1, Len(received') - Missed(h)')
  <2>1. handled'[h] = <<>>
    BY <1>1 DEF HandlerOrder
  <2>2. SubSeq(received, since'[h] + 1, Len(received) - Missed(h)) = <<>>
    BY <1>6, SubSeqEmpty
  <2>3. QED
    BY <1>1, <1>4, <2>1, <2>2
<1>8. \A i, k \in DOMAIN handlers' : handlers'[i] = handlers'[k] => i = k
  BY <1>1, <1>2 DEF HandlerOrder, Registered
<1>9. \A g \in Handlers : Registered(g)' =>
        /\ since'[g] + Missed(g)' <= Len(received')
        /\ handled'[g] = SubSeq(received', since'[g] + 1,
                                Len(received') - Missed(g)')
  <2>1. ASSUME NEW g \in Handlers \ {h}, Registered(g)'
        PROVE  /\ since'[g] + Missed(g)' <= Len(received')
               /\ handled'[g] = SubSeq(received', since'[g] + 1,
                                       Len(received') - Missed(g)')
    <3>1. Registered(g)
      BY <1>3, <2>1
    <3>2. since'[g] = since[g] /\ Missed(g)' = Missed(g)
      BY <1>4, <1>5, <2>1
    <3>3. QED
      BY <1>1, <2>1, <3>1, <3>2 DEF HandlerOrder
  <2>2. since'[h] + Missed(h)' <= Len(received')
    BY <1>1, <1>4, <1>6
  <2>3. QED
    BY <1>7, <2>1, <2>2
<1>10. QED
  BY <1>1, <1>3, <1>4, <1>8, <1>9 DEF HandlerOrder

\* An entry taken out is one more that every handler has yet to get.
LEMMA ReceiveKeepsOrder ==
    ASSUME ChannelInv, HandlerOrder, Receive
    PROVE  HandlerOrder'
<1>0. /\ received \in Seq(Entry) /\ queue \in Seq(Entry)
      /\ todo \in Seq(Handlers) /\ handlers \in Seq(Handlers)
      /\ handled \in [Handlers -> Seq(Entry)] /\ since \in [Handlers -> Nat]
  BY DEF ChannelInv, ChannelTypes
<1>1. /\ received' = Append(received, Head(queue))
      /\ run = "receive" /\ run' = "write" /\ todo = <<>>
      /\ UNCHANGED <<todo, handlers, handled, since>>
  BY DEF Receive, ChannelInv, Closing
<1>2. Head(queue) \in Entry /\ Len(received') = Len(received) + 1
      /\ Len(received) \in Nat
  BY <1>0, <1>1, HeadTailProperties, AppendProperties DEF Receive
<1>3. \A h \in Handlers : ~Pending(h) /\ Missed(h) = 0 /\ Missed(h)' = 1
                            /\ ~Pending(h)'
  BY <1>1 DEF Pending, Missed
<1>4. \A h \in Handlers : Registered(h)' <=> Registered(h)
  BY <1>1 DEF Registered
<1>5. ASSUME NEW h \in Handlers, Registered(h)
      PROVE  /\ since'[h] + Missed(h)' <= Len(received')
             /\ handled'[h] = SubSeq(received', since'[h] + 1,
                                     Len(received') - Missed(h)')
  <2>1. since[h] \in Nat /\ since[h] <= Len(received)
        /\ handled[h] = SubSeq(received, since[h] + 1, Len(received))
    BY <1>0, <1>2, <1>3, <1>5 DEF HandlerOrder
  <2>2. SubSeq(received', since[h] + 1, Len(received))
            = SubSeq(received, since[h] + 1, Len(received))
    <3>1. since[h] + 1 \in Nat \ {0}
      BY <2>1
    <3>2. SubSeq(Append(received, Head(queue)), since[h] + 1, Len(received))
            = SubSeq(received, since[h] + 1, Len(received))
      <4> DEFINE e == Head(queue)
                 m == since[h] + 1
                 n == Len(received)
      <4>1. /\ received \in Seq(Entry) /\ e \in Entry
            /\ m \in Nat \ {0} /\ n \in Nat /\ n <= Len(received)
        BY <1>0, <1>2, <3>1
      <4> HIDE DEF e, m, n
      <4>2. SubSeq(Append(received, e), m, n) = SubSeq(received, m, n)
        BY <4>1, SubSeqOfAppend
      <4>3. QED
        BY <4>2 DEF e, m, n
    <3>3. QED
      BY <1>1, <3>2
  <2>3. Len(received') - Missed(h)' = Len(received)
    BY <1>2, <1>3
  <2>4. since'[h] + Missed(h)' <= Len(received')
    BY <1>1, <1>2, <1>3, <2>1
  <2>5. handled'[h] = SubSeq(received', since'[h] + 1,
                             Len(received') - Missed(h)')
    BY <1>1, <2>1, <2>2, <2>3
  <2>6. QED
    BY <2>4, <2>5
<1>6. QED
  BY <1>1, <1>3, <1>4, <1>5 DEF HandlerOrder

\* A handler that is called gets the current entry behind what it had.
LEMMA HandleKeepsOrder ==
    ASSUME ChannelInv, HandlerOrder, Handle
    PROVE  HandlerOrder'
<1>0. /\ received \in Seq(Entry) /\ queue \in Seq(Entry)
      /\ todo \in Seq(Handlers) /\ handlers \in Seq(Handlers)
      /\ handled \in [Handlers -> Seq(Entry)] /\ since \in [Handlers -> Nat]
  BY DEF ChannelInv, ChannelTypes
<1>1. /\ run = "handle" /\ UNCHANGED <<handlers, since, received>>
      /\ received # <<>>
  BY DEF Handle, ChannelInv, HasCurrent
<1>2. \A h \in Handlers : Registered(h)' <=> Registered(h)
  BY <1>1 DEF Registered
<1>3. CASE todo # <<>> /\ run' = run
  <2>0. PICK g \in Handlers : g = Head(todo)
    BY <1>0, <1>3, HeadTailProperties
  <2>1. /\ todo' = Tail(todo)
        /\ handled' = [handled EXCEPT ![g] = Append(@, Current)]
    BY <1>1, <1>3, <2>0 DEF Handle
  <2>2. /\ g = todo[1] /\ g \in Handlers
        /\ Len(todo) \in Nat \ {0} /\ DOMAIN todo = 1..Len(todo)
        /\ Len(todo') = Len(todo) - 1 /\ DOMAIN todo' = 1..(Len(todo) - 1)
        /\ \A i \in 1..(Len(todo) - 1) : todo'[i] = todo[i + 1]
    BY <1>3, <2>0, <2>1, HeadTailProperties, EmptySeq
  <2>3. \A i, k \in DOMAIN todo' : todo'[i] = todo'[k] => i = k
    <3>1. ASSUME NEW i \in DOMAIN todo', NEW k \in DOMAIN todo',
                 todo'[i] = todo'[k]
          PROVE  i = k
      <4>1. i \in 1..(Len(todo) - 1) /\ k \in 1..(Len(todo) - 1)
        BY <2>2, <3>1
      <4>2. todo[i + 1] = todo[k + 1]
        BY <2>2, <3>1, <4>1
      <4>3. i + 1 \in DOMAIN todo /\ k + 1 \in DOMAIN todo
        BY <2>2, <4>1
      <4>4. i + 1 = k + 1
        BY <4>2, <4>3 DEF HandlerOrder
      <4>5. QED
        BY <4>1, <4>4
    <3>2. QED
      BY <3>1
  <2>4. Pending(g) /\ ~Pending(g)'
    <3>1. Pending(g)
      <4>1. 1 \in DOMAIN todo /\ todo[1] = g
        BY <2>2
      <4>2. QED
        BY <4>1 DEF Pending
    <3>2. ASSUME NEW i \in DOMAIN todo', todo'[i] = g
          PROVE  FALSE
      <4>1. i \in 1..(Len(todo) - 1)
        BY <2>2, <3>2
      <4>2. todo[i + 1] = todo[1]
        BY <2>2, <3>2, <4>1
      <4>3. i + 1 \in DOMAIN todo /\ 1 \in DOMAIN todo
        BY <2>2, <4>1
      <4>4. i + 1 = 1
        BY <4>2, <4>3 DEF HandlerOrder
      <4>5. QED
        BY <4>1, <4>4
    <3>3. ~Pending(g)'
      BY <3>2 DEF Pending
    <3>4. QED
      BY <3>1, <3>3
  <2>5. ASSUME NEW h \in Handlers \ {g}
        PROVE  Pending(h)' <=> Pending(h)
    <3>1. ASSUME NEW i \in DOMAIN todo', todo'[i] = h
          PROVE  Pending(h)
      <4>1. i \in 1..(Len(todo) - 1)
        BY <2>2, <3>1
      <4>2. i + 1 \in DOMAIN todo /\ todo[i + 1] = h
        BY <2>2, <3>1, <4>1
      <4>3. QED
        BY <4>2 DEF Pending
    <3>2. ASSUME NEW i \in DOMAIN todo, todo[i] = h
          PROVE  Pending(h)'
      <4>1. i # 1
        BY <2>2, <2>5, <3>2
      <4>2. i - 1 \in DOMAIN todo' /\ i \in 1..Len(todo)
        <5>1. i \in 1..Len(todo)
          BY <2>2, <3>2
        <5>2. i - 1 \in 1..(Len(todo) - 1)
          BY <2>2, <4>1, <5>1
        <5>3. QED
          BY <2>2, <5>1, <5>2
      <4>3. todo'[i - 1] = h
        <5>1. i - 1 \in 1..(Len(todo) - 1) /\ (i - 1) + 1 = i
          BY <2>2, <4>2
        <5>2. todo'[i - 1] = todo[(i - 1) + 1]
          BY <2>2, <5>1
        <5>3. QED
          BY <3>2, <5>1, <5>2
      <4>4. QED
        BY <4>2, <4>3 DEF Pending
    <3>3. QED
      BY <3>1, <3>2 DEF Pending
  <2>6. Registered(g)
    BY <2>2, <2>4 DEF HandlerOrder
  <2>7. /\ since'[g] + Missed(g)' <= Len(received')
        /\ handled'[g] = SubSeq(received', since'[g] + 1,
                                Len(received') - Missed(g)')
    <3>1. Missed(g) = 1 /\ Missed(g)' = 0
      BY <1>1, <1>3, <2>4 DEF Missed
    <3>2. /\ since[g] \in Nat /\ Len(received) \in Nat
          /\ since[g] + 1 <= Len(received)
          /\ handled[g] = SubSeq(received, since[g] + 1, Len(received) - 1)
      <4>1. /\ since[g] + Missed(g) <= Len(received)
            /\ handled[g] = SubSeq(received, since[g] + 1,
                                   Len(received) - Missed(g))
        BY <2>6 DEF HandlerOrder
      <4>2. since[g] \in Nat /\ Len(received) \in Nat
        BY <1>0
      <4>3. QED
        BY <3>1, <4>1, <4>2
    <3>3. Append(handled[g], Current)
            = SubSeq(received, since[g] + 1, Len(received))
      <4> DEFINE m == since[g] + 1
                 n == Len(received)
      <4>1. m \in Nat \ {0} /\ n \in Nat \ {0} /\ m <= n
            /\ received \in Seq(Entry) /\ n <= Len(received)
        BY <1>0, <3>2
      <4> HIDE DEF m
      <4>2. Append(SubSeq(received, m, n - 1), received[n])
              = SubSeq(received, m, n)
        BY <4>1, SubSeqGrows
      <4>3. Current = received[n]
        BY DEF Current
      <4>4. QED
        BY <3>2, <4>2, <4>3 DEF m
    <3>4. handled'[g] = Append(handled[g], Current)
      BY <1>0, <2>1, <2>2
    <3>5. QED
      BY <1>1, <3>1, <3>2, <3>3, <3>4
  <2>8. ASSUME NEW h \in Handlers \ {g}
        PROVE  handled'[h] = handled[h] /\ Missed(h)' = Missed(h)
    BY <1>3, <2>1, <2>5, <2>8 DEF Missed
  <2>9. \A h \in Handlers : Pending(h)' => Registered(h)'
    BY <1>2, <2>4, <2>5 DEF HandlerOrder
  <2>10. \A h \in Handlers : ~Registered(h)' => handled'[h] = <<>>
    BY <1>2, <2>6, <2>8 DEF HandlerOrder
  <2>11. \A h \in Handlers : Registered(h)' =>
          /\ since'[h] + Missed(h)' <= Len(received')
          /\ handled'[h] = SubSeq(received', since'[h] + 1,
                                  Len(received') - Missed(h)')
    <3>1. ASSUME NEW h \in Handlers \ {g}, Registered(h)'
          PROVE  /\ since'[h] + Missed(h)' <= Len(received')
                 /\ handled'[h] = SubSeq(received', since'[h] + 1,
                                         Len(received') - Missed(h)')
      <4>1. Registered(h)
        BY <1>2, <3>1
      <4>2. handled'[h] = handled[h] /\ Missed(h)' = Missed(h)
        BY <2>8, <3>1
      <4>3. QED
        BY <1>1, <3>1, <4>1, <4>2 DEF HandlerOrder
    <3>2. QED
      BY <2>7, <3>1
  <2>12. QED
    BY <1>1, <2>3, <2>9, <2>10, <2>11 DEF HandlerOrder
<1>4. CASE todo = <<>> /\ run' = "receive" /\ UNCHANGED <<handled, todo>>
  <2>1. \A h \in Handlers : ~Pending(h) /\ Missed(h)' = Missed(h)
                              /\ ~Pending(h)'
    BY <1>1, <1>4 DEF Pending, Missed
  <2>2. QED
    BY <1>1, <1>2, <1>4, <2>1 DEF HandlerOrder
<1>5. QED
  BY <1>3, <1>4 DEF Handle

\* Callers and Close do not touch what the handlers got.
LEMMA NextHandlerOrder ==
    ASSUME ChannelInv, HandlerOrder, [Next]_vars
    PROVE  HandlerOrder'
<1>1. CASE Snapshot
  <2>1. /\ run = "snapshot" /\ run' = "handle" /\ todo' = handlers
        /\ UNCHANGED <<handlers, since, received, handled>>
    BY <1>1 DEF Snapshot, HandlersNow
  <2>2. \A h \in Handlers : /\ Registered(h)' <=> Registered(h)
                            /\ Pending(h)' <=> Registered(h)
                            /\ Registered(h) => Missed(h)' = Missed(h)
    BY <2>1 DEF Registered, Pending, Missed
  <2>3. QED
    BY <2>1, <2>2 DEF HandlerOrder
<1>2. CASE /\ UNCHANGED <<todo, handlers, since, received, handled>>
           /\ \/ run' = run
              \/ run = "write" /\ run' = "snapshot"
              \/ run = "receive" /\ run' = "exited"
  <2>1. \A h \in Handlers : /\ Registered(h)' <=> Registered(h)
                            /\ Pending(h)' <=> Pending(h)
                            /\ Missed(h)' = Missed(h)
    BY <1>2 DEF Registered, Pending, Missed
  <2>2. QED
    BY <1>2, <2>1 DEF HandlerOrder
<1>3. CASE Write \/ Exit
  BY <1>2, <1>3 DEF Write, AfterError, Exit
<1>4. ASSUME NEW h \in Handlers, RegisterLogHandler(h)
      PROVE  HandlerOrder'
  BY <1>4, RegisterKeepsOrder
<1>5. QED
  BY <1>1, <1>2, <1>3, <1>4, ReceiveKeepsOrder, HandleKeepsOrder
  DEF Next, Run, WriteLog, Send, ClearLogs, CloseChannel, CloseReturns, vars

\* Every handler gets each entry from its registration on, once and in the
\* order they were received, whoever registers, logs or closes meanwhile.
THEOREM HandlersServed == Spec => []HandlersMissNothing
<1>1. ChannelInv /\ HandlerOrder => HandlersMissNothing
  <2> SUFFICES ASSUME ChannelInv, HandlerOrder
               PROVE  HandlersMissNothing
    OBVIOUS
  <2>1. ASSUME NEW i \in DOMAIN handlers
        PROVE  LET h == handlers[i]
                   Missing == IF \/ /\ run \in {"write", "snapshot"}
                                    /\ since[h] < Len(received)
                                 \/ \E k \in DOMAIN todo : todo[k] = h
                              THEN 1 ELSE 0
               IN  handled[h] = SubSeq(received, since[h] + 1,
                                       Len(received) - Missing)
    <3> DEFINE h == handlers[i]
    <3>1. h \in Handlers /\ Registered(h)
      BY <2>1 DEF ChannelInv, ChannelTypes, Registered
    <3>2. /\ since[h] \in Nat /\ Len(received) \in Nat
          /\ since[h] + Missed(h) <= Len(received)
          /\ handled[h] = SubSeq(received, since[h] + 1,
                                 Len(received) - Missed(h))
      BY <3>1 DEF ChannelInv, ChannelTypes, HandlerOrder
    <3>3. run \in {"write", "snapshot"} => since[h] < Len(received)
      BY <3>2 DEF Missed
    <3>4. QED
      BY <3>2, <3>3 DEF Missed, Pending
  <2>2. QED
    BY <2>1 DEF HandlersMissNothing
<1>2. QED
  BY <1>1, ChannelInvariance, InitHandlerOrder, NextHandlerOrder, PTL DEF Spec

-----------------------------------------------------------------------------
(* The stream of entries.                                                  *)

\* Every entry run took out of the channel or will: taking one out changes
\* nothing here.
Line == received \o queue

\* No two entries have the same time stamp, sent or about to be.
UniqueStamps ==
    /\ \A i \in DOMAIN Line :
        /\ Line[i].at <= clock
        /\ \A k \in DOMAIN Line : Line[k].at = Line[i].at => k = i
    /\ \A c \in Callers : caller[c].pc = "send" =>
        /\ caller[c].entry.at <= clock
        /\ \A i \in DOMAIN Line : Line[i].at # caller[c].entry.at
        /\ \A b \in Callers :
            /\ caller[b].pc = "send"
            /\ caller[b].entry.at = caller[c].entry.at
            => b = c

\* The entries of the line: those received, then those in the channel.
LEMMA LineElements ==
    ASSUME received \in Seq(Entry), queue \in Seq(Entry)
    PROVE  /\ Line \in Seq(Entry)
           /\ Len(Line) = Len(received) + Len(queue)
           /\ Len(received) \in Nat /\ Len(queue) \in Nat
           /\ DOMAIN Line = 1..Len(Line)
           /\ \A i \in 1..Len(Line) :
                Line[i] = IF i <= Len(received) THEN received[i]
                                                ELSE queue[i - Len(received)]
BY ConcatProperties DEF Line

\* The line only grows by a send, and only Close cuts it short.
LEMMA LineSteps ==
    ASSUME ChannelTypes, ChannelTypes', [Next]_vars
    PROVE  \/ Line' = Line
           \/ \E c \in Callers : /\ Send(c)
                                 /\ ~IsClosed
                                 /\ Line' = Append(Line, caller[c].entry)
           \/ /\ CloseChannel
              /\ Len(Line') <= Len(Line)
              /\ \A i \in 1..Len(Line') : Line'[i] = Line[i]
<1>1. /\ received \in Seq(Entry) /\ queue \in Seq(Entry)
      /\ received' \in Seq(Entry) /\ queue' \in Seq(Entry)
  BY DEF ChannelTypes
<1>2. /\ Line' \in Seq(Entry)
      /\ Len(Line') = Len(received') + Len(queue')
      /\ Len(received') \in Nat /\ Len(queue') \in Nat
      /\ DOMAIN Line' = 1..Len(Line')
      /\ \A i \in 1..Len(Line') :
            Line'[i] = IF i <= Len(received') THEN received'[i]
                                              ELSE queue'[i - Len(received')]
  BY <1>1, ConcatProperties DEF Line
<1>3. ASSUME NEW c \in Callers, Send(c)
      PROVE  \/ Line' = Line
             \/ ~IsClosed /\ Line' = Append(Line, caller[c].entry)
  <2>1. CASE IsClosed
    BY <1>3, <2>1 DEF Send, Line
  <2>2. CASE ~IsClosed
    <3>1. received' = received /\ queue' = Append(queue, caller[c].entry)
      BY <1>3, <2>2 DEF Send
    <3>2. caller[c].entry \in Entry
      BY <1>3, SenderType DEF Send
    <3>3. queue' = queue \o <<caller[c].entry>>
      BY <1>1, <3>1, <3>2, AppendIsConcat
    <3>4. Line' = (received \o queue) \o <<caller[c].entry>>
      BY <1>1, <3>1, <3>2, <3>3, ConcatAssociative DEF Line
    <3>5. Line' = Append(Line, caller[c].entry)
      BY <1>1, <3>2, <3>4, LineElements, AppendIsConcat DEF Line
    <3>6. QED
      BY <2>2, <3>5
  <2>3. QED
    BY <2>1, <2>2
<1>4. ASSUME Receive
      PROVE  Line' = Line
  <2>1. /\ queue # <<>>
        /\ received' = Append(received, Head(queue))
        /\ queue' = Tail(queue)
    BY <1>4 DEF Receive
  <2>2. /\ Head(queue) = queue[1] /\ Head(queue) \in Entry
        /\ Len(queue') = Len(queue) - 1
        /\ \A i \in 1..Len(queue') : queue'[i] = queue[i + 1]
    BY <1>1, <2>1, HeadTailProperties
  <2>3. /\ Len(received') = Len(received) + 1
        /\ \A i \in 1..Len(received) : received'[i] = received[i]
        /\ received'[Len(received) + 1] = queue[1]
    BY <1>1, <2>1, <2>2, AppendProperties
  <2>4. /\ Line \in Seq(Entry)
        /\ Len(Line) = Len(received) + Len(queue)
        /\ Len(received) \in Nat /\ Len(queue) \in Nat
        /\ \A i \in 1..Len(Line) :
                Line[i] = IF i <= Len(received) THEN received[i]
                                                ELSE queue[i - Len(received)]
    BY <1>1, LineElements
  <2>5. Len(Line') = Len(Line)
    BY <1>2, <2>2, <2>3, <2>4
  <2>6. ASSUME NEW i \in 1..Len(Line)
        PROVE  Line'[i] = Line[i]
    <3>1. CASE i <= Len(received)
      BY <1>2, <2>3, <2>4, <2>5, <3>1
    <3>2. CASE i = Len(received) + 1
      BY <1>2, <2>2, <2>3, <2>4, <2>5, <3>2
    <3>3. CASE i > Len(received) + 1
      <4> DEFINE k == i - Len(received) - 1
      <4>1. k \in 1..Len(queue') /\ i - Len(received) = k + 1
        BY <2>2, <2>4, <3>3
      <4>2. Line'[i] = queue'[k]
        BY <1>2, <2>3, <2>4, <2>5, <3>3
      <4>3. Line[i] = queue[k + 1]
        BY <2>4, <3>3, <4>1
      <4>4. QED
        BY <2>2, <4>1, <4>2, <4>3
    <3>4. QED
      BY <2>4, <3>1, <3>2, <3>3
  <2>7. QED
    BY <1>2, <2>4, <2>5, <2>6, SeqEqual
<1>5. ASSUME CloseChannel
      PROVE  /\ Len(Line') <= Len(Line)
             /\ \A i \in 1..Len(Line') : Line'[i] = Line[i]
  <2>1. received' = received /\ queue' = Buffered
    BY <1>5 DEF CloseChannel, KeptByClose
  <2>2. /\ Len(queue') <= Len(queue)
        /\ \A i \in 1..Len(queue') : queue'[i] = queue[i]
    BY <1>1, <1>2, <2>1, BufferedIsPrefix
  <2>3. Len(Line') <= Len(Line)
    BY <1>1, <1>2, <2>1, <2>2, LineElements
  <2>4. ASSUME NEW i \in 1..Len(Line')
        PROVE  Line'[i] = Line[i]
    <3>1. i \in 1..Len(Line)
      BY <1>1, <1>2, <2>3, LineElements
    <3>2. CASE i <= Len(received)
      BY <1>1, <1>2, <2>1, <3>1, <3>2, LineElements
    <3>3. CASE i > Len(received)
      <4>1. i - Len(received) \in 1..Len(queue')
        BY <1>1, <1>2, <2>1, <3>3
      <4>2. Line'[i] = queue'[i - Len(received)]
        BY <1>2, <2>1, <3>3
      <4>3. Line[i] = queue[i - Len(received)]
        BY <1>1, <3>1, <3>3, LineElements
      <4>4. QED
        BY <2>2, <4>1, <4>2, <4>3
    <3>4. QED
      BY <1>1, <3>1, <3>2, <3>3, LineElements
  <2>5. QED
    BY <2>3, <2>4
<1>6. CASE UNCHANGED <<received, queue>>
  BY <1>6 DEF Line
<1>7. QED
  BY <1>3, <1>4, <1>5, <1>6
  DEF Next, Run, WriteLog, RegisterLogHandler, ClearLogs, Write, Snapshot,
      Handle, Exit, CloseReturns, vars

\* Time stamps are given once, by the clock, and go with their entry from the
\* caller to the end of the line.
LEMMA NextUniqueStamps ==
    ASSUME ChannelTypes, ChannelTypes', UniqueStamps, [Next]_vars
    PROVE  UniqueStamps'
<1>1. /\ received \in Seq(Entry) /\ queue \in Seq(Entry) /\ clock \in Nat
      /\ received' \in Seq(Entry) /\ queue' \in Seq(Entry)
      /\ caller \in [Callers -> Caller]
  BY CapacityAssumption DEF ChannelTypes
<1>2. /\ Line \in Seq(Entry) /\ DOMAIN Line = 1..Len(Line) /\ Len(Line) \in Nat
      /\ Line' \in Seq(Entry) /\ DOMAIN Line' = 1..Len(Line')
      /\ Len(Line') \in Nat
  BY <1>1, LineElements, ConcatProperties DEF Line
<1>3. ASSUME clock' = clock,
             \A c \in Callers : caller'[c].pc = "send" =>
                                    caller'[c] = caller[c],
             Len(Line') <= Len(Line),
             \A i \in 1..Len(Line') : Line'[i] = Line[i]
      PROVE  UniqueStamps'
  <2>1. \A i \in DOMAIN Line' : i \in DOMAIN Line /\ Line'[i] = Line[i]
    BY <1>2, <1>3
  <2>2. QED
    BY <1>3, <2>1 DEF UniqueStamps
<1>4. ASSUME NEW c \in Callers, NEW l \in Levels, WriteLog(c, l)
      PROVE  UniqueStamps'
  <2>1. /\ clock' = clock + 1 /\ Line' = Line
        /\ caller[c].pc # "send"
        /\ caller'[c].pc = "send" /\ caller'[c].entry.at = clock + 1
        /\ \A b \in Callers \ {c} : caller'[b] = caller[b]
    <3>1. caller' = [caller EXCEPT ![c] =
                        [pc |-> "send", entry |-> NewLogEntry(c, l)]]
      BY <1>4 DEF WriteLog
    <3>2. NewLogEntry(c, l).at = clock + 1
      BY DEF NewLogEntry
    <3>3. QED
      BY <1>1, <1>4, <3>1, <3>2 DEF WriteLog, Line, Idle
  <2>2. \A i \in DOMAIN Line : Line[i].at \in Nat
    <3>1. \A i \in DOMAIN Line : Line[i] \in Entry
      BY <1>2
    <3>2. QED
      BY <3>1, CapacityAssumption DEF Entry
  <2>3. \A b \in Callers : caller[b].pc = "send" => caller[b].entry.at \in Nat
    BY SenderType, CapacityAssumption DEF Entry
  <2>4. ASSUME NEW b \in Callers, caller'[b].pc = "send"
        PROVE  /\ caller'[b].entry.at <= clock'
               /\ \A i \in DOMAIN Line : Line[i].at # caller'[b].entry.at
               /\ \A d \in Callers :
                    /\ caller'[d].pc = "send"
                    /\ caller'[d].entry.at = caller'[b].entry.at
                    => d = b
    <3>1. CASE b = c
      BY <1>1, <2>1, <2>2, <2>3, <3>1 DEF UniqueStamps
    <3>2. CASE b # c
      BY <1>1, <2>1, <2>2, <2>3, <2>4, <3>2 DEF UniqueStamps
    <3>3. QED
      BY <3>1, <3>2
  <2>5. ASSUME NEW i \in DOMAIN Line
        PROVE  /\ Line[i].at <= clock'
               /\ \A k \in DOMAIN Line : Line[k].at = Line[i].at => k = i
    BY <1>1, <2>1, <2>2 DEF UniqueStamps
  <2>6. QED
    BY <2>1, <2>4, <2>5 DEF UniqueStamps
<1>5. ASSUME NEW c \in Callers, Send(c)
      PROVE  UniqueStamps'
  <2>1. /\ caller'[c].pc # "send"
        /\ \A b \in Callers \ {c} : caller'[b] = caller[b]
        /\ clock' = clock
    <3>1. PICK next \in {Idle, [pc |-> "blocked"]} :
            caller' = [caller EXCEPT ![c] = next]
      BY <1>5 DEF Send
    <3>2. next.pc # "send"
      BY DEF Idle
    <3>3. QED
      BY <1>1, <1>5, <3>1, <3>2 DEF Send
  <2>2. CASE Line' = Line
    BY <1>2, <1>3, <2>1, <2>2
  <2>3. CASE Line' # Line
    <3>1. ~IsClosed /\ caller[c].entry \in Entry /\ caller[c].pc = "send"
      BY <1>5, <2>3, SenderType DEF Send, Line
    <3>2. Line' = Append(Line, caller[c].entry)
      <4>1. ASSUME NEW b \in Callers, Send(b)
            PROVE  b = c
        <5>1. queue' # queue
          BY <1>5, <2>3 DEF Send, Line
        <5>2. caller'[b].pc # "send" /\ caller[b].pc = "send"
          <6>1. PICK next \in {Idle, [pc |-> "blocked"]} :
                  caller' = [caller EXCEPT ![b] = next]
            BY <4>1 DEF Send
          <6>2. next.pc # "send"
            BY DEF Idle
          <6>3. QED
            BY <1>1, <4>1, <6>1, <6>2 DEF Send
        <5>3. QED
          BY <2>1, <5>2
      <4>2. ~CloseChannel
        BY <1>5, <3>1 DEF CloseChannel, Send, IsClosed
      <4>3. QED
        BY <2>3, <4>1, <4>2, LineSteps
    <3>3. /\ Len(Line') = Len(Line) + 1
          /\ \A i \in 1..Len(Line) : Line'[i] = Line[i]
          /\ Line'[Len(Line) + 1] = caller[c].entry
      BY <1>2, <3>1, <3>2, AppendProperties
    <3>4. ASSUME NEW i \in DOMAIN Line'
          PROVE  /\ Line'[i].at <= clock
                 /\ \A k \in DOMAIN Line' :
                      Line'[k].at = Line'[i].at => k = i
                 /\ \A b \in Callers \ {c} : caller[b].pc = "send" =>
                        Line'[i].at # caller[b].entry.at
      <4>1. CASE i \in DOMAIN Line
        BY <1>2, <3>1, <3>3, <4>1 DEF UniqueStamps
      <4>2. CASE i = Len(Line) + 1
        BY <1>2, <3>1, <3>3, <4>2 DEF UniqueStamps
      <4>3. QED
        BY <1>2, <3>3, <4>1, <4>2
    <3>5. QED
      BY <2>1, <3>4 DEF UniqueStamps
  <2>4. QED
    BY <2>2, <2>3
<1>6. CASE CloseChannel
  <2>1. clock' = clock /\ \A c \in Callers : caller'[c].pc = "send" =>
                                                caller'[c] = caller[c]
    BY <1>1, <1>6 DEF CloseChannel, Idle
  <2>2. ASSUME NEW c \in Callers, Send(c), ~IsClosed
        PROVE  FALSE
    BY <1>6, <2>2 DEF CloseChannel, Send, IsClosed
  <2>3. /\ Len(Line') <= Len(Line)
        /\ \A i \in 1..Len(Line') : Line'[i] = Line[i]
    <3>1. CASE Line' = Line
      BY <1>2, <3>1
    <3>2. CASE Line' # Line
      BY <2>2, <3>2, LineSteps
    <3>3. QED
      BY <3>1, <3>2
  <2>4. QED
    BY <1>3, <2>1, <2>3
<1>7. CASE Receive
  <2>1. clock' = clock /\ \A c \in Callers : caller'[c].pc = "send" =>
                                                caller'[c] = caller[c]
    BY <1>1, <1>7 DEF Receive, Idle
  <2>2. received' # received
    <3>1. received' = Append(received, Head(queue)) /\ Head(queue) \in Entry
      BY <1>1, <1>7, HeadTailProperties DEF Receive
    <3>2. Len(received') = Len(received) + 1 /\ Len(received) \in Nat
      BY <1>1, <3>1, AppendProperties
    <3>3. QED
      BY <3>2
  <2>3. Line' = Line
    BY <2>2, LineSteps DEF Send, CloseChannel
  <2>4. QED
    BY <1>2, <1>3, <2>1, <2>3
<1>8. CASE UNCHANGED <<clock, caller, received, queue>>
  BY <1>8 DEF UniqueStamps, Line
<1>9. QED
  BY <1>4, <1>5, <1>6, <1>7, <1>8
  DEF Next, Run, RegisterLogHandler, ClearLogs, Write, Snapshot, Handle, Exit,
      CloseReturns, vars

\* The stream of LogStream, as the module's refinement mapping gives it.
Accepted == received \o Buffered

\* What was received and what is in the buffer is the beginning of the line.
LEMMA AcceptedElements ==
    ASSUME NEW r \in Seq(Entry), NEW q \in Seq(Entry)
    PROVE  LET n == IF Len(q) < Capacity THEN Len(q) ELSE Capacity
               a == r \o SubSeq(q, 1, n)
           IN  /\ a \in Seq(Entry)
               /\ Len(a) = Len(r) + n
               /\ n \in 0..Len(q) /\ Len(r) \in Nat
               /\ \A i \in 1..Len(a) : a[i] = (r \o q)[i]
<1> DEFINE n == IF Len(q) < Capacity THEN Len(q) ELSE Capacity
           b == SubSeq(q, 1, n)
           a == r \o b
<1>1. n \in 0..Len(q) /\ n \in Nat /\ Len(q) \in Nat /\ Len(r) \in Nat
  BY CapacityAssumption
<1>2. \A i \in 1..n : q[i] \in Entry
  BY <1>1
<1>3. /\ b \in Seq(Entry)
      /\ Len(b) = n
      /\ \A i \in 1..n : b[i] = q[i]
  BY <1>1, <1>2, SubSeqProperties
<1> HIDE DEF b
<1>4. /\ a \in Seq(Entry)
      /\ Len(a) = Len(r) + n
      /\ \A i \in 1..Len(a) : a[i] = IF i <= Len(r) THEN r[i]
                                                    ELSE b[i - Len(r)]
  <2>1. /\ a \in Seq(Entry)
        /\ Len(a) = Len(r) + Len(b)
        /\ \A i \in 1..(Len(r) + Len(b)) : a[i] = IF i <= Len(r) THEN r[i]
                                                       ELSE b[i - Len(r)]
    BY <1>3, ConcatProperties
  <2>2. QED
    BY <1>3, <2>1
<1>5. \A i \in 1..(Len(r) + Len(q)) :
        (r \o q)[i] = IF i <= Len(r) THEN r[i] ELSE q[i - Len(r)]
  BY ConcatProperties
<1>6. ASSUME NEW i \in 1..Len(a)
      PROVE  a[i] = (r \o q)[i]
  <2>1. i \in 1..(Len(r) + Len(q))
    BY <1>1, <1>4
  <2>2. CASE i <= Len(r)
    BY <1>4, <1>5, <2>1, <2>2
  <2>3. CASE i > Len(r)
    <3>1. i - Len(r) \in 1..n
      BY <1>1, <1>4, <2>3
    <3>2. a[i] = b[i - Len(r)] /\ (r \o q)[i] = q[i - Len(r)]
      BY <1>1, <1>4, <1>5, <2>1, <2>3
    <3>3. QED
      BY <1>3, <3>1, <3>2
  <2>4. QED
    BY <1>1, <2>1, <2>2, <2>3
<1>7. QED
  BY <1>1, <1>4, <1>6 DEF b

\* A sequence one longer than its beginning is that beginning and one more.
LEMMA GrowsByOne ==
    ASSUME NEW S, NEW a \in Seq(S), NEW b \in Seq(S), Len(b) = Len(a) + 1,
           \A i \in 1..Len(a) : b[i] = a[i]
    PROVE  b = Append(a, b[Len(b)]) /\ b[Len(b)] \in S
<1> DEFINE e == b[Len(b)]
           c == Append(a, e)
<1>1. Len(a) \in Nat /\ e \in S
  BY LenProperties, ElementOfSeq
<1>2. /\ c \in Seq(S)
      /\ Len(c) = Len(a) + 1
      /\ \A i \in 1..Len(a) : c[i] = a[i]
      /\ c[Len(a) + 1] = e
  BY <1>1, AppendProperties
<1>3. \A i \in 1..Len(b) : b[i] = c[i]
  BY <1>1, <1>2
<1>4. QED
  BY <1>1, <1>2, <1>3, SeqEqual

\* How many entries are accepted: those received and those in the buffer.
Room == IF Len(queue) < Capacity THEN Len(queue) ELSE Capacity

\* Accepted, now and after a step, is the beginning of the line.
LEMMA AcceptedIsPrefix ==
    ASSUME ChannelTypes, ChannelTypes'
    PROVE  /\ Accepted \in Seq(Entry) /\ Accepted' \in Seq(Entry)
           /\ Len(Accepted) = Len(received) + Room
           /\ Len(Accepted') = Len(received') + Room'
           /\ Len(Accepted) \in Nat /\ Len(Accepted') \in Nat
           /\ Room \in 0..Len(queue) /\ Room' \in 0..Len(queue')
           /\ \A i \in 1..Len(Accepted) : Accepted[i] = Line[i]
           /\ \A i \in 1..Len(Accepted') : Accepted'[i] = Line'[i]
<1>1. /\ received \in Seq(Entry) /\ queue \in Seq(Entry)
      /\ received' \in Seq(Entry) /\ queue' \in Seq(Entry)
  BY DEF ChannelTypes
<1>2. /\ Accepted \in Seq(Entry)
      /\ Len(Accepted) = Len(received) + Room
      /\ Room \in 0..Len(queue)
      /\ \A i \in 1..Len(Accepted) : Accepted[i] = Line[i]
  BY <1>1, AcceptedElements DEF Accepted, Buffered, Room, Line
<1>3. /\ Accepted' \in Seq(Entry)
      /\ Len(Accepted') = Len(received') + Room'
      /\ Room' \in 0..Len(queue')
      /\ \A i \in 1..Len(Accepted') : Accepted'[i] = Line'[i]
  BY <1>1, AcceptedElements DEF Accepted, Buffered, Room, Line
<1>4. Len(Accepted) \in Nat /\ Len(Accepted') \in Nat
  BY <1>2, <1>3
<1>5. QED
  BY <1>2, <1>3, <1>4

\* When the buffer takes one more entry, the stream accepts it.
LEMMA AcceptStep ==
    ASSUME ChannelTypes, ChannelTypes', UniqueStamps',
           Len(Accepted') = Len(Accepted) + 1,
           \A i \in 1..Len(Accepted) : Line'[i] = Line[i]
    PROVE  \E e \in Entry : /\ \A i \in DOMAIN Accepted : Accepted[i] # e
                            /\ Accepted' = Append(Accepted, e)
<1> DEFINE n == Len(Accepted')
           e == Accepted'[n]
<1>1. \A i \in 1..Len(Accepted) : Accepted'[i] = Accepted[i]
  BY AcceptedIsPrefix
<1>2. Accepted' = Append(Accepted, e) /\ e \in Entry
  BY <1>1, AcceptedIsPrefix, GrowsByOne
<1>3. ASSUME NEW i \in DOMAIN Accepted
      PROVE  Accepted[i] # e
  <2>1. i \in 1..Len(Accepted) /\ i \in 1..n /\ n \in 1..n /\ i # n
    BY AcceptedIsPrefix
  <2>2. n <= Len(received') + Len(queue')
    BY AcceptedIsPrefix DEF ChannelTypes
  <2>3. n \in DOMAIN Line' /\ i \in DOMAIN Line'
    <3>1. Line' \in Seq(Entry) /\ Len(Line') = Len(received') + Len(queue')
      BY ConcatProperties DEF Line, ChannelTypes
    <3>2. QED
      BY <2>1, <2>2, <3>1, AcceptedIsPrefix
  <2>4. Line'[i].at # Line'[n].at
    BY <2>1, <2>3 DEF UniqueStamps
  <2>5. Accepted'[i] = Line'[i] /\ e = Line'[n]
    BY <2>1, AcceptedIsPrefix
  <2>6. QED
    BY <1>1, <2>1, <2>4, <2>5
<1>4. QED
  BY <1>2, <1>3

\* When it does not, nothing happens to the stream.
LEMMA AcceptedSame ==
    ASSUME ChannelTypes, ChannelTypes', Len(Accepted') = Len(Accepted),
           \A i \in 1..Len(Accepted) : Line'[i] = Line[i]
    PROVE  Accepted' = Accepted
<1>1. \A i \in 1..Len(Accepted') : Accepted'[i] = Accepted[i]
  BY AcceptedIsPrefix
<1>2. QED
  BY <1>1, AcceptedIsPrefix, SeqEqual

\* The steps of LogStream, in terms of what implements its variables.
StreamAccept == /\ ~IsClosed
                /\ \E e \in Entry :
                    /\ \A i \in DOMAIN Accepted : Accepted[i] # e
                    /\ Accepted' = Append(Accepted, e)
                /\ Processed' = Processed /\ (IsClosed' <=> IsClosed)

StreamProcess == /\ Len(Processed) < Len(Accepted)
                 /\ Processed' = Append(Processed, Accepted[Len(Processed) + 1])
                 /\ Accepted' = Accepted /\ (IsClosed' <=> IsClosed)

StreamShut == /\ IsClosed'
              /\ Accepted' = Accepted /\ Processed' = Processed

StreamSame == /\ Accepted' = Accepted /\ Processed' = Processed
              /\ (IsClosed' <=> IsClosed)

\* A send fills the buffer, or waits behind it without being accepted.
LEMMA SendStreams ==
    ASSUME ChannelInv, ChannelInv', UniqueStamps', [Next]_vars,
           NEW c \in Callers, Send(c)
    PROVE  StreamAccept \/ StreamSame
<1>1. ChannelTypes /\ ChannelTypes'
  BY DEF ChannelInv
<1>2. /\ Processed' = Processed /\ (IsClosed' <=> IsClosed)
      /\ received' = received
  BY DEF Send, Processed, IsClosed
<1>3. CASE IsClosed
  <2>1. queue' = queue
    BY <1>3 DEF Send
  <2>2. Accepted' = Accepted
    BY <1>2, <2>1 DEF Accepted, Buffered
  <2>3. QED
    BY <1>2, <2>2 DEF StreamSame
<1>4. CASE ~IsClosed
  <2>1. queue' = Append(queue, caller[c].entry) /\ caller[c].entry \in Entry
    BY <1>1, <1>4, SenderType DEF Send
  <2>2. /\ Len(queue') = Len(queue) + 1
        /\ Len(queue) \in Nat /\ Len(received) \in Nat
        /\ \A i \in 1..Len(queue) : queue'[i] = queue[i]
    BY <1>1, <2>1, AppendProperties DEF ChannelTypes
  <2>3. \A i \in 1..Len(Accepted) : Line'[i] = Line[i]
    <3> SUFFICES ASSUME NEW i \in 1..Len(Accepted)
                 PROVE  Line'[i] = Line[i]
      OBVIOUS
    <3>1. i \in 1..(Len(received) + Len(queue))
      BY <1>1, <2>2, AcceptedIsPrefix
    <3>2. Line[i] = IF i <= Len(received) THEN received[i]
                                          ELSE queue[i - Len(received)]
      BY <1>1, <3>1, ConcatProperties DEF ChannelTypes, Line
    <3>3. i \in 1..(Len(received') + Len(queue'))
      BY <1>2, <2>2, <3>1
    <3>4. Line'[i] = IF i <= Len(received') THEN received'[i]
                                            ELSE queue'[i - Len(received')]
      BY <1>1, <3>3, ConcatProperties DEF ChannelTypes, Line
    <3>5. i > Len(received) => i - Len(received) \in 1..Len(queue)
      BY <2>2, <3>1
    <3>6. QED
      BY <1>2, <2>2, <3>1, <3>2, <3>4, <3>5
  <2>4. CASE Len(queue) < Capacity
    <3>1. Len(Accepted') = Len(Accepted) + 1
      BY <1>1, <1>2, <2>2, <2>4, AcceptedIsPrefix, CapacityAssumption DEF Room
    <3>2. QED
      BY <1>1, <1>2, <1>4, <2>3, <3>1, AcceptStep DEF StreamAccept
  <2>5. CASE Len(queue) >= Capacity
    <3>1. Len(Accepted') = Len(Accepted)
      BY <1>1, <1>2, <2>2, <2>5, AcceptedIsPrefix, CapacityAssumption DEF Room
    <3>2. QED
      BY <1>1, <1>2, <2>3, <3>1, AcceptedSame DEF StreamSame
  <2>6. QED
    BY <2>2, <2>4, <2>5, CapacityAssumption
<1>5. QED
  BY <1>3, <1>4

\* Taking an entry out makes room for the first one behind the buffer.
LEMMA ReceiveStreams ==
    ASSUME ChannelInv, ChannelInv', UniqueStamps', [Next]_vars, Receive
    PROVE  StreamAccept \/ StreamSame
<1>1. ChannelTypes /\ ChannelTypes'
  BY DEF ChannelInv
<1>2. /\ queue # <<>> /\ queue' = Tail(queue)
      /\ received' = Append(received, Head(queue))
      /\ run = "receive" /\ run' = "write"
      /\ (IsClosed' <=> IsClosed)
  BY DEF Receive, IsClosed
<1>3. /\ Head(queue) \in Entry
      /\ Len(queue') = Len(queue) - 1 /\ Len(queue) \in Nat
  BY <1>1, <1>2, HeadTailProperties DEF ChannelTypes
<1>4. /\ Len(received') = Len(received) + 1 /\ Len(received) \in Nat
      /\ \A i \in 1..Len(received) : received'[i] = received[i]
  BY <1>1, <1>2, <1>3, AppendProperties DEF ChannelTypes
<1>5. Line' = Line
  BY <1>1, <1>2, <1>4, LineSteps DEF Send, CloseChannel
<1>6. Processed' = Processed
  <2> DEFINE p == SubSeq(received', 1, Len(received') - 1)
  <2>1. Processed' = p /\ Processed = received
    BY <1>2 DEF Processed
  <2>2. \A i \in 1..Len(received) : received'[i] \in Entry
    BY <1>1, <1>4 DEF ChannelTypes
  <2>3. /\ p \in Seq(Entry) /\ Len(p) = Len(received)
        /\ \A i \in 1..Len(received) : p[i] = received'[i]
    BY <1>4, <2>2, SubSeqProperties
  <2>4. p = received
    BY <1>1, <1>4, <2>3, SeqEqual DEF ChannelTypes
  <2>5. QED
    BY <2>1, <2>4
<1>7. CASE Len(queue) > Capacity
  <2>1. Len(Accepted') = Len(Accepted) + 1
    BY <1>1, <1>3, <1>4, <1>7, AcceptedIsPrefix, CapacityAssumption DEF Room
  <2>2. ~IsClosed
    BY <1>3, <1>7, CapacityAssumption DEF ChannelInv, Closing
  <2>3. QED
    BY <1>1, <1>2, <1>5, <1>6, <2>1, <2>2, AcceptStep DEF StreamAccept
<1>8. CASE Len(queue) <= Capacity
  <2>1. Len(Accepted') = Len(Accepted)
    <3>1. Room = Len(queue) /\ Room' = Len(queue) - 1
      BY <1>3, <1>8, CapacityAssumption DEF Room
    <3>2. QED
      BY <1>1, <1>3, <1>4, <3>1, AcceptedIsPrefix
  <2>2. QED
    BY <1>1, <1>2, <1>5, <1>6, <2>1, AcceptedSame DEF StreamSame
<1>9. QED
  BY <1>3, <1>7, <1>8, CapacityAssumption

\* run is done with the backend: the entry is processed.
LEMMA WriteStreams ==
    ASSUME ChannelInv, Write
    PROVE  StreamProcess
<1>1. /\ received \in Seq(Entry) /\ received # <<>> /\ queue \in Seq(Entry)
      /\ run = "write" /\ run' = "snapshot"
      /\ received' = received /\ queue' = queue /\ closing' = closing
  BY DEF ChannelInv, ChannelTypes, HasCurrent, Write, AfterError
<1> DEFINE n == Len(received) - 1
           p == SubSeq(received, 1, n)
<1>2. n \in Nat /\ n + 1 = Len(received) /\ n + 1 \in 1..Len(received)
  BY <1>1, EmptySeq
<1>3. Processed = p /\ Processed' = received
  BY <1>1 DEF Processed
<1>4. /\ p \in Seq(Entry) /\ Len(p) = n
      /\ \A i \in 1..n : p[i] = received[i]
  <2>1. \A i \in 1..n : received[i] \in Entry
    BY <1>1, <1>2
  <2>2. QED
    BY <1>2, <2>1, SubSeqProperties
<1>5. received = Append(p, received[n + 1])
  BY <1>1, <1>2, <1>4, GrowsByOne
<1>6. Accepted' = Accepted /\ (IsClosed' <=> IsClosed)
  BY <1>1 DEF Accepted, Buffered, IsClosed
<1>7. /\ Len(Accepted) >= Len(received)
      /\ Accepted[n + 1] = received[n + 1]
  <2>1. /\ Len(Accepted) = Len(received) + Room
        /\ Room \in 0..Len(queue)
        /\ \A i \in 1..Len(Accepted) : Accepted[i] = Line[i]
    BY <1>1, AcceptedElements DEF Accepted, Buffered, Room, Line
  <2>2. n + 1 \in 1..Len(Accepted)
    BY <1>1, <1>2, <2>1
  <2>3. Line[n + 1] = received[n + 1]
    BY <1>1, <1>2, LineElements
  <2>4. QED
    BY <1>1, <1>2, <2>1, <2>2, <2>3
<1>8. QED
  BY <1>2, <1>3, <1>4, <1>5, <1>6, <1>7, LineElements DEF StreamProcess

\* Close keeps what was accepted.
LEMMA CloseStreams ==
    ASSUME ChannelInv, ChannelInv', CloseChannel
    PROVE  StreamShut
<1>1. /\ queue \in Seq(Entry) /\ queue' = Buffered
      /\ received' = received /\ run' = run
      /\ IsClosed'
  BY DEF ChannelInv, ChannelTypes, CloseChannel, KeptByClose, IsClosed
<1>2. Buffered \in Seq(Entry) /\ Len(Buffered) <= Capacity
      /\ Len(Buffered) \in Nat
  BY <1>1, BufferedIsPrefix, CapacityAssumption
<1>3. Buffered' = SubSeq(queue', 1, Len(queue'))
  BY <1>1, <1>2, CapacityAssumption DEF Buffered
<1>4. Buffered' = Buffered
  BY <1>1, <1>2, <1>3, SubSeqFull
<1>5. QED
  BY <1>1, <1>4 DEF StreamShut, Accepted, Processed

\* Every step on the channel is a step of the stream or none.
LEMMA StreamStep ==
    ASSUME ChannelInv, ChannelInv', UniqueStamps', [Next]_vars
    PROVE  StreamAccept \/ StreamProcess \/ StreamShut \/ StreamSame
<1>1. ASSUME NEW c \in Callers, Send(c)
      PROVE  StreamAccept \/ StreamSame
  BY <1>1, SendStreams
<1>2. CASE Receive
  BY <1>2, ReceiveStreams
<1>3. CASE Write
  BY <1>3, WriteStreams
<1>4. CASE CloseChannel
  BY <1>4, CloseStreams
<1>5. CASE /\ UNCHANGED <<received, queue>>
           /\ IsClosed' <=> IsClosed
           /\ run' = run \/ (run # "write" /\ run' # "write")
  BY <1>5 DEF StreamSame, Accepted, Buffered, Processed
<1>6. CASE Snapshot \/ Handle \/ Exit
  BY <1>5, <1>6 DEF Snapshot, Handle, Exit, IsClosed
<1>7. CASE CloseReturns
  BY <1>5, <1>7 DEF CloseReturns, IsClosed
<1>8. QED
  BY <1>1, <1>2, <1>3, <1>4, <1>5, <1>6, <1>7
  DEF Next, Run, WriteLog, RegisterLogHandler, ClearLogs, IsClosed, vars

\* The channel and run implement the log stream: what was accepted is
\* processed once, in order, and not lost when the channel is closed.
THEOREM ImplementsLogStream == Spec => StreamSpec
<1>1. Init => UniqueStamps
  BY DEF Init, UniqueStamps, Line, Idle
<1>2. Init => Stream!Init
  BY CapacityAssumption
  DEF Init, Stream!Init, Buffered, IsClosed, Processed
<1>3. ChannelInv /\ ChannelInv' /\ UniqueStamps /\ [Next]_vars => UniqueStamps'
  BY NextUniqueStamps DEF ChannelInv
<1>4. /\ ChannelInv /\ ChannelInv' /\ UniqueStamps' /\ [Next]_vars
      => [Stream!Next]_Stream!vars
  <2> SUFFICES ASSUME ChannelInv, ChannelInv', UniqueStamps', [Next]_vars
               PROVE  [Stream!Next]_Stream!vars
    OBVIOUS
  <2>1. CASE StreamAccept
    BY <2>1 DEF StreamAccept, Accepted, Processed, Stream!Next, Stream!Accept
  <2>2. CASE StreamProcess
    BY <2>2 DEF StreamProcess, Accepted, Processed, Stream!Next,
                Stream!Process
  <2>3. CASE StreamShut
    BY <2>3 DEF StreamShut, Accepted, Processed, Stream!Next, Stream!Shut
  <2>4. CASE StreamSame
    BY <2>4 DEF StreamSame, Accepted, Processed, Stream!vars
  <2>5. QED
    BY <2>1, <2>2, <2>3, <2>4, StreamStep
<1>5. QED
  BY <1>1, <1>2, <1>3, <1>4, ChannelInvariance, PTL
  DEF Spec, StreamSpec, Stream!Spec

-----------------------------------------------------------------------------
(* What the backend has stored.                                            *)

\* The part of TypeOK that is about the backend.
StoreTypes ==
    /\ stored \in Seq(Entry)
    /\ purge \in [before : ClearTimes \cup {0}, late : SUBSET Entry]

\* What is on its way are entries.
LEMMA OnTheirWayTypes ==
    ASSUME ChannelTypes
    PROVE  OnTheirWay \subseteq Entry
<1>1. \A c \in Callers : caller[c].pc = "send" => caller[c].entry \in Entry
  BY SenderType
<1>2. /\ \A i \in DOMAIN queue : queue[i] \in Entry
      /\ \A i \in DOMAIN received : received[i] \in Entry
  BY DEF ChannelTypes
<1>3. QED
  BY <1>1, <1>2 DEF OnTheirWay

\* While run writes, its entry is the last of those received.
LEMMA CurrentType ==
    ASSUME ChannelTypes, HasCurrent, run \in {"write", "snapshot", "handle"}
    PROVE  /\ Current \in Entry /\ Len(received) \in 1..Len(received)
           /\ Len(received) \in DOMAIN received
<1>1. received \in Seq(Entry) /\ received # <<>>
  BY DEF ChannelTypes, HasCurrent
<1>2. Len(received) \in Nat /\ Len(received) # 0
  BY <1>1, EmptySeq
<1>3. QED
  BY <1>1, <1>2 DEF Current

\* The backend keeps its types.
LEMMA NextStoreTypes ==
    ASSUME ChannelTypes, HasCurrent, StoreTypes, [Next]_vars
    PROVE  StoreTypes'
<1>1. ASSUME NEW before \in ClearTimes, ClearLogs(before)
      PROVE  StoreTypes'
  <2> DEFINE keep == {e \in Entry : KeptByClear(e, before)}
  <2>1. stored' = Filter(stored, keep)
    BY <1>1 DEF ClearLogs
  <2>2. Filter(stored, keep) \in Seq(Entry \cap keep)
    BY FilterType DEF StoreTypes
  <2> HIDE DEF keep
  <2>3. stored' \in Seq(Entry)
    <3>1. Entry \cap keep \subseteq Entry
      OBVIOUS
    <3>2. QED
      BY <2>1, <2>2, <3>1, SeqMonotonic
  <2>4. {e \in OnTheirWay : e.at < before} \subseteq Entry
    BY OnTheirWayTypes
  <2>5. purge' \in [before : ClearTimes \cup {0}, late : SUBSET Entry]
    BY <1>1, <2>4 DEF ClearLogs
  <2>6. QED
    BY <2>3, <2>5 DEF StoreTypes
<1>2. ASSUME Write
      PROVE  StoreTypes'
  <2>1. Current \in Entry
    BY <1>2, CurrentType DEF Write
  <2>2. Append(stored, Current) \in Seq(Entry)
    BY <2>1, AppendProperties DEF StoreTypes
  <2>3. stored' \in Seq(Entry) /\ purge' = purge
    BY <1>2, <2>2 DEF Write, StoreTypes
  <2>4. QED
    BY <2>3 DEF StoreTypes
<1>3. CASE UNCHANGED <<stored, purge>>
  BY <1>3 DEF StoreTypes
<1>4. QED
  BY <1>1, <1>2, <1>3
  DEF Next, Run, WriteLog, Send, RegisterLogHandler, CloseChannel, Receive,
      Snapshot, Handle, Exit, CloseReturns, vars

\* Every variable of the manager keeps its type: what is on its way and what
\* is stored has the time stamp and the level it was logged with.
THEOREM LogTypes == Spec => []TypeOK
<1>1. Init => StoreTypes
  BY EmptySeq DEF Init, StoreTypes
<1>2. ChannelInv /\ StoreTypes /\ [Next]_vars => StoreTypes'
  BY NextStoreTypes DEF ChannelInv
<1>3. ChannelInv /\ StoreTypes => TypeOK
  BY DEF ChannelInv, ChannelTypes, StoreTypes, TypeOK
<1>4. QED
  BY <1>1, <1>2, <1>3, ChannelInvariance, PTL DEF Spec

-----------------------------------------------------------------------------
(* The order of one caller's entries.                                      *)

\* Entries of one caller, the earlier first.
CallerOrder == {p \in Entry \X Entry : p[1].by = p[2].by => p[1].at < p[2].at}

\* A caller's entries are in the line in the order it stamped them, and the
\* one it is about to send is younger than they are.
OwnOrder ==
    /\ Ordered(Line, CallerOrder)
    /\ \A c \in Callers : caller[c].pc = "send" =>
            \A x \in Range(Line) : x.by = c => x.at < caller[c].entry.at

\* The backend has entries run is done with, in the order of each caller.
StoredInOrder ==
    /\ Ordered(stored, CallerOrder)
    /\ \A x \in Range(stored) : \E i \in DOMAIN received :
            x = received[i] /\ (run = "write" => i # Len(received))

\* A caller stamps, sends and comes back before it stamps again.
LEMMA NextOwnOrder ==
    ASSUME ChannelTypes, ChannelTypes', SendsOwn, UniqueStamps, OwnOrder,
           [Next]_vars
    PROVE  OwnOrder'
<1>1. /\ Line \in Seq(Entry) /\ DOMAIN Line = 1..Len(Line) /\ Len(Line) \in Nat
      /\ Line' \in Seq(Entry) /\ DOMAIN Line' = 1..Len(Line')
      /\ Len(Line') \in Nat
  BY LineElements, ConcatProperties DEF Line, ChannelTypes
<1>2. ASSUME Len(Line') <= Len(Line),
             \A i \in 1..Len(Line') : Line'[i] = Line[i]
      PROVE  /\ Ordered(Line', CallerOrder)
             /\ Range(Line') \subseteq Range(Line)
  <2>1. \A i \in DOMAIN Line' : i \in DOMAIN Line /\ Line'[i] = Line[i]
    BY <1>1, <1>2
  <2>2. QED
    BY <2>1 DEF OwnOrder, Ordered, Range
<1>3. ASSUME NEW c \in Callers, NEW l \in Levels, WriteLog(c, l)
      PROVE  OwnOrder'
  <2>1. /\ Line' = Line
        /\ caller'[c].entry.at = clock + 1
        /\ \A b \in Callers \ {c} : caller'[b] = caller[b]
    BY <1>3 DEF WriteLog, NewLogEntry, Line, ChannelTypes
  <2>2. ASSUME NEW x \in Range(Line)
        PROVE  x.at < clock + 1
    <3>1. PICK i \in DOMAIN Line : x = Line[i]
      BY <2>2 DEF Range
    <3>2. Line[i].at <= clock
      BY <3>1 DEF UniqueStamps
    <3>3. Line[i] \in Entry
      BY <1>1, <3>1
    <3>4. Line[i].at \in Nat /\ clock \in Nat
      BY <3>3, CapacityAssumption DEF Entry, ChannelTypes
    <3>5. QED
      BY <3>1, <3>2, <3>4
  <2>3. QED
    BY <2>1, <2>2 DEF OwnOrder
<1>4. ASSUME NEW c \in Callers, Send(c), Line' = Append(Line, caller[c].entry)
      PROVE  OwnOrder'
  <2> DEFINE e == caller[c].entry
  <2>1. /\ caller[c].pc = "send" /\ e \in Entry /\ e.by = c
        /\ caller'[c].pc # "send"
        /\ \A b \in Callers \ {c} : caller'[b] = caller[b]
    <3>1. caller[c].pc = "send" /\ e \in Entry /\ e.by = c
      BY <1>4, SenderType DEF Send, SendsOwn
    <3>2. PICK next \in {Idle, [pc |-> "blocked"]} :
            caller' = [caller EXCEPT ![c] = next]
      BY <1>4 DEF Send
    <3>3. QED
      BY <3>1, <3>2 DEF Idle, ChannelTypes
  <2>2. /\ Ordered(Line, CallerOrder)
        /\ \A x \in Range(Line) : x \in Entry
        /\ \A x \in Range(Line) : x.by = c => x.at < e.at
    BY <1>1, <2>1 DEF OwnOrder, Range
  <2> HIDE DEF e
  <2>3. Line' = Append(Line, e)
    BY <1>4 DEF e
  <2>4. \A x \in Range(Line) : <<x, e>> \in CallerOrder
    BY <2>1, <2>2 DEF CallerOrder
  <2>5. Ordered(Line', CallerOrder)
    BY <1>1, <2>1, <2>2, <2>3, <2>4, OrderedAppend
  <2>6. Range(Line') = Range(Line) \cup {e}
    BY <1>1, <2>1, <2>3, RangeOfAppend
  <2>7. QED
    BY <2>1, <2>5, <2>6 DEF OwnOrder
<1>5. CASE CloseChannel
  <2>1. /\ Len(Line') <= Len(Line)
        /\ \A i \in 1..Len(Line') : Line'[i] = Line[i]
    <3>1. \/ Line' = Line
          \/ /\ Len(Line') <= Len(Line)
             /\ \A i \in 1..Len(Line') : Line'[i] = Line[i]
      BY <1>5, LineSteps DEF CloseChannel, Send
    <3>2. QED
      BY <1>1, <3>1
  <2>2. \A c \in Callers : caller'[c].pc = "send" => caller'[c] = caller[c]
    BY <1>5 DEF CloseChannel, Idle, ChannelTypes
  <2>3. QED
    BY <1>2, <2>1, <2>2 DEF OwnOrder
<1>6. CASE /\ Line' = Line
           /\ \A c \in Callers : caller'[c].pc = "send" =>
                                    caller'[c] = caller[c]
  BY <1>6 DEF OwnOrder
<1>7. ASSUME NEW c \in Callers, Send(c), Line' = Line
      PROVE  OwnOrder'
  <2>1. PICK next \in {Idle, [pc |-> "blocked"]} :
          caller' = [caller EXCEPT ![c] = next]
    BY <1>7 DEF Send
  <2>2. \A b \in Callers : caller'[b].pc = "send" => caller'[b] = caller[b]
    BY <2>1 DEF Idle, ChannelTypes
  <2>3. QED
    BY <1>6, <1>7, <2>2
<1>8. CASE Receive
  <2>1. \A c \in Callers : caller'[c].pc = "send" => caller'[c] = caller[c]
    BY <1>8 DEF Receive, Idle, ChannelTypes
  <2>2. Line' = Line
    BY <1>8, LineSteps DEF Receive, Send, CloseChannel
  <2>3. QED
    BY <1>6, <2>1, <2>2
<1>9. CASE UNCHANGED <<caller, received, queue>>
  BY <1>6, <1>9 DEF Line
<1>10. ASSUME NEW c \in Callers, Send(c)
       PROVE  Line' = Line \/ Line' = Append(Line, caller[c].entry)
  <2>1. CASE IsClosed
    BY <1>10, <2>1 DEF Send, Line
  <2>2. CASE ~IsClosed
    BY <1>10, <2>2, LineSteps DEF Send, CloseChannel
  <2>3. QED
    BY <2>1, <2>2
<1>11. QED
  BY <1>3, <1>4, <1>5, <1>7, <1>8, <1>9, <1>10
  DEF Next, Run, RegisterLogHandler, ClearLogs, Write, Snapshot, Handle, Exit,
      CloseReturns, vars

\* Write appends an entry behind all that is stored of its caller, and
\* ClearLogs keeps the order.
LEMMA NextStoredInOrder ==
    ASSUME ChannelTypes, ChannelTypes', HasCurrent, StoreTypes, OwnOrder,
           StoredInOrder, [Next]_vars
    PROVE  StoredInOrder'
<1>1. ASSUME NEW before \in ClearTimes, ClearLogs(before)
      PROVE  StoredInOrder'
  <2> DEFINE keep == {e \in Entry : KeptByClear(e, before)}
  <2>1. /\ stored' = Filter(stored, keep)
        /\ UNCHANGED <<received, run>>
    BY <1>1 DEF ClearLogs
  <2>2. Ordered(Filter(stored, keep), CallerOrder)
    BY FilterOrdered DEF StoreTypes, StoredInOrder
  <2>3. Range(Filter(stored, keep)) = Range(stored) \cap keep
    BY FilterRange DEF StoreTypes
  <2> HIDE DEF keep
  <2>4. QED
    BY <2>1, <2>2, <2>3 DEF StoredInOrder
<1>2. CASE Write
  <2>1. /\ run = "write" /\ run' = "snapshot" /\ received' = received
        /\ stored' = stored \/ stored' = Append(stored, Current)
    BY <1>2 DEF Write, AfterError
  <2>2. /\ Current \in Entry /\ Current = received[Len(received)]
        /\ Len(received) \in DOMAIN received
    BY <2>1, CurrentType DEF Current
  <2>3. ASSUME NEW x \in Range(stored)
        PROVE  <<x, Current>> \in CallerOrder
    <3>1. PICK i \in DOMAIN received : x = received[i] /\ i # Len(received)
      BY <2>1, <2>3 DEF StoredInOrder
    <3>2. /\ i \in DOMAIN Line /\ Len(received) \in DOMAIN Line
          /\ Line[i] = x /\ Line[Len(received)] = Current
          /\ i < Len(received)
      <4>1. /\ i \in 1..Len(received) /\ Len(received) \in 1..Len(received)
            /\ Len(received) \in Nat
        BY <2>2, <3>1 DEF ChannelTypes
      <4>2. /\ DOMAIN Line = 1..(Len(received) + Len(queue))
            /\ Len(queue) \in Nat
            /\ \A k \in 1..Len(received) : Line[k] = received[k]
        BY LineElements DEF ChannelTypes
      <4>3. QED
        BY <2>2, <3>1, <4>1, <4>2
    <3>3. QED
      BY <3>2 DEF OwnOrder, Ordered
  <2>4. ASSUME stored' = Append(stored, Current)
        PROVE  StoredInOrder'
    <3>1. Ordered(stored', CallerOrder)
      BY <2>2, <2>3, <2>4, OrderedAppend DEF StoredInOrder, StoreTypes
    <3>2. Range(stored') = Range(stored) \cup {Current}
      BY <2>2, <2>4, RangeOfAppend DEF StoreTypes
    <3>3. QED
      BY <2>1, <2>2, <3>1, <3>2 DEF StoredInOrder
  <2>5. QED
    BY <2>1, <2>4 DEF StoredInOrder
<1>3. CASE Receive
  <2>1. /\ stored' = stored /\ run = "receive"
        /\ received' = Append(received, Head(queue))
        /\ Head(queue) \in Entry
    BY <1>3, HeadTailProperties DEF Receive, ChannelTypes
  <2>2. /\ Len(received') = Len(received) + 1 /\ Len(received) \in Nat
        /\ \A i \in 1..Len(received) : received'[i] = received[i]
        /\ DOMAIN received = 1..Len(received)
        /\ DOMAIN received' = 1..(Len(received) + 1)
    BY <2>1, AppendProperties DEF ChannelTypes
  <2>3. ASSUME NEW x \in Range(stored)
        PROVE  \E i \in DOMAIN received' : x = received'[i] /\ i # Len(received')
    <3>1. PICK i \in DOMAIN received : x = received[i]
      BY <2>3 DEF StoredInOrder
    <3>2. i \in DOMAIN received' /\ i # Len(received') /\ x = received'[i]
      BY <2>2, <3>1
    <3>3. QED
      BY <3>2
  <2>4. QED
    BY <2>1, <2>3 DEF StoredInOrder
<1>4. CASE /\ UNCHANGED <<stored, received>>
           /\ run' = run \/ run' # "write"
  BY <1>4 DEF StoredInOrder
<1>5. CASE Snapshot \/ Handle \/ Exit
  BY <1>4, <1>5 DEF Snapshot, Handle, Exit
<1>6. QED
  BY <1>1, <1>2, <1>3, <1>4, <1>5
  DEF Next, Run, WriteLog, Send, RegisterLogHandler, CloseChannel,
      CloseReturns, vars

\* The entries of one caller are stored in the order it logged them, however
\* the callers mix, ClearLogs interferes and the backend fails.
THEOREM CallersInOrder == Spec => []CallerOrderKept
<1> DEFINE Inv == StoreTypes /\ UniqueStamps /\ OwnOrder /\ StoredInOrder
<1>1. Init => Inv
  <2> SUFFICES ASSUME Init
               PROVE  Inv
    OBVIOUS
  <2>1. stored = <<>> /\ received = <<>> /\ queue = <<>>
        /\ \A c \in Callers : caller[c].pc # "send"
    BY DEF Init, Idle
  <2>2. Line = <<>> /\ DOMAIN Line = {} /\ DOMAIN stored = {}
    BY <2>1 DEF Line
  <2>3. StoreTypes
    BY EmptySeq DEF Init, StoreTypes
  <2>4. UniqueStamps /\ OwnOrder /\ StoredInOrder
    BY <2>1, <2>2 DEF UniqueStamps, OwnOrder, StoredInOrder, Ordered, Range
  <2>5. QED
    BY <2>3, <2>4
<1>2. Inv /\ ChannelInv /\ ChannelInv' /\ [Next]_vars => Inv'
  BY NextStoreTypes, NextUniqueStamps, NextOwnOrder, NextStoredInOrder
  DEF ChannelInv
<1>3. Inv => CallerOrderKept
  <2>1. ASSUME Inv, NEW i \in DOMAIN stored, NEW j \in DOMAIN stored, i < j,
               stored[i].by = stored[j].by
        PROVE  stored[i].at < stored[j].at
    BY <2>1 DEF StoredInOrder, Ordered, CallerOrder
  <2>2. QED
    BY <2>1 DEF CallerOrderKept
<1>4. QED
  BY <1>1, <1>2, <1>3, ChannelInvariance, PTL DEF Spec

-----------------------------------------------------------------------------
(* What ClearLogs removed.                                                 *)

\* What is on its way and older than the last ClearLogs asked for was on its
\* way then, and nothing else that is older was stored since.
Purged ==
    /\ purge.before <= clock + 1
    /\ \A e \in OnTheirWay : e.at < purge.before => e \in purge.late
    /\ \A e \in Range(stored) : e.at < purge.before => e \in purge.late

\* Only NewLogEntry puts a new entry on its way, and it is not older than a
\* time that is not in the future.
LEMMA OnTheirWayGrows ==
    ASSUME ChannelTypes, ChannelTypes', HasCurrent, [Next]_vars
    PROVE  /\ clock' \in {clock, clock + 1}
           /\ \A e \in OnTheirWay' : \/ e \in OnTheirWay
                                     \/ e.at = clock + 1 /\ clock' = clock + 1
<1> USE DEF OnTheirWay
<1>1. ASSUME NEW c \in Callers, NEW l \in Levels, WriteLog(c, l)
      PROVE  /\ clock' = clock + 1
             /\ \A e \in OnTheirWay' : e \in OnTheirWay \/ e.at = clock + 1
  <2>1. /\ clock' = clock + 1
        /\ UNCHANGED <<queue, received, run>>
        /\ caller'[c].entry.at = clock + 1
        /\ \A b \in Callers \ {c} : caller'[b] = caller[b]
    BY <1>1 DEF WriteLog, NewLogEntry, ChannelTypes
  <2>2. QED
    BY <2>1
<1>2. ASSUME NEW c \in Callers, Send(c)
      PROVE  clock' = clock /\ OnTheirWay' \subseteq OnTheirWay
  <2>1. /\ clock' = clock /\ UNCHANGED <<received, run>>
        /\ caller[c].pc = "send"
    BY <1>2 DEF Send
  <2>2. \A b \in Callers : caller'[b].pc = "send" => caller'[b] = caller[b]
    <3>1. PICK next \in {Idle, [pc |-> "blocked"]} :
            caller' = [caller EXCEPT ![c] = next]
      BY <1>2 DEF Send
    <3>2. QED
      BY <3>1 DEF Idle, ChannelTypes
  <2>3. ASSUME NEW i \in DOMAIN queue'
        PROVE  queue'[i] \in {queue[k] : k \in DOMAIN queue} \cup {caller[c].entry}
    <3>1. CASE queue' = queue
      BY <2>3, <3>1
    <3>2. CASE queue' = Append(queue, caller[c].entry)
      <4>1. caller[c].entry \in Entry
        BY <2>1, SenderType
      <4>2. Range(queue') = Range(queue) \cup {caller[c].entry}
        BY <3>2, <4>1, RangeOfAppend DEF ChannelTypes
      <4>3. QED
        BY <2>3, <4>2 DEF Range
    <3>3. QED
      BY <1>2, <3>1, <3>2 DEF Send
  <2>4. QED
    BY <2>1, <2>2, <2>3
<1>3. CASE CloseChannel
  <2>1. /\ clock' = clock /\ UNCHANGED <<received, run>>
        /\ \A b \in Callers : caller'[b].pc = "send" => caller'[b] = caller[b]
    BY <1>3 DEF CloseChannel, Idle, ChannelTypes
  <2>2. \A i \in DOMAIN queue' : i \in DOMAIN queue /\ queue'[i] = queue[i]
    <3>1. queue' = Buffered
      BY <1>3 DEF CloseChannel, KeptByClose
    <3>2. LET n == IF Len(queue) < Capacity THEN Len(queue) ELSE Capacity
          IN  /\ Buffered \in Seq(Entry)
              /\ Len(Buffered) = n
              /\ n \in 0..Len(queue)
              /\ \A i \in 1..n : Buffered[i] = queue[i]
      BY BufferedIsPrefix DEF ChannelTypes
    <3>3. DOMAIN Buffered = 1..Len(Buffered) /\ Len(Buffered) <= Len(queue)
          /\ DOMAIN queue = 1..Len(queue) /\ Len(queue) \in Nat
          /\ Len(Buffered) \in Nat
      BY <3>2 DEF ChannelTypes
    <3>4. QED
      BY <3>1, <3>2, <3>3
  <2>3. QED
    BY <2>1, <2>2
<1>4. CASE Receive
  <2>1. /\ clock' = clock /\ run' = "write" /\ run = "receive"
        /\ queue # <<>> /\ queue' = Tail(queue)
        /\ received' = Append(received, Head(queue))
    BY <1>4 DEF Receive
  <2>2. \A b \in Callers : caller'[b].pc = "send" => caller'[b] = caller[b]
    BY <1>4 DEF Receive, Idle, ChannelTypes
  <2>3. /\ Head(queue) = queue[1] /\ 1 \in DOMAIN queue /\ queue[1] \in Entry
        /\ Len(queue') = Len(queue) - 1 /\ Len(queue) \in Nat
        /\ \A i \in 1..Len(queue') : queue'[i] = queue[i + 1]
        /\ DOMAIN queue' = 1..Len(queue') /\ DOMAIN queue = 1..Len(queue)
    BY <2>1, HeadTailProperties, EmptySeq DEF ChannelTypes
  <2>4. \A i \in DOMAIN queue' : i + 1 \in DOMAIN queue
                                    /\ queue'[i] = queue[i + 1]
    BY <2>3
  <2>5. received'[Len(received')] = queue[1]
    BY <2>1, <2>3, AppendProperties DEF ChannelTypes
  <2>6. QED
    BY <2>1, <2>2, <2>3, <2>4, <2>5
<1>5. CASE /\ UNCHANGED <<clock, caller, queue, received>>
           /\ run' = run \/ run' # "write"
  BY <1>5
<1>6. CASE Write \/ Snapshot \/ Handle \/ Exit
  BY <1>5, <1>6 DEF Write, AfterError, Snapshot, Handle, Exit
<1>7. QED
  <2>1. CASE \E c \in Callers, l \in Levels : WriteLog(c, l)
    BY <1>1, <2>1
  <2>2. CASE \E c \in Callers : Send(c)
    BY <1>2, <2>2
  <2>3. QED
    BY <2>1, <2>2, <1>3, <1>4, <1>5, <1>6
    DEF Next, Run, RegisterLogHandler, ClearLogs, CloseReturns, vars

\* Entries pass from their callers through the channel into the backend.
LEMMA NextPurged ==
    ASSUME ChannelTypes, ChannelTypes', HasCurrent, StoreTypes, Purged,
           [Next]_vars
    PROVE  Purged'
<1>1. clock \in Nat /\ purge.before \in Nat
  <2>1. clock \in Nat
    BY CapacityAssumption DEF ChannelTypes
  <2>2. purge.before \in ClearTimes \cup {0}
    BY DEF StoreTypes
  <2>3. \A t \in ClearTimes : t \in Nat
    BY ClearAssumption
  <2>4. QED
    BY <2>1, <2>2, <2>3
<1>2. ASSUME NEW before \in ClearTimes, ClearLogs(before)
      PROVE  Purged'
  <2> DEFINE keep == {e \in Entry : KeptByClear(e, before)}
  <2>1. /\ stored' = Filter(stored, keep)
        /\ UNCHANGED <<clock, caller, queue, received, run>>
        /\ before <= clock + 1
        /\ purge' = [before |-> before,
                     late |-> {e \in OnTheirWay : e.at < before}]
    BY <1>2 DEF ClearLogs
  <2>2. Range(Filter(stored, keep)) = Range(stored) \cap keep
    BY FilterRange DEF StoreTypes
  <2>3. \A e \in Range(stored') : ~(e.at < before)
    BY <2>1, <2>2 DEF KeptByClear
  <2> HIDE DEF keep
  <2>4. OnTheirWay' = OnTheirWay
    BY <2>1 DEF OnTheirWay
  <2>5. QED
    BY <2>1, <2>3, <2>4 DEF Purged
<1>3. CASE purge' = purge
  <2>1. purge'.before <= clock' + 1
    BY <1>1, <1>3, OnTheirWayGrows DEF Purged
  <2>2. \A e \in OnTheirWay' : e.at < purge'.before => e \in purge'.late
    <3>1. ASSUME NEW e \in OnTheirWay', e.at < purge'.before
          PROVE  e \in purge'.late
      <4>1. e \in OnTheirWay \/ e.at = clock + 1
        BY <3>1, OnTheirWayGrows
      <4>2. e.at # clock + 1
        BY <1>1, <1>3, <3>1 DEF Purged
      <4>3. QED
        BY <1>3, <3>1, <4>1, <4>2 DEF Purged
    <3>2. QED
      BY <3>1
  <2>3. ASSUME NEW e \in Range(stored'), e.at < purge'.before,
               stored' = stored \/ Write
        PROVE  e \in purge'.late
    <3>1. CASE stored' = stored
      BY <1>3, <2>3, <3>1 DEF Purged
    <3>2. CASE Write /\ stored' = Append(stored, Current)
      <4>1. /\ Current \in Entry /\ Len(received) \in DOMAIN received
            /\ Current = received[Len(received)] /\ run = "write"
        BY <3>2, CurrentType DEF Write, Current
      <4>2. Current \in OnTheirWay
        BY <4>1 DEF OnTheirWay
      <4>3. Range(stored') = Range(stored) \cup {Current}
        BY <3>2, <4>1, RangeOfAppend DEF StoreTypes
      <4>4. QED
        BY <1>3, <2>3, <4>2, <4>3 DEF Purged
    <3>3. QED
      BY <2>3, <3>1, <3>2 DEF Write
  <2>4. stored' = stored \/ Write \/ \E before \in ClearTimes : ClearLogs(before)
    BY DEF Next, Run, WriteLog, Send, RegisterLogHandler, CloseChannel, Receive,
           Snapshot, Handle, Exit, CloseReturns, vars
  <2>5. QED
    BY <1>2, <2>1, <2>2, <2>3, <2>4 DEF Purged
<1>4. QED
  BY <1>2, <1>3
  DEF Next, Run, WriteLog, Send, RegisterLogHandler, CloseChannel, Receive,
      Write, Snapshot, Handle, Exit, CloseReturns, vars

\* What ClearLogs removed stays removed: an older entry is stored after it
\* only if it was on its way when ClearLogs was called.
THEOREM ClearedStays == Spec => []OnlyLateEntriesOlder
<1> DEFINE Inv == StoreTypes /\ Purged
<1>1. Init => Inv
  <2> SUFFICES ASSUME Init
               PROVE  Inv
    OBVIOUS
  <2>1. StoreTypes
    BY EmptySeq DEF Init, StoreTypes
  <2>2. clock = 0 /\ purge.before = 0 /\ stored = <<>> /\ OnTheirWay = {}
    BY DEF Init, Idle, OnTheirWay
  <2>3. Purged
    BY <2>2 DEF Purged, Range
  <2>4. QED
    BY <2>1, <2>3
<1>2. Inv /\ ChannelInv /\ ChannelInv' /\ [Next]_vars => Inv'
  BY NextStoreTypes, NextPurged DEF ChannelInv
<1>3. Inv => OnlyLateEntriesOlder
  BY DEF Purged, OnlyLateEntriesOlder, Range
<1>4. QED
  BY <1>1, <1>2, <1>3, ChannelInvariance, PTL DEF Spec

=============================================================================
