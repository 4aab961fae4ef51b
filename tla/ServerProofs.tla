---------------------------- MODULE ServerProofs ----------------------------
(***************************************************************************)
(* Proofs about Server for every set of requests and levels, every size of *)
(* the channel's buffer and every number of jobs and entries.  Server is   *)
(* first shown to use the LogManager as that module allows, so that what   *)
(* LogManagerProofs says of the channel holds in it.                       *)
(***************************************************************************)
EXTENDS Server, FiniteSetTheorems, SequenceTheorems, TLAPS

\* The LogManager of the process, with what is proved of it.
Manager == INSTANCE LogManagerProofs WITH Callers <- Requests, Handlers <- {},
                ClearTimes <- {}, WritesMayFail <- TRUE

-----------------------------------------------------------------------------
(* The process uses its LogManager as LogManager says.                     *)

\* main starts with an unused LogManager.
LEMMA StartsUnused == Log!Init => Manager!Init
BY DEF Log!Init, Manager!Init, Log!Idle, Manager!Idle

\* A request stamps its entry.
LEMMA WriteLogStep ==
    ASSUME NEW c \in Requests, NEW l \in Levels, Log!WriteLog(c, l)
    PROVE  Manager!WriteLog(c, l)
BY DEF Log!WriteLog, Manager!WriteLog, Log!Idle, Manager!Idle, Log!Meets,
       Manager!Meets, Log!Rank, Manager!Rank, Log!severity, Manager!severity,
       Log!NewLogEntry, Manager!NewLogEntry

\* A request sends its entry.
LEMMA SendStep ==
    ASSUME NEW c \in Requests, Log!Send(c)
    PROVE  Manager!Send(c)
BY DEF Log!Send, Manager!Send, Log!IsClosed, Manager!IsClosed, Log!Idle,
       Manager!Idle

\* main closes the channel.
LEMMA CloseStep == Log!CloseChannel => Manager!CloseChannel
BY DEF Log!CloseChannel, Manager!CloseChannel, Log!KeptByClose,
       Manager!KeptByClose, Log!Buffered, Manager!Buffered, Log!Idle,
       Manager!Idle

\* Close returns to main.
LEMMA ReturnStep == Log!CloseReturns => Manager!CloseReturns
BY DEF Log!CloseReturns, Manager!CloseReturns, Log!WaitGroupDone,
       Manager!WaitGroupDone

\* The background goroutine of the LogManager.
LEMMA RunStep ==
    Log!Run => \/ Manager!Receive \/ Manager!Write \/ Manager!Snapshot
               \/ Manager!Handle \/ Manager!Exit
<1>1. Log!Receive => Manager!Receive
  BY DEF Log!Receive, Manager!Receive, Log!RangeEnds, Manager!RangeEnds,
         Log!IsClosed, Manager!IsClosed, Log!Idle, Manager!Idle
<1>2. Log!Write => Manager!Write
  BY DEF Log!Write, Manager!Write, Log!Current, Manager!Current,
         Log!AfterError, Manager!AfterError
<1>3. Log!Snapshot => Manager!Snapshot
  BY DEF Log!Snapshot, Manager!Snapshot, Log!HandlersNow, Manager!HandlersNow
<1>4. Log!Handle => Manager!Handle
  BY DEF Log!Handle, Manager!Handle, Log!Current, Manager!Current
<1>5. Log!Exit => Manager!Exit
  BY DEF Log!Exit, Manager!Exit, Log!RangeEnds, Manager!RangeEnds,
         Log!IsClosed, Manager!IsClosed
<1>6. QED
  BY <1>1, <1>2, <1>3, <1>4, <1>5 DEF Log!Run

\* The steps of the process, as the LogManager sees them.
LEMMA ServerSteps ==
    [Next]_vars =>
        \/ \E c \in Requests, l \in Levels :
              LogRequest(c) /\ request[c] = "log" /\ Manager!WriteLog(c, l)
        \/ \E c \in Requests : SendEntry(c) /\ Manager!Send(c)
        \/ LogRun /\ (\/ Manager!Receive \/ Manager!Write \/ Manager!Snapshot
                      \/ Manager!Handle \/ Manager!Exit)
        \/ WaitReturns /\ Manager!CloseChannel
        \/ Exit /\ Manager!CloseReturns
        \/ UNCHANGED logVars
<1> SUFFICES ASSUME [Next]_vars, ~UNCHANGED logVars
             PROVE  \/ \E c \in Requests, l \in Levels :
                        /\ LogRequest(c) /\ request[c] = "log"
                        /\ Manager!WriteLog(c, l)
                    \/ \E c \in Requests : SendEntry(c) /\ Manager!Send(c)
                    \/ LogRun /\ (\/ Manager!Receive \/ Manager!Write
                                  \/ Manager!Snapshot \/ Manager!Handle
                                  \/ Manager!Exit)
                    \/ WaitReturns /\ Manager!CloseChannel
                    \/ Exit /\ Manager!CloseReturns
  OBVIOUS
<1>1. \/ \E c \in Requests : LogRequest(c) \/ SendEntry(c)
      \/ LogRun \/ WaitReturns \/ Exit
  BY DEF Next, Serve, Main, Accept, SpawnJob, HandlerReturns, RequestEnds,
         JobEnds, JobHangs, Signal, ShutdownReturns, vars
<1>2. ASSUME NEW c \in Requests, LogRequest(c)
      PROVE  \E l \in Levels : Manager!WriteLog(c, l)
  BY <1>2, WriteLogStep DEF LogRequest
<1>3. ASSUME NEW c \in Requests, SendEntry(c)
      PROVE  Manager!Send(c)
  BY <1>3, SendStep DEF SendEntry
<1>4. QED
  BY <1>1, <1>2, <1>3, RunStep, CloseStep, ReturnStep
  DEF LogRequest, LogRun, WaitReturns, Exit

\* Every step of the process is a step of its LogManager or leaves it alone.
LEMMA UsesLog == [Next]_vars => [Manager!Next]_Manager!vars
BY ServerSteps DEF Manager!Next, Manager!Run, Manager!vars, logVars

\* The channel of the process is in order in every reachable state.
THEOREM LogInOrder == Spec => []Manager!ChannelInv
<1>1. Init => Manager!ChannelInv
  BY LogAssumption, StartsUnused, Manager!InitChannelInv DEF Init
<1>2. Manager!ChannelInv /\ [Manager!Next]_Manager!vars => Manager!ChannelInv'
  BY LogAssumption, Manager!NextChannelInv
<1>3. QED
  BY <1>1, <1>2, UsesLog, PTL DEF Spec

-----------------------------------------------------------------------------
(* The stages of a shutdown.                                               *)

\* Types of what is not the LogManager's.
ProcessTypes ==
    /\ phase \in {"serving", "shutdown", "wait", "close", "exited"}
    /\ request \in [Requests -> {"none", "handler", "log", "logging"}]
    /\ jobs \in 0..MaxJobs
    /\ hung \in 0..jobs
    /\ spawned \in 0..MaxJobs
    /\ jobs <= spawned
    /\ timedOut \in BOOLEAN

\* A request is past NewLogEntry only inside LoggingMiddleware.
LogsInside == \A c \in Requests : request[c] # "logging" => caller[c] = Log!Idle

\* Unless Shutdown ran out of time, main goes on when no request is running,
\* and closes the log when no job is either.
Stages ==
    /\ closing = "open" <=> phase \in {"serving", "shutdown", "wait"}
    /\ phase = "exited" => closing = "done"
    /\ phase \in {"wait", "close", "exited"} /\ ~timedOut => RequestsDone
    /\ phase \in {"close", "exited"} /\ ~timedOut => jobs = 0
    /\ panicked # {} => timedOut

\* What is proved of the process by induction.
ProcessInv == ProcessTypes /\ LogsInside /\ Stages

\* The process starts by serving, with nothing to wait for.
LEMMA InitProcessInv == Init => ProcessInv
<1> SUFFICES ASSUME Init
             PROVE  ProcessInv
  OBVIOUS
<1>1. ProcessTypes
  <2>1. /\ phase = "serving" /\ request = [c \in Requests |-> "none"]
        /\ jobs = 0 /\ hung = 0 /\ spawned = 0
    BY DEF Init
  <2>2. timedOut \in BOOLEAN
    BY DEF Init
  <2>3. QED
    BY <2>1, <2>2, MaxJobsAssumption DEF ProcessTypes
<1>2. LogsInside
  BY DEF Init, Log!Init, LogsInside
<1>3. Stages
  BY DEF Init, Log!Init, Stages
<1>4. QED
  BY <1>1, <1>2, <1>3 DEF ProcessInv

\* The counter of the WaitGroup keeps to the jobs there are.
LEMMA NextProcessTypes ==
    ASSUME ProcessTypes, [Next]_vars
    PROVE  ProcessTypes'
<1> USE MaxJobsAssumption DEF ProcessTypes
<1>1. ASSUME NEW c \in Requests,
             Accept(c) \/ HandlerReturns(c) \/ LogRequest(c) \/ RequestEnds(c)
      PROVE  ProcessTypes'
  BY <1>1 DEF Accept, HandlerReturns, LogRequest, RequestEnds
<1>2. ASSUME NEW c \in Requests, SpawnJob(c)
      PROVE  ProcessTypes'
  BY <1>2 DEF SpawnJob
<1>3. ASSUME NEW c \in Requests, SendEntry(c)
      PROVE  ProcessTypes'
  BY <1>3 DEF SendEntry
<1>4. CASE JobEnds
  BY <1>4 DEF JobEnds, AfterDone
<1>5. CASE JobHangs
  BY <1>5 DEF JobHangs
<1>6. CASE Signal \/ ShutdownReturns \/ WaitReturns \/ Exit
  BY <1>6 DEF Signal, ShutdownReturns, WaitReturns, Exit
<1>7. CASE LogRun \/ UNCHANGED vars
  BY <1>7 DEF LogRun, vars
<1>8. QED
  BY <1>1, <1>2, <1>3, <1>4, <1>5, <1>6, <1>7 DEF Next, Serve, Main

\* Only LoggingMiddleware logs, and it returns when the LogManager is done
\* with the entry of its request.
LEMMA NextLogsInside ==
    ASSUME Manager!ChannelInv, ProcessTypes, LogsInside, [Next]_vars
    PROVE  LogsInside'
<1> USE DEF LogsInside
<1>0. /\ caller \in [Requests -> Manager!Caller]
      /\ request \in [Requests -> {"none", "handler", "log", "logging"}]
      /\ queue \in Seq(Manager!Entry)
      /\ Log!Idle = Manager!Idle
  BY DEF Manager!ChannelInv, Manager!ChannelTypes, ProcessTypes, Log!Idle,
         Manager!Idle
<1>1. ASSUME NEW c \in Requests, LogRequest(c)
      PROVE  LogsInside'
  <2>1. \A b \in Requests \ {c} : /\ request'[b] = request[b]
                                  /\ caller'[b] = caller[b]
    BY <1>0, <1>1 DEF LogRequest, Log!WriteLog, logVars
  <2>2. \/ request'[c] = "logging"
        \/ UNCHANGED logVars /\ request[c] = "log"
    BY <1>0, <1>1 DEF LogRequest
  <2>3. QED
    BY <2>1, <2>2 DEF logVars
<1>2. ASSUME NEW c \in Requests, SendEntry(c)
      PROVE  LogsInside'
  <2>1. request[c] = "logging" /\ request' = request
    BY <1>2 DEF SendEntry, Log!Send, Log!Idle
  <2>2. \A b \in Requests \ {c} : caller'[b] = caller[b]
    BY <1>0, <1>2 DEF SendEntry, Log!Send
  <2>3. QED
    BY <2>1, <2>2
<1>3. ASSUME NEW c \in Requests,
             Accept(c) \/ SpawnJob(c) \/ HandlerReturns(c) \/ RequestEnds(c)
      PROVE  LogsInside'
  BY <1>0, <1>3 DEF Accept, SpawnJob, HandlerReturns, RequestEnds, logVars
<1>4. CASE LogRun \/ WaitReturns \/ Exit
  <2>1. request' = request
    BY <1>4 DEF LogRun, WaitReturns, Exit
  <2>2. \A b \in Requests : caller'[b] = caller[b] \/ caller'[b] = Log!Idle
    <3>1. CASE WaitReturns
      BY <1>0, <3>1 DEF WaitReturns, Log!CloseChannel
    <3>2. CASE Exit
      BY <3>2 DEF Exit, Log!CloseReturns
    <3>3. CASE LogRun
      BY <1>0, <3>3 DEF LogRun, Log!Run, Log!Receive, Log!Write, Log!Snapshot,
                        Log!Handle, Log!Exit
    <3>4. QED
      BY <1>4, <3>1, <3>2, <3>3
  <2>3. QED
    BY <2>1, <2>2
<1>5. CASE UNCHANGED <<caller, request>>
  BY <1>5
<1>6. QED
  BY <1>1, <1>2, <1>3, <1>4, <1>5
  DEF Next, Serve, Main, JobEnds, JobHangs, Signal, ShutdownReturns, vars,
      logVars

\* main does not go on too early.
LEMMA NextStages ==
    ASSUME Manager!ChannelInv, ProcessInv, [Next]_vars
    PROVE  Stages'
<1> USE DEF ProcessInv, ProcessTypes, Stages, RequestsDone
<1>1. ASSUME NEW c \in Requests,
             Accept(c) \/ SpawnJob(c) \/ HandlerReturns(c) \/ RequestEnds(c)
      PROVE  Stages'
  BY <1>1 DEF Accept, SpawnJob, HandlerReturns, RequestEnds, logVars
<1>2. ASSUME NEW c \in Requests, LogRequest(c)
      PROVE  Stages'
  BY <1>2 DEF LogRequest, Log!WriteLog, logVars
<1>3. ASSUME NEW c \in Requests, SendEntry(c)
      PROVE  Stages'
  <2>1. request[c] = "logging"
    BY <1>3 DEF SendEntry, Log!Send, Log!Idle, LogsInside
  <2>2. phase \in {"wait", "close", "exited"} => timedOut
    BY <2>1
  <2>3. panicked' # panicked => closing # "open"
    BY <1>3 DEF SendEntry, Log!Send, Log!IsClosed
  <2>4. QED
    BY <1>3, <2>2, <2>3 DEF SendEntry, Log!Send
<1>4. CASE JobEnds \/ JobHangs
  BY <1>4 DEF JobEnds, JobHangs, AfterDone, logVars
<1>5. CASE LogRun
  BY <1>5 DEF LogRun, Log!Run, Log!Receive, Log!Write, Log!Snapshot,
              Log!Handle, Log!Exit
<1>6. CASE Signal \/ ShutdownReturns
  BY <1>6 DEF Signal, ShutdownReturns, logVars
<1>7. CASE WaitReturns
  <2>1. ASSUME NEW c \in Requests, caller[c].pc = "blocked"
        PROVE  timedOut
    <3>1. request[c] = "logging"
      BY <2>1 DEF LogsInside, Log!Idle
    <3>2. QED
      BY <1>7, <3>1 DEF WaitReturns
  <2>2. panicked' # {} => timedOut
    BY <1>7, <2>1 DEF WaitReturns, Log!CloseChannel
  <2>3. QED
    BY <1>7, <2>2 DEF WaitReturns, Log!CloseChannel, JobsDone
<1>8. CASE Exit
  BY <1>8 DEF Exit, Log!CloseReturns
<1>9. CASE UNCHANGED vars
  BY <1>9 DEF vars, logVars
<1>10. QED
  BY <1>1, <1>2, <1>3, <1>4, <1>5, <1>6, <1>7, <1>8, <1>9
  DEF Next, Serve, Main

\* What is proved of the process holds in every reachable state.
THEOREM ProcessInvariance == Spec => []ProcessInv
<1>1. Manager!ChannelInv /\ ProcessInv /\ [Next]_vars => ProcessInv'
  BY NextProcessTypes, NextLogsInside, NextStages DEF ProcessInv
<1>2. QED
  BY <1>1, InitProcessInv, LogInOrder, PTL DEF Spec

\* No request sends on the closed channel, unless Shutdown ran out of time.
THEOREM NobodyPanics == Spec => []NoSendOnClosed
<1>1. ProcessInv => NoSendOnClosed
  BY DEF ProcessInv, Stages, NoSendOnClosed
<1>2. QED
  BY <1>1, ProcessInvariance, PTL

-----------------------------------------------------------------------------
(* Where the entries are.                                                  *)

\* The requests with an entry they have not sent yet.
Senders == {c \in Requests : caller[c].pc = "send"}

\* Every entry stamped is with its request, in the channel or received, as
\* long as nobody panicked.  Not all of the received ones need be stored.
Accounted ==
    /\ IsFiniteSet(Senders)
    /\ panicked = {} => clock = Len(received) + Len(queue) + Cardinality(Senders)
    /\ stored \in Seq(Manager!Entry)

\* What Accounted is about, as far as ChannelInv knows it.
LEMMA ChannelFacts ==
    ASSUME Manager!ChannelInv
    PROVE  /\ caller \in [Requests -> Manager!Caller]
           /\ queue \in Seq(Manager!Entry) /\ received \in Seq(Manager!Entry)
           /\ Len(queue) \in Nat /\ Len(received) \in Nat
           /\ clock \in Nat
           /\ received = <<>> => run # "write"
BY LogAssumption
DEF Manager!ChannelInv, Manager!ChannelTypes, Manager!HasCurrent

\* Nothing is stamped when the process starts.
LEMMA InitAccounted == Init => Accounted
<1> SUFFICES ASSUME Init
             PROVE  Accounted
  OBVIOUS
<1>1. /\ clock = 0 /\ queue = <<>> /\ received = <<>> /\ stored = <<>>
      /\ run = "receive" /\ caller = [c \in Requests |-> [pc |-> "idle"]]
  BY DEF Init, Log!Init, Log!Idle
<1>2. Senders = {}
  BY <1>1 DEF Senders
<1>3. IsFiniteSet(Senders) /\ Cardinality(Senders) = 0
  BY <1>2, FS_EmptySet
<1>4. QED
  BY <1>1, <1>3 DEF Accounted

\* A request that stamped an entry has it.
LEMMA WriteLogAccounted ==
    ASSUME Manager!ChannelInv, Accounted, NEW c \in Requests,
           NEW l \in Levels, Manager!WriteLog(c, l)
    PROVE  Accounted'
<1>1. /\ caller[c].pc = "idle" /\ clock' = clock + 1
      /\ UNCHANGED <<queue, received, stored, run, panicked>>
  BY DEF Manager!WriteLog, Manager!Idle
<1>2. \A b \in Requests : caller'[b].pc = IF b = c THEN "send" ELSE caller[b].pc
  BY ChannelFacts DEF Manager!WriteLog
<1>3. Senders' = Senders \cup {c} /\ c \notin Senders
  BY <1>1, <1>2 DEF Senders
<1>4. IsFiniteSet(Senders)' /\ Cardinality(Senders)' = Cardinality(Senders) + 1
      /\ Cardinality(Senders) \in Nat
  BY <1>3, FS_AddElement, FS_CardinalityType DEF Accounted
<1>5. QED
  BY <1>1, <1>4, ChannelFacts DEF Accounted

\* A request that sent its entry put it into the channel, unless it was
\* closed.
LEMMA SendAccounted ==
    ASSUME Manager!ChannelInv, Accounted, NEW c \in Requests, Manager!Send(c)
    PROVE  Accounted'
<1>1. /\ caller[c].pc = "send"
      /\ UNCHANGED <<clock, received, stored, run>>
  BY DEF Manager!Send
<1>2. PICK next \in {[pc |-> "idle"], [pc |-> "blocked"]} :
        caller' = [caller EXCEPT ![c] = next]
  BY DEF Manager!Send, Manager!Idle
<1>3. \A b \in Requests \ {c} : caller'[b] = caller[b]
  BY <1>2, ChannelFacts
<1>4. caller'[c].pc # "send"
  BY <1>2, ChannelFacts
<1>5. Senders' = Senders \ {c} /\ c \in Senders
  BY <1>1, <1>3, <1>4 DEF Senders
<1>6. IsFiniteSet(Senders)' /\ Cardinality(Senders)' = Cardinality(Senders) - 1
      /\ Cardinality(Senders) \in Nat
  BY <1>5, FS_RemoveElement, FS_CardinalityType DEF Accounted
<1>7. panicked' = {} => panicked = {} /\ Len(queue') = Len(queue) + 1
  <2>1. ASSUME panicked' = {}
        PROVE  panicked = {} /\ queue' = Append(queue, caller[c].entry)
    BY <2>1 DEF Manager!Send
  <2>2. caller[c].entry \in Manager!Entry
    BY <1>1, ChannelFacts DEF Manager!Caller
  <2>3. Len(Append(queue, caller[c].entry)) = Len(queue) + 1
    BY <2>2, ChannelFacts, AppendProperties
  <2>4. QED
    BY <2>1, <2>3
<1>8. panicked' = {} =>
        clock' = Len(received') + Len(queue') + Cardinality(Senders)'
  <2>1. ASSUME panicked' = {}
        PROVE  clock = Len(received) + (Len(queue) + 1)
                          + (Cardinality(Senders) - 1)
    BY <1>6, <1>7, <2>1, ChannelFacts DEF Accounted
  <2>2. QED
    BY <1>1, <1>6, <1>7, <2>1
<1>9. QED
  BY <1>1, <1>6, <1>8 DEF Accounted

\* run moves entries from the channel to the backend, which stores them or
\* fails.
LEMMA RunAccounted ==
    ASSUME Manager!ChannelInv, Accounted,
           \/ Manager!Receive \/ Manager!Write \/ Manager!Snapshot
           \/ Manager!Handle \/ Manager!Exit
    PROVE  Accounted'
<1>1. CASE Manager!Receive
  <2>1. /\ run = "receive" /\ run' = "write" /\ queue # <<>>
        /\ queue' = Tail(queue) /\ received' = Append(received, Head(queue))
        /\ UNCHANGED <<clock, stored, panicked>>
    BY <1>1 DEF Manager!Receive
  <2>2. Len(queue') = Len(queue) - 1 /\ Len(received') = Len(received) + 1
    BY <2>1, ChannelFacts, HeadTailProperties, AppendProperties
  <2>3. \A b \in Requests : \/ caller'[b] = caller[b]
                            \/ caller[b].pc = "blocked" /\ caller'[b].pc = "idle"
    <3>1. CASE Len(queue) > Capacity
      <4>1. Capacity + 1 \in DOMAIN queue /\ Capacity + 1 > Capacity
        BY <3>1, LogAssumption, ChannelFacts
      <4>2. caller[queue[Capacity + 1].by].pc = "blocked"
        BY <4>1 DEF Manager!ChannelInv, Manager!BlockedBehind
      <4>3. caller' = [caller EXCEPT ![queue[Capacity + 1].by] = [pc |-> "idle"]]
        BY <1>1, <3>1 DEF Manager!Receive, Manager!Idle
      <4>4. QED
        BY <4>2, <4>3, ChannelFacts
    <3>2. CASE ~(Len(queue) > Capacity)
      BY <1>1, <3>2 DEF Manager!Receive
    <3>3. QED
      BY <3>1, <3>2
  <2>4. Senders' = Senders
    BY <2>3 DEF Senders
  <2>5. Cardinality(Senders) \in Nat
    BY FS_CardinalityType DEF Accounted
  <2>6. QED
    BY <2>1, <2>2, <2>4, <2>5, ChannelFacts DEF Accounted
<1>2. CASE Manager!Write
  <2>1. /\ run = "write"
        /\ \/ stored' = Append(stored, received[Len(received)])
           \/ stored' = stored
        /\ UNCHANGED <<clock, caller, queue, received, panicked>>
    BY <1>2 DEF Manager!Write, Manager!Current
  <2>2. Len(received) \in Nat \ {0}
    BY <2>1, ChannelFacts, EmptySeq
  <2>3. received[Len(received)] \in Manager!Entry
    BY <2>2, ChannelFacts
  <2>4. stored' \in Seq(Manager!Entry)
    BY <2>1, <2>3, AppendProperties DEF Accounted
  <2>5. Senders' = Senders
    BY <2>1 DEF Senders
  <2>6. QED
    BY <2>1, <2>2, <2>4, <2>5 DEF Accounted
<1>3. CASE Manager!Snapshot \/ Manager!Handle \/ Manager!Exit
  <2>1. /\ run # "write" /\ run' # "write"
        /\ UNCHANGED <<clock, caller, queue, received, stored, panicked>>
    BY <1>3 DEF Manager!Snapshot, Manager!Handle, Manager!Exit
  <2>2. QED
    BY <2>1 DEF Accounted, Senders
<1>4. QED
  BY <1>1, <1>2, <1>3

\* Close keeps every entry whose request it does not make panic.
LEMMA CloseAccounted ==
    ASSUME Manager!ChannelInv, Accounted, Manager!CloseChannel
    PROVE  Accounted'
<1>1. /\ queue' = Manager!Buffered
      /\ UNCHANGED <<clock, received, stored, run>>
      /\ panicked' = panicked \cup
                        {c \in Requests : caller[c].pc = "blocked"}
  BY DEF Manager!CloseChannel, Manager!KeptByClose
<1>2. Senders' = Senders
  <2>1. \A c \in Requests : caller'[c] = IF caller[c].pc = "blocked"
                                        THEN [pc |-> "idle"] ELSE caller[c]
    BY DEF Manager!CloseChannel, Manager!Idle
  <2>2. \A c \in Requests : caller'[c].pc = "send" <=> caller[c].pc = "send"
    BY <2>1
  <2>3. QED
    BY <2>2 DEF Senders
<1>3. CASE Len(queue) > Capacity
  <2>1. Capacity + 1 \in DOMAIN queue /\ Capacity + 1 > Capacity
    BY <1>3, LogAssumption, ChannelFacts
  <2>2. caller[queue[Capacity + 1].by].pc = "blocked"
    BY <2>1 DEF Manager!ChannelInv, Manager!BlockedBehind
  <2>3. queue[Capacity + 1].by \in Requests
    <3>1. queue[Capacity + 1] \in Manager!Entry
      BY <2>1, ChannelFacts
    <3>2. QED
      BY <3>1 DEF Manager!Entry
  <2>4. panicked' # {}
    BY <1>1, <2>2, <2>3
  <2>5. QED
    BY <1>1, <1>2, <2>4 DEF Accounted
<1>4. CASE Len(queue) <= Capacity
  <2>1. Len(Manager!Buffered) = Len(queue)
    BY <1>4, LogAssumption, ChannelFacts, Manager!BufferedIsPrefix
  <2>2. QED
    BY <1>1, <1>2, <2>1 DEF Accounted
<1>5. QED
  BY <1>3, <1>4, LogAssumption, ChannelFacts

\* Every step keeps account of the entries.
LEMMA NextAccounted ==
    ASSUME Manager!ChannelInv, Accounted, [Next]_vars
    PROVE  Accounted'
<1>1. CASE Manager!CloseReturns \/ UNCHANGED logVars
  BY <1>1 DEF Manager!CloseReturns, logVars, Accounted, Senders
<1>2. QED
  BY <1>1, ServerSteps, WriteLogAccounted, SendAccounted, RunAccounted,
     CloseAccounted

\* The entries are accounted for in every reachable state.
THEOREM EntriesAccounted == Spec => []Accounted
BY InitAccounted, NextAccounted, LogInOrder, PTL DEF Spec

\* If Shutdown did not run out of time, main exits with no request and no job
\* left and every entry handed to the backend, which may refuse any of them.
THEOREM ExitsGracefully == Spec => []GracefulExit
<1>1. /\ Manager!ChannelInv /\ ProcessInv /\ Accounted
      => GracefulExit
  <2> SUFFICES ASSUME Manager!ChannelInv, ProcessInv, Accounted,
                      phase = "exited", ~timedOut
               PROVE  RequestsDone /\ jobs = 0 /\ Len(Log!Processed) = clock
    BY DEF GracefulExit
  <2>1. RequestsDone /\ jobs = 0 /\ closing = "done" /\ panicked = {}
    BY DEF ProcessInv, Stages
  <2>2. run = "exited" /\ queue = <<>>
    BY <2>1 DEF Manager!ChannelInv, Manager!Closing
  <2>3. Senders = {}
    BY <2>1 DEF Senders, ProcessInv, LogsInside, RequestsDone, Log!Idle
  <2>4. Len(queue) = 0 /\ Cardinality(Senders) = 0
    BY <2>2, <2>3, FS_EmptySet
  <2>5. QED
    BY <2>1, <2>2, <2>4, ChannelFacts DEF Accounted, Log!Processed
<1>2. QED
  BY <1>1, LogInOrder, ProcessInvariance, EntriesAccounted, PTL

\* Types: the counter of the WaitGroup is never negative.
THEOREM ServerTypes == Spec => []TypeOK
<1> DEFINE PurgeUnused == purge = [before |-> 0, late |-> {}]
<1>1. Init => PurgeUnused
  BY DEF Init, Log!Init
<1>2. PurgeUnused /\ [Next]_vars => PurgeUnused'
  BY ServerSteps
  DEF Manager!WriteLog, Manager!Send, Manager!Receive, Manager!Write,
      Manager!Snapshot, Manager!Handle, Manager!Exit, Manager!CloseChannel,
      Manager!CloseReturns, logVars
<1>3. Manager!ChannelInv /\ ProcessInv /\ Accounted /\ PurgeUnused => TypeOK
  <2> SUFFICES ASSUME Manager!ChannelInv, ProcessInv, Accounted, PurgeUnused
               PROVE  TypeOK
    OBVIOUS
  <2>1. Log!Entry = Manager!Entry /\ Log!Caller = Manager!Caller
    BY DEF Log!Entry, Manager!Entry, Log!Caller, Manager!Caller
  <2>2. purge \in [before : {} \cup {0}, late : SUBSET Log!Entry]
    OBVIOUS
  <2>3. Log!TypeOK
    BY <2>1, <2>2
    DEF Log!TypeOK, Manager!ChannelInv, Manager!ChannelTypes, Accounted
  <2>4. QED
    BY <2>3 DEF TypeOK, ProcessInv, ProcessTypes
<1>4. QED
  BY <1>1, <1>2, <1>3, LogInOrder, ProcessInvariance, EntriesAccounted, PTL
  DEF Spec

=============================================================================
