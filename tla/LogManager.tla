----------------------------- MODULE LogManager -----------------------------
(***************************************************************************)
(* internal/logger, manager.go: any number of goroutines log through one   *)
(* buffered channel; a single background goroutine, run, takes the entries *)
(* out, writes each to the storage backend and then hands it to every      *)
(* registered LogHandler.  Close closes the channel and waits for run.     *)
(*                                                                         *)
(* A WriteLog that passes the level filter takes two steps: it stamps the  *)
(* entry with the time, then sends it.  The channel is kept as one         *)
(* sequence, queue: its first Capacity entries are in the buffer, the rest *)
(* belong to senders blocked on the full buffer, in the order in which     *)
(* they arrived, which is the order Go wakes them in.                      *)
(*                                                                         *)
(* The backend itself is behind the LogWriter and LogReader interfaces:    *)
(* stored is what Write made of the entries.                               *)
(***************************************************************************)
EXTENDS Naturals, Sequences, FiniteSets, Filtering

CONSTANTS
    Callers,        \* goroutines that log
    Handlers,       \* LogHandlers that may be registered
    Levels,         \* level strings the callers use, right or wrong
    MinLevel,       \* the minimum level the manager was created with
    Capacity,       \* size of the channel's buffer, 256 in the code
    MaxEntries,     \* bound on the entries stamped
    ClearTimes,     \* the times ClearLogs may be called with
    WritesMayFail   \* whether the backend may return an error

Entry == [level : Levels, at : 1..MaxEntries, by : Callers]

\* Where a caller is: outside WriteLog, or past NewLogEntry with an entry it
\* has not sent yet, or blocked in the send.
Caller == [pc : {"idle", "blocked"}] \cup [pc : {"send"}, entry : Entry]

ASSUME CapacityAssumption == Capacity \in Nat \ {0} /\ MaxEntries \in Nat

ASSUME ClearAssumption == ClearTimes \subseteq Nat \ {0}

ASSUME SwitchAssumption == WritesMayFail \in BOOLEAN

VARIABLES
    clock,      \* entries stamped so far: the time of the last one
    caller,
    queue,      \* the channel: buffered entries, then those of blocked senders
    closing,    \* "open", "closed" once close() ran, "done" once Close returned
    run,        \* the background goroutine: its next step
    todo,       \* the handlers run still has to call for its entry
    handlers,   \* the handlers registered, in order
    stored,     \* what the backend stored
    \* History, kept for the properties only:
    received,   \* what run took out of the channel, in order
    handled,    \* the entries each handler was called with
    since,      \* how many entries run had handed out when it was registered
    panicked,   \* callers that sent on the closed channel
    purge       \* the last ClearLogs: its argument, and what was on its way

vars == <<clock, caller, queue, closing, run, todo, handlers, stored,
          received, handled, since, panicked, purge>>

-----------------------------------------------------------------------------

severity == [debug |-> 0, info |-> 1, warn |-> 2, error |-> 3]

\* A Go map yields zero for a key it does not have.
Rank(l) == IF l \in DOMAIN severity THEN severity[l] ELSE 0

Meets(l) == Rank(l) >= Rank(MinLevel)

IsClosed == closing # "open"

Buffered == SubSeq(queue, 1, IF Len(queue) < Capacity THEN Len(queue)
                                                      ELSE Capacity)

Idle == [pc |-> "idle"]

\* Mutant: the timestamp is left at its zero value.
Unstamped(c, l) == [level |-> l, at |-> 0, by |-> c]

\* Mutant: the timestamp is when the manager was created.
StampedOnce(c, l) == [level |-> l, at |-> 1, by |-> c]

NewLogEntry(c, l) == [level |-> l, at |-> clock + 1, by |-> c]

\* WriteLog and WriteLogFields, up to the entry they make.  Entries below
\* the minimum level are dropped: no step.
WriteLog(c, l) ==
    /\ caller[c] = Idle
    /\ clock < MaxEntries
    /\ Meets(l)
    /\ clock' = clock + 1
    /\ caller' = [caller EXCEPT ![c] =
                    [pc |-> "send", entry |-> NewLogEntry(c, l)]]
    /\ UNCHANGED <<queue, closing, run, todo, handlers, stored,
                   received, handled, since, panicked, purge>>

\* The send m.entries <- entry: it panics on a closed channel, and blocks
\* when the buffer is full.
Send(c) ==
    /\ caller[c].pc = "send"
    /\ \/ /\ IsClosed
          /\ panicked' = panicked \cup {c}
          /\ caller' = [caller EXCEPT ![c] = Idle]
          /\ UNCHANGED queue
       \/ /\ ~IsClosed
          /\ queue' = Append(queue, caller[c].entry)
          /\ caller' = [caller EXCEPT ![c] =
                IF Len(queue) < Capacity THEN Idle ELSE [pc |-> "blocked"]]
          /\ UNCHANGED panicked
    /\ UNCHANGED <<clock, closing, run, todo, handlers, stored,
                   received, handled, since, purge>>

\* RegisterLogHandler, under the write lock.
RegisterLogHandler(h) ==
    /\ \A i \in DOMAIN handlers : handlers[i] # h
    /\ handlers' = Append(handlers, h)
    /\ since' = [since EXCEPT ![h] =
                    IF run \in {"write", "snapshot"} THEN Len(received) - 1
                                                     ELSE Len(received)]
    /\ UNCHANGED <<clock, caller, queue, closing, run, todo, stored,
                   received, handled, panicked, purge>>

\* Mutant: the entries to remove and to keep are confused.
KeepsOlder(e, before) == e.at < before

KeptByClear(e, before) == ~(e.at < before)

\* Stamped, and not yet stored or dropped.
OnTheirWay == {caller[c].entry : c \in {d \in Callers : caller[d].pc = "send"}}
                \cup {queue[i] : i \in DOMAIN queue}
                \cup {e \in {received[i] : i \in DOMAIN received} :
                        run = "write" /\ e = received[Len(received)]}

\* ClearLogs, for a time that is not in the future: it reaches the backend
\* at once, past the channel.
ClearLogs(before) ==
    /\ before <= clock + 1
    /\ stored' = Filter(stored, {e \in Entry : KeptByClear(e, before)})
    /\ purge' = [before |-> before, late |-> {e \in OnTheirWay : e.at < before}]
    /\ UNCHANGED <<clock, caller, queue, closing, run, todo, handlers,
                   received, handled, since, panicked>>

\* Mutant: Close throws away what is queued.
DroppedByClose == <<>>

KeptByClose == Buffered

\* Close, up to close(m.entries): what is in the buffer stays there, and
\* senders blocked on it panic.
CloseChannel ==
    /\ closing = "open"
    /\ closing' = "closed"
    /\ queue' = KeptByClose
    /\ caller' = [c \in Callers |-> IF caller[c].pc = "blocked"
                                    THEN Idle ELSE caller[c]]
    /\ panicked' = panicked \cup {c \in Callers : caller[c].pc = "blocked"}
    /\ UNCHANGED <<clock, run, todo, handlers, stored,
                   received, handled, since, purge>>

-----------------------------------------------------------------------------
(* The background goroutine.                                               *)

\* Mutant: the loop does not notice that the channel was closed.
NeverEnds == FALSE

\* range over the channel ends once it is closed and empty.
RangeEnds == IsClosed /\ queue = <<>>

\* Taking an entry out lets the first blocked sender's into the buffer.
Receive ==
    /\ run = "receive"
    /\ ~RangeEnds
    /\ queue # <<>>
    /\ queue' = Tail(queue)
    /\ received' = Append(received, Head(queue))
    /\ caller' = IF Len(queue) > Capacity
                 THEN [caller EXCEPT ![queue[Capacity + 1].by] = Idle]
                 ELSE caller
    /\ run' = "write"
    /\ UNCHANGED <<clock, closing, todo, handlers, stored,
                   handled, since, panicked, purge>>

Current == received[Len(received)]

\* Mutant: the goroutine returns when a write fails.
GivesUp == "exited"

\* An error of the backend is only logged.
AfterError == "snapshot"

Write ==
    /\ run = "write"
    /\ \/ stored' = Append(stored, Current) /\ run' = "snapshot"
       \/ WritesMayFail /\ UNCHANGED stored /\ run' = AfterError
    /\ UNCHANGED <<clock, caller, queue, closing, todo, handlers,
                   received, handled, since, panicked, purge>>

\* Mutant: the handlers are read once, when the goroutine starts.
HandlersAtStart == <<>>

HandlersNow == handlers

\* The handlers are read under the lock and called outside it.
Snapshot ==
    /\ run = "snapshot"
    /\ todo' = HandlersNow
    /\ run' = "handle"
    /\ UNCHANGED <<clock, caller, queue, closing, handlers, stored,
                   received, handled, since, panicked, purge>>

Handle ==
    /\ run = "handle"
    /\ \/ /\ todo # <<>>
          /\ handled' = [handled EXCEPT ![Head(todo)] = Append(@, Current)]
          /\ todo' = Tail(todo)
          /\ UNCHANGED run
       \/ /\ todo = <<>>
          /\ run' = "receive"
          /\ UNCHANGED <<handled, todo>>
    /\ UNCHANGED <<clock, caller, queue, closing, handlers, stored,
                   received, since, panicked, purge>>

Exit ==
    /\ run = "receive"
    /\ RangeEnds
    /\ run' = "exited"
    /\ UNCHANGED <<clock, caller, queue, closing, todo, handlers, stored,
                   received, handled, since, panicked, purge>>

\* Mutant: Close does not wait for run.
DoesNotWait == TRUE

WaitGroupDone == run = "exited"

\* wg.Wait returns, and Close with it.
CloseReturns ==
    /\ closing = "closed"
    /\ WaitGroupDone
    /\ closing' = "done"
    /\ UNCHANGED <<clock, caller, queue, run, todo, handlers, stored,
                   received, handled, since, panicked, purge>>

-----------------------------------------------------------------------------

Init ==
    /\ clock = 0
    /\ caller = [c \in Callers |-> Idle]
    /\ queue = <<>>
    /\ closing = "open"
    /\ run = "receive"
    /\ todo = <<>>
    /\ handlers = <<>>
    /\ stored = <<>>
    /\ received = <<>>
    /\ handled = [h \in Handlers |-> <<>>]
    /\ since = [h \in Handlers |-> 0]
    /\ panicked = {}
    /\ purge = [before |-> 0, late |-> {}]

Run == Receive \/ Write \/ Snapshot \/ Handle \/ Exit

Next ==
    \/ \E c \in Callers, l \in Levels : WriteLog(c, l)
    \/ \E c \in Callers : Send(c)
    \/ \E h \in Handlers : RegisterLogHandler(h)
    \/ \E before \in ClearTimes : ClearLogs(before)
    \/ CloseChannel
    \/ Run
    \/ CloseReturns

Spec == Init /\ [][Next]_vars

\* run is scheduled, Write and the handlers return, a caller past NewLogEntry
\* reaches its send, and the goroutine inside Close goes on.  Nobody has to
\* log, register or close.
FairSpec ==
    /\ Spec
    /\ WF_vars(Run)
    /\ \A c \in Callers : WF_vars(Send(c))
    /\ WF_vars(CloseReturns)

-----------------------------------------------------------------------------
(* Safety.                                                                 *)

\* Types: every entry on its way through the manager, and every one stored,
\* has a level, the time NewLogEntry gave it and a caller.
TypeOK ==
    /\ clock \in 0..MaxEntries
    /\ caller \in [Callers -> Caller]
    /\ queue \in Seq(Entry)
    /\ closing \in {"open", "closed", "done"}
    /\ run \in {"receive", "write", "snapshot", "handle", "exited"}
    /\ todo \in Seq(Handlers)
    /\ handlers \in Seq(Handlers)
    /\ stored \in Seq(Entry)
    /\ received \in Seq(Entry)
    /\ handled \in [Handlers -> Seq(Entry)]
    /\ since \in [Handlers -> Nat]
    /\ panicked \subseteq Callers
    /\ purge \in [before : ClearTimes \cup {0}, late : SUBSET Entry]

\* No panic before the channel is closed, and once Close returned everything
\* the channel took was received, and none of it is still being written or
\* handled.
ClosedMeansDrained ==
    /\ closing = "open" => panicked = {}
    /\ closing = "done" => queue = <<>> /\ todo = <<>> /\ run = "exited"

\* Each handler gets every entry run hands out from its registration on,
\* once, in the order in which they were written, whoever registers, logs or
\* closes meanwhile.
HandlersMissNothing ==
    \A i \in DOMAIN handlers :
        LET h == handlers[i]
            Missing == IF \/ run \in {"write", "snapshot"} /\ since[h] < Len(received)
                          \/ \E k \in DOMAIN todo : todo[k] = h
                       THEN 1 ELSE 0
        IN  handled[h] = SubSeq(received, since[h] + 1, Len(received) - Missing)

\* The entries of one caller are stored in the order it logged them.
CallerOrderKept ==
    \A i, j \in DOMAIN stored :
        i < j /\ stored[i].by = stored[j].by => stored[i].at < stored[j].at

\* What ClearLogs removed stays removed: an older entry that is stored after
\* it was on its way when ClearLogs was called, between its caller and the
\* backend, where ClearLogs does not reach.
OnlyLateEntriesOlder ==
    \A i \in DOMAIN stored : stored[i].at < purge.before =>
                                stored[i] \in purge.late

\* The entries that were handed to the backend: run is done with its Write.
Processed == IF run = "write" THEN SubSeq(received, 1, Len(received) - 1)
                              ELSE received

\* An entry is accepted once it is in the buffer.
Stream == INSTANCE LogStream WITH
            Entries <- Entry,
            accepted <- received \o Buffered,
            processed <- Processed,
            open <- ~IsClosed

\* The channel and run behave as a log stream: what was accepted is never
\* lost, reordered or processed twice, not even by Close.
StreamSpec == Stream!Spec

-----------------------------------------------------------------------------
(* Liveness.                                                               *)

\* A caller that waits for room in the buffer gets on, if only by panicking.
CallersResume == \A c \in Callers : caller[c] # Idle ~> caller[c] = Idle

\* Close returns, however much is queued and whoever is blocked.
CloseCompletes == closing = "closed" ~> closing = "done"

=============================================================================
