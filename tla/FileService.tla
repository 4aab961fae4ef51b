----------------------------- MODULE FileService -----------------------------
(***************************************************************************)
(* internal/usecase/file: users' files, kept in two stores that share no   *)
(* transaction - the bytes on disk, under a path made of the user's and    *)
(* the file's ID, and a row in the files table.                            *)
(*                                                                         *)
(* Upload creates the file, copies the content into it and saves the row,  *)
(* removing the file again when the copy or the save fails.  Delete reads  *)
(* the row, removes the file, and deletes the row.  As in ContainerService *)
(* one action is one call to a store with the local code up to the next,   *)
(* and requests that change nothing are stuttering steps.                  *)
(***************************************************************************)
EXTENDS Naturals, FiniteSets

CONSTANTS
    Users,
    Threads,        \* goroutines net/http may run requests on at once
    FileIds,        \* UUIDs
    Absent,         \* no row, no file, no request
    FaultModes,     \* the ways a database call may fail, see ContainerService
    MaxFaults,      \* bound on failing calls, to the database or the disk
    MaxCrashes      \* bound on crashes of the process

\* The row's path, name, size and type follow from its ID or the request.
File == [user : Users]

Content == {"partial", "complete"}

\* A request on a thread: its next call, who sent it, and the file's ID.
Request == [pc : {"copy", "save", "undo", "remove", "drop"},
            user : Users, id : FileIds]

ASSUME ModesAssumption == FaultModes \subseteq {"refused", "unanswered"}

ASSUME BoundsAssumption == MaxFaults \in Nat /\ MaxCrashes \in Nat

ASSUME AbsentAssumption ==
    Absent \notin Users \cup File \cup Content \cup Request

VARIABLES
    rows,       \* the files table
    disk,       \* what the file at each path contains
    thread,     \* the request on each thread
    faults, crashes,
    \* History, kept for the properties only:
    minted,     \* the user whose upload got each ID
    stored,     \* uploads answered 201
    removing,   \* files whose removal from disk a DELETE has asked for
    acked       \* files whose DELETE was answered 204

vars == <<rows, disk, thread, faults, crashes, minted, stored, removing, acked>>

-----------------------------------------------------------------------------

Call(o, modes) ==
    \/ o = "ok" /\ UNCHANGED faults
    \/ o \in modes /\ faults < MaxFaults /\ faults' = faults + 1

DBCall(o) == Call(o, FaultModes)

\* A disk call either happens or does not.
DiskCall(o) == Call(o, FaultModes \cap {"refused"})

Outcomes == {"ok"} \cup FaultModes

Apply(f, k, v, o) == IF o = "refused" THEN f ELSE [f EXCEPT ![k] = v]

At(t, pc) == thread[t] # Absent /\ thread[t].pc = pc

GoTo(t, pc) == [thread EXCEPT ![t].pc = pc]

Answer(t) == [thread EXCEPT ![t] = Absent]

-----------------------------------------------------------------------------
(* Upload.                                                                 *)

\* A fresh ID, MkdirAll and os.Create; nothing is left when they fail.
Create(t, u) ==
    /\ thread[t] = Absent
    /\ \E f \in FileIds :
        /\ minted[f] = Absent
        /\ minted' = [minted EXCEPT ![f] = u]
        /\ disk' = [disk EXCEPT ![f] = "partial"]
        /\ thread' = [thread EXCEPT ![t] =
                        [pc |-> "copy", user |-> u, id |-> f]]
    /\ UNCHANGED <<rows, faults, crashes, stored, removing, acked>>

\* Mutant: the error of io.Copy is ignored.
CopyErrorIgnored == "save"

AfterCopyError == "undo"

Copy(t) ==
    /\ At(t, "copy")
    /\ \E o \in Outcomes :
        /\ DiskCall(o)
        /\ disk' = Apply(disk, thread[t].id, "complete", o)
        /\ thread' = GoTo(t, IF o = "ok" THEN "save" ELSE AfterCopyError)
    /\ UNCHANGED <<rows, crashes, minted, stored, removing, acked>>

\* Mutant: the file is left behind when its row cannot be saved.
SaveLeavesFile(t) == Answer(t)

SaveFailed(t) == GoTo(t, "undo")

\* Mutant: the row does not say whose file it is.
NamelessRow(t) == [user |-> Absent]

RowFor(t) == [user |-> thread[t].user]

Save(t) ==
    /\ At(t, "save")
    /\ \E o \in Outcomes :
        /\ DBCall(o)
        /\ rows' = Apply(rows, thread[t].id, RowFor(t), o)
        /\ thread' = IF o = "ok" THEN Answer(t) ELSE SaveFailed(t)
        /\ stored' = stored \cup {f \in {thread[t].id} : o = "ok"}
    /\ UNCHANGED <<disk, crashes, minted, removing, acked>>

\* The compensating os.Remove; its failure is only logged.
Undo(t) ==
    /\ At(t, "undo")
    /\ \E o \in Outcomes :
        /\ DiskCall(o)
        /\ disk' = Apply(disk, thread[t].id, Absent, o)
    /\ thread' = Answer(t)
    /\ UNCHANGED <<rows, crashes, minted, stored, removing, acked>>

-----------------------------------------------------------------------------
(* Delete.                                                                 *)

\* Mutant: the owner of the row is not compared with the caller.
OwnedByAnyone(u, f) == rows[f] # Absent

Owned(u, f) == rows[f] # Absent /\ rows[f].user = u

\* getOwned: the row is read once.
GetOwned(t, u, f) ==
    /\ thread[t] = Absent
    /\ Owned(u, f)
    /\ thread' = [thread EXCEPT ![t] =
                    [pc |-> "remove", user |-> u, id |-> f]]
    /\ UNCHANGED <<rows, disk, faults, crashes, minted, stored, removing, acked>>

\* Mutant: a file that is already gone is an error.
MissingIsError(t, o) == o = "ok" /\ disk[thread[t].id] # Absent

\* Mutant: the row is deleted whatever os.Remove says.
RemoveErrorIgnored(t, o) == TRUE

\* os.IsNotExist is tolerated.
Removed(t, o) == o = "ok"

Remove(t) ==
    /\ At(t, "remove")
    /\ \E o \in Outcomes :
        /\ DiskCall(o)
        /\ disk' = Apply(disk, thread[t].id, Absent, o)
        /\ thread' = IF Removed(t, o) THEN GoTo(t, "drop") ELSE Answer(t)
    /\ removing' = removing \cup {thread[t].id}
    /\ UNCHANGED <<rows, crashes, minted, stored, acked>>

\* repo.Delete; deleting no row is not an error.
Drop(t) ==
    /\ At(t, "drop")
    /\ \E o \in Outcomes :
        /\ DBCall(o)
        /\ rows' = Apply(rows, thread[t].id, Absent, o)
        /\ acked' = acked \cup {f \in {thread[t].id} : o = "ok"}
    /\ thread' = Answer(t)
    /\ UNCHANGED <<disk, crashes, minted, stored, removing>>

-----------------------------------------------------------------------------

\* The process dies and starts again; nothing looks for what was left.
CrashRestart ==
    /\ crashes < MaxCrashes
    /\ crashes' = crashes + 1
    /\ thread' = [t \in Threads |-> Absent]
    /\ UNCHANGED <<rows, disk, faults, minted, stored, removing, acked>>

Init ==
    /\ rows = [f \in FileIds |-> Absent]
    /\ disk = [f \in FileIds |-> Absent]
    /\ thread = [t \in Threads |-> Absent]
    /\ faults = 0
    /\ crashes = 0
    /\ minted = [f \in FileIds |-> Absent]
    /\ stored = {}
    /\ removing = {}
    /\ acked = {}

\* The request on thread t takes its next step.
Serve(t) == Copy(t) \/ Save(t) \/ Undo(t) \/ Remove(t) \/ Drop(t)

Next ==
    \/ \E t \in Threads, u \in Users : Create(t, u)
    \/ \E t \in Threads, u \in Users, f \in FileIds : GetOwned(t, u, f)
    \/ \E t \in Threads : Serve(t)
    \/ CrashRestart

Spec == Init /\ [][Next]_vars

\* A call to the disk or the database returns, and owners keep sending
\* DELETE for what they can still see.
RetrySpec ==
    /\ Spec
    /\ \A t \in Threads : WF_vars(Serve(t))
    /\ \A f \in FileIds :
        SF_vars(\E t \in Threads, u \in Users : GetOwned(t, u, f))

-----------------------------------------------------------------------------
(* Safety.                                                                 *)

\* Types: a row always says whose file it is, a file on disk is partial or
\* complete, and a request past its first call has a user and a file's ID.
TypeOK ==
    /\ rows \in [FileIds -> File \cup {Absent}]
    /\ disk \in [FileIds -> Content \cup {Absent}]
    /\ thread \in [Threads -> Request \cup {Absent}]
    /\ faults \in 0..MaxFaults
    /\ crashes \in 0..MaxCrashes
    /\ minted \in [FileIds -> Users \cup {Absent}]
    /\ stored \subseteq FileIds
    /\ removing \subseteq FileIds
    /\ acked \subseteq FileIds

\* A file that can be listed has all of its content on disk until its owner
\* asks for its removal, unless the database kept a row it never confirmed.
RowsHaveContent ==
    \A f \in FileIds : rows[f] # Absent =>
        \/ disk[f] = "complete"
        \/ f \in removing
        \/ f \notin stored /\ faults > 0 /\ "unanswered" \in FaultModes

\* An upload answered 201 stays, row and content, until a DELETE for it.
UploadsKept ==
    \A f \in stored \ removing : rows[f] # Absent /\ disk[f] = "complete"

Orphan(f) ==
    /\ disk[f] # Absent
    /\ rows[f] = Absent
    /\ \A t \in Threads : thread[t] # Absent => thread[t].id # f

\* Upload's compensating removals do their work: it takes a crash or two
\* failing calls to leave a file behind that no row names.
NoOrphanFileWithoutDoubleFault ==
    (\E f \in FileIds : Orphan(f)) => crashes > 0 \/ faults >= 2

\* DELETE answered 204 only once row and content are gone, and for good,
\* whatever other DELETEs of the same file, failures and crashes do.
AckedFileGone == \A f \in acked : rows[f] = Absent /\ disk[f] = Absent

\* Only the user who uploaded a file has it removed.
OnlyUploaderRemoves ==
    [][\A f \in FileIds :
        \/ disk[f] # Absent /\ disk'[f] = Absent
        \/ rows[f] # Absent /\ rows'[f] = Absent
        => \E t \in Threads : /\ thread[t] # Absent
                              /\ thread[t].id = f
                              /\ thread[t].user = minted[f]
                              /\ thread'[t] # thread[t]]_vars

-----------------------------------------------------------------------------
(* Liveness.                                                               *)

\* A row whose file is gone from disk does not stay: the owner's next DELETE
\* that reaches the database removes it.
FileDeleteConverges ==
    \A f \in FileIds : f \in removing /\ disk[f] = Absent ~> rows[f] = Absent

=============================================================================
