------------------------------ MODULE LogTable ------------------------------
(***************************************************************************)
(* What a log store keeps, entry by entry.  Without failures this is       *)
(* InMemoryLogStore (internal/logger, memory_store.go): Write appends and  *)
(* Clear removes what is older.                                            *)
(*                                                                         *)
(* A store that is not in memory may fail half-way.  A failed Write leaves *)
(* its entry or not, and the store damaged; the next Write on a damaged    *)
(* store is lost, and may take the last entry with it.  A failed Clear     *)
(* keeps only a first part of what it should have kept.  This is the       *)
(* abstract specification FileLogStore is shown to implement.              *)
(***************************************************************************)
EXTENDS Naturals, Sequences, Filtering

CONSTANTS Entries,      \* records with a field at, their timestamp
          Times         \* what Clear may be called with

VARIABLES entries,
          damaged,      \* whether the last Write failed
          failures      \* how many operations failed

vars == <<entries, damaged, failures>>

Newer(t) == Filter(entries, {e \in Entries : ~(e.at < t)})

ButLast == SubSeq(entries, 1, Len(entries) - 1)

-----------------------------------------------------------------------------

Init == entries = <<>> /\ damaged = FALSE /\ failures = 0

Write(e) ==
    /\ \/ ~damaged /\ entries' = Append(entries, e)
       \/ damaged /\ entries' \in {entries, ButLast}
    /\ damaged' = FALSE
    /\ UNCHANGED failures

WriteFails(e) ==
    /\ entries' \in {entries, IF damaged THEN ButLast ELSE Append(entries, e)}
    /\ damaged' = TRUE
    /\ failures' = failures + 1

Clear(t) ==
    /\ entries' = Newer(t)
    /\ damaged' = FALSE
    /\ UNCHANGED failures

ClearFails(t) ==
    /\ \E k \in 0..Len(Newer(t)) : entries' = SubSeq(Newer(t), 1, k)
    /\ damaged' \in BOOLEAN
    /\ failures' = failures + 1

Next == \/ \E e \in Entries : Write(e) \/ WriteFails(e)
        \/ \E t \in Times : Clear(t) \/ ClearFails(t)

Spec == Init /\ [][Next]_vars

=============================================================================
