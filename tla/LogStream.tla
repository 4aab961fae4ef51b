------------------------------ MODULE LogStream ------------------------------
(***************************************************************************)
(* What LogManager promises its callers: an entry is either accepted or    *)
(* refused; accepted entries are processed once each, in the order they    *)
(* were accepted; after the stream is shut none is accepted any more, and  *)
(* those accepted before are still processed.                              *)
(*                                                                         *)
(* This is an abstract specification: it models no code.  LogManager is    *)
(* shown to implement it.                                                  *)
(***************************************************************************)
EXTENDS Naturals, Sequences

CONSTANT Entries

VARIABLES accepted, processed, open

vars == <<accepted, processed, open>>

Init == accepted = <<>> /\ processed = <<>> /\ open = TRUE

Accept(e) ==
    /\ open
    /\ \A i \in DOMAIN accepted : accepted[i] # e
    /\ accepted' = Append(accepted, e)
    /\ UNCHANGED <<processed, open>>

Process ==
    /\ Len(processed) < Len(accepted)
    /\ processed' = Append(processed, accepted[Len(processed) + 1])
    /\ UNCHANGED <<accepted, open>>

Shut == open' = FALSE /\ UNCHANGED <<accepted, processed>>

Next == (\E e \in Entries : Accept(e)) \/ Process \/ Shut

Spec == Init /\ [][Next]_vars

=============================================================================
