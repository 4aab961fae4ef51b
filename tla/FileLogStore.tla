---------------------------- MODULE FileLogStore ----------------------------
(***************************************************************************)
(* internal/logger, file_store.go: log entries as JSON lines in one file.  *)
(* Write appends a line; Read and Clear scan all lines and skip those that *)
(* do not parse; Clear truncates the file and writes back what it keeps.   *)
(*                                                                         *)
(* The mutex makes each operation one step, also where it fails: a full    *)
(* disk, or the end of the process, may cut what is being written anywhere *)
(* and the rest of the line is never written.  A line without its newline  *)
(* runs into the next one.  Operations that fail before they write change  *)
(* nothing.                                                                *)
(***************************************************************************)
EXTENDS Naturals, Sequences, FiniteSets, Filtering

CONSTANTS
    Levels,
    Malformed,      \* what a line holds that does not parse
    MaxEntries,     \* bound on the entries made
    MaxTears,       \* bound on writes that are cut
    MaxBotched      \* bound on clears that are cut

\* LogManager's entries, numbered in the order in which they are written.
\* Timestamps come from the callers and need not rise with them.
Entry == [id : 1..MaxEntries, level : Levels, at : 1..MaxEntries]

\* A line, and whether it exceeds the 64 KB the scanner reads at most.
Line == [entry : Entry \cup {Malformed}, long : BOOLEAN]

\* The lines that parse.
Parsing == [entry : Entry, long : BOOLEAN]

ASSUME BoundsAssumption ==
    MaxEntries \in Nat /\ MaxTears \in Nat /\ MaxBotched \in Nat

ASSUME MalformedAssumption == Malformed \notin Entry

VARIABLES
    file,           \* the lines of the file
    unterminated,   \* whether the last line lacks its newline
    now,            \* entries made so far, and the time of the last one
    \* History, kept for the properties only:
    acked,          \* entries whose Write returned no error
    cleared,        \* entries that a Clear which returned no error removed
    tears, botched  \* how many writes and clears were cut

vars == <<file, unterminated, now, acked, cleared, tears, botched>>

-----------------------------------------------------------------------------
(* Reading.                                                                *)

\* bufio.Scanner gives up on a line that is too long, and readAllLocked
\* with it: Read and Clear return the error.
TooLong == \E i \in DOMAIN file : file[i].long

EntriesOf(lines) == [i \in DOMAIN lines |-> lines[i].entry]

\* Mutant: reading stops at the first line that does not parse.
UpToMalformed(lines) ==
    LET bad == {i \in DOMAIN lines : lines[i].entry = Malformed}
        good == {n \in 0..Len(lines) : \A i \in bad : n < i}
    IN  SubSeq(lines, 1, CHOOSE n \in good : \A m \in good : m <= n)

\* readAllLocked skips the lines that do not parse.
WellFormed(lines) == Filter(lines, Parsing)

Parsed == EntriesOf(WellFormed(file))

\* A zero time and an empty level do not filter.
Matches(e, level, since, until) ==
    /\ level # "" => e.level = level
    /\ since # 0 => ~(e.at < since)
    /\ until # 0 => ~(e.at > until)

\* Read makes new entries, which NewLogEntry stamps with the current time.
Returned(e) == [e EXCEPT !.at = now]

\* What Read returns, unless TooLong.
Read(level, since, until, limit) ==
    LET found == Filter(Parsed, {e \in Entry : Matches(e, level, since, until)})
        n == IF limit > 0 /\ limit < Len(found) THEN limit ELSE Len(found)
    IN  [i \in 1..n |-> Returned(found[i])]

-----------------------------------------------------------------------------
(* Writing.                                                                *)

NewEntry(l, t) == [id |-> now + 1, level |-> l, at |-> t]

\* The lines the file may have after line was appended to it: one that joins
\* an unterminated line does not parse, and may have become too long.
Appended(line) ==
    IF unterminated
    THEN {[file EXCEPT ![Len(file)] = [entry |-> Malformed, long |-> long]] :
            long \in {b \in BOOLEAN : line.long \/ file[Len(file)].long => b}}
    ELSE {Append(file, line)}

\* A line cut short, the last cut being the one before its newline.
Cuts(line) == {line} \cup {[entry |-> Malformed, long |-> long] :
                            long \in {b \in BOOLEAN : b => line.long}}

\* Mutant: the timestamp is not encoded.
Undated(e) == [e EXCEPT !.at = 0]

Encoded(e) == e

Write(l, t, long) ==
    /\ now < MaxEntries
    /\ now' = now + 1
    /\ file' \in Appended([entry |-> Encoded(NewEntry(l, t)), long |-> long])
    /\ unterminated' = FALSE
    /\ acked' = acked \cup {now + 1}
    /\ UNCHANGED <<cleared, tears, botched>>

WriteCut(l, t, long) ==
    /\ now < MaxEntries
    /\ tears < MaxTears
    /\ now' = now + 1
    /\ tears' = tears + 1
    /\ \E cut \in Cuts([entry |-> Encoded(NewEntry(l, t)), long |-> long]) :
            file' \in Appended(cut)
    /\ unterminated' = TRUE
    /\ UNCHANGED <<acked, cleared, botched>>

\* Mutant: an entry as old as the given time is removed too.
NotNewer(e, t) == e.at <= t

Older(e, t) == e.at < t

Kept(t) == Filter(WellFormed(file), {x \in Parsing : ~Older(x.entry, t)})

\* Mutant: the file is opened without O_TRUNC.
NotTruncated == WellFormed(file)

Truncated == <<>>

Clear(t) ==
    /\ ~TooLong
    /\ file' = Truncated \o Kept(t)
    /\ unterminated' = FALSE
    /\ cleared' = cleared \cup {Parsed[i].id :
                        i \in {k \in DOMAIN Parsed : Older(Parsed[k], t)}}
    /\ UNCHANGED <<now, acked, tears, botched>>

\* The lines before the k-th are written, the k-th cut or not begun.
ClearCut(t) ==
    /\ ~TooLong
    /\ botched < MaxBotched
    /\ botched' = botched + 1
    /\ \E k \in 1..Len(Kept(t)) + 1 :
        LET whole == Truncated \o SubSeq(Kept(t), 1, k - 1)
        IN  \/ file' = whole /\ unterminated' = FALSE
            \/ /\ k <= Len(Kept(t))
               /\ \E cut \in Cuts(Kept(t)[k]) : file' = Append(whole, cut)
               /\ unterminated' = TRUE
    /\ UNCHANGED <<now, acked, cleared, tears>>

-----------------------------------------------------------------------------

Init ==
    /\ file = <<>>
    /\ unterminated = FALSE
    /\ now = 0
    /\ acked = {}
    /\ cleared = {}
    /\ tears = 0
    /\ botched = 0

Next ==
    \/ \E l \in Levels, t \in 1..now + 1, long \in BOOLEAN :
            Write(l, t, long) \/ WriteCut(l, t, long)
    \/ \E t \in 1..MaxEntries : Clear(t) \/ ClearCut(t)

Spec == Init /\ [][Next]_vars

-----------------------------------------------------------------------------
(* Safety.                                                                 *)

\* Types: a line that parses has an entry with its timestamp, and only a line
\* can lack its newline.
TypeOK ==
    /\ file \in Seq(Line)
    /\ unterminated \in BOOLEAN
    /\ unterminated => file # <<>>
    /\ now \in 0..MaxEntries
    /\ acked \subseteq 1..MaxEntries
    /\ cleared \subseteq 1..MaxEntries
    /\ tears \in 0..MaxTears
    /\ botched \in 0..MaxBotched

\* reader.go: the order of Read is write order.  However often the file was
\* cut and rewritten, no entry is read twice or before an earlier one.
ReadInWriteOrder ==
    LET all == Read("", 0, 0, 0)
    IN  \A i, j \in DOMAIN all : i < j => all[i].id < all[j].id

\* Written without an error and not removed by a Clear, but not read.
Lost == {i \in acked \ cleared :
            \A k \in DOMAIN Read("", 0, 0, 0) : Read("", 0, 0, 0)[k].id # i}

\* "skip a malformed line rather than failing the whole read": a write that
\* is cut costs at most one of the entries that were written properly, the
\* next, as long as no line is too long and no Clear was cut.
TearsCostOneEach ==
    botched = 0 /\ ~TooLong => Cardinality(Lost) <= tears

\* Entry by entry the file is the table that InMemoryLogStore is, except for
\* what failed operations do: Clear removes exactly what is older.
Table == INSTANCE LogTable WITH
            Entries <- Entry,
            Times <- 1..MaxEntries,
            entries <- Parsed,
            damaged <- unterminated,
            failures <- tears + botched

\* Every operation of the file is one of that table.
TableSpec == Table!Spec

-----------------------------------------------------------------------------
(* What the documentation says and the code does not do.                   *)

\* reader.go:5: a LogFilter "narrows a Read down by time range".  What Read
\* returns should lie in that range.
ReadWithinFilter ==
    \A since, until \in 0..MaxEntries :
        LET found == Read("", since, until, 0)
        IN  \A i \in DOMAIN found : Matches(found[i], "", since, until)

=============================================================================
