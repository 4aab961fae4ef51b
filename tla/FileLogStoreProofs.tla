------------------------- MODULE FileLogStoreProofs -------------------------
(***************************************************************************)
(* Proofs about FileLogStore for every number of entries, of levels and of *)
(* writes and clears that are cut, wherever they are cut.  Everything is   *)
(* said of the lines that parse: what each operation makes of them is      *)
(* stated once, and the types, the order of the entries, their losses and  *)
(* the refinement of LogTable follow from it.                              *)
(***************************************************************************)
EXTENDS FileLogStore, FilteringProofs, SequenceTheorems, FiniteSetTheorems,
        TLAPS

-----------------------------------------------------------------------------
(* Lines and the entries in them.                                          *)

\* What parses is a line, and holds an entry.
LEMMA ParsingLines ==
    /\ Parsing \subseteq Line
    /\ \A x \in Line : x \in Parsing <=> x.entry # Malformed
    /\ \A x \in Parsing : x.entry \in Entry
BY MalformedAssumption DEF Parsing, Line

\* Reading keeps the lines that parse, all of them.
LEMMA WellFormedType ==
    ASSUME NEW s \in Seq(Line)
    PROVE  /\ WellFormed(s) \in Seq(Parsing)
           /\ WellFormed(s) \in Seq(Line)
           /\ Range(WellFormed(s)) = Range(s) \cap Parsing
<1>1. WellFormed(s) \in Seq(Line \cap Parsing)
  BY FilterType DEF WellFormed
<1>2. Line \cap Parsing \subseteq Parsing /\ Parsing \subseteq Line
  BY ParsingLines
<1>3. WellFormed(s) \in Seq(Parsing)
  BY <1>1, <1>2, SeqMonotonic
<1>4. WellFormed(s) \in Seq(Line)
  BY <1>2, <1>3, SeqMonotonic
<1>5. QED
  BY <1>3, <1>4, FilterRange DEF WellFormed

\* One line more is read as one more, if it parses.
LEMMA WellFormedAppend ==
    ASSUME NEW s \in Seq(Line), NEW x \in Line
    PROVE  WellFormed(Append(s, x)) =
            IF x.entry = Malformed THEN WellFormed(s)
                                   ELSE Append(WellFormed(s), x)
BY FilterAppend, ParsingLines DEF WellFormed

\* Nothing is skipped where everything parses.
LEMMA WellFormedAll ==
    ASSUME NEW s \in Seq(Parsing)
    PROVE  WellFormed(s) = s
BY FilterAll DEF WellFormed

\* The entries of lines that parse.
LEMMA EntriesType ==
    ASSUME NEW s \in Seq(Parsing)
    PROVE  /\ EntriesOf(s) \in Seq(Entry)
           /\ Len(EntriesOf(s)) = Len(s)
           /\ DOMAIN EntriesOf(s) = 1..Len(s)
           /\ \A i \in 1..Len(s) : EntriesOf(s)[i] = s[i].entry
<1>1. DOMAIN s = 1..Len(s) /\ Len(s) \in Nat
  OBVIOUS
<1>2. \A i \in 1..Len(s) : s[i].entry \in Entry
  BY ParsingLines
<1>3. EntriesOf(s) = [i \in 1..Len(s) |-> s[i].entry]
  BY <1>1 DEF EntriesOf
<1>4. EntriesOf(s) \in Seq(Entry)
  BY <1>1, <1>2, <1>3, IsASeq
<1>5. QED
  BY <1>1, <1>3, <1>4, LenProperties

\* The entry of the last line is the last entry.
LEMMA EntriesAppend ==
    ASSUME NEW s \in Seq(Parsing), NEW x \in Parsing
    PROVE  EntriesOf(Append(s, x)) = Append(EntriesOf(s), x.entry)
<1> DEFINE u == Append(s, x)
           a == EntriesOf(s)
           b == EntriesOf(u)
           c == Append(a, x.entry)
<1>1. x.entry \in Entry
  BY ParsingLines
<1>2. /\ u \in Seq(Parsing) /\ Len(u) = Len(s) + 1 /\ Len(s) \in Nat
      /\ \A i \in 1..Len(s) : u[i] = s[i]
      /\ u[Len(s) + 1] = x
  BY AppendProperties
<1>3. /\ a \in Seq(Entry) /\ Len(a) = Len(s)
      /\ \A i \in 1..Len(s) : a[i] = s[i].entry
  BY EntriesType
<1> HIDE DEF u, a
<1>4. /\ b \in Seq(Entry) /\ Len(b) = Len(u)
      /\ \A i \in 1..Len(u) : b[i] = u[i].entry
  BY <1>2, EntriesType
<1>5. /\ c \in Seq(Entry) /\ Len(c) = Len(a) + 1
      /\ \A i \in 1..Len(a) : c[i] = a[i]
      /\ c[Len(a) + 1] = x.entry
  BY <1>1, <1>3, AppendProperties
<1> HIDE DEF b, c
<1>6. ASSUME NEW i \in 1..Len(b)
      PROVE  b[i] = c[i]
  <2>1. i \in 1..Len(s) \/ i = Len(s) + 1
    BY <1>2, <1>4, <1>6, UpToSuccessor
  <2>2. QED
    BY <1>2, <1>3, <1>4, <1>5, <1>6, <2>1
<1>7. b = c
  BY <1>2, <1>3, <1>4, <1>5, <1>6, SeqEqual
<1>8. QED
  BY <1>7 DEF a, b, c, u

\* The entries of the first lines are the first entries.
LEMMA EntriesPrefix ==
    ASSUME NEW s \in Seq(Parsing), NEW k \in 0..Len(s)
    PROVE  EntriesOf(SubSeq(s, 1, k)) = SubSeq(EntriesOf(s), 1, k)
<1> DEFINE u == SubSeq(s, 1, k)
           a == EntriesOf(s)
           b == EntriesOf(u)
           c == SubSeq(a, 1, k)
<1>1. k \in Nat /\ k <= Len(s) /\ Len(s) \in Nat
  OBVIOUS
<1>2. /\ u \in Seq(Parsing) /\ Len(u) = k
      /\ \A i \in 1..k : u[i] = s[i]
  <2>1. \A i \in 1..k : s[i] \in Parsing
    BY <1>1
  <2>2. QED
    BY <1>1, <2>1, SubSeqProperties
<1>3. /\ a \in Seq(Entry) /\ Len(a) = Len(s)
      /\ \A i \in 1..Len(s) : a[i] = s[i].entry
  BY EntriesType
<1> HIDE DEF u, a
<1>4. /\ b \in Seq(Entry) /\ Len(b) = k
      /\ \A i \in 1..k : b[i] = u[i].entry
  BY <1>2, EntriesType
<1>5. /\ c \in Seq(Entry) /\ Len(c) = k
      /\ \A i \in 1..k : c[i] = a[i]
  <2>1. \A i \in 1..k : a[i] \in Entry
    BY <1>1, <1>3
  <2>2. QED
    BY <1>1, <2>1, SubSeqProperties
<1> HIDE DEF b, c
<1>6. \A i \in 1..Len(b) : b[i] = c[i]
  BY <1>1, <1>2, <1>3, <1>4, <1>5
<1>7. b = c
  BY <1>4, <1>5, <1>6, SeqEqual
<1>8. QED
  BY <1>7 DEF a, b, c, u

\* A first part of a sequence grows by the element after it.
LEMMA SubSeqGrowsByOne ==
    ASSUME NEW S, NEW s \in Seq(S), NEW k \in 1..Len(s)
    PROVE  Append(SubSeq(s, 1, k - 1), s[k]) = SubSeq(s, 1, k)
<1> DEFINE m == 1
<1>1. m \in Nat /\ k \in Nat /\ m <= k /\ k <= Len(s) /\ Len(s) \in Nat
  OBVIOUS
<1>2. SubSeq(s, 1, k) = Append(SubSeq(s, 1, k - 1), s[k])
  BY <1>1, SubSeqRecursiveSecond
<1>3. QED
  BY <1>2

\* The lines, and the entries, that Clear keeps.
NotOlder(t) == {x \in Parsing : ~Older(x.entry, t)}

NewerThan(t) == {e \in Entry : ~(e.at < t)}

\* The entries of the lines kept are the entries kept.
LEMMA EntriesFilter ==
    ASSUME NEW t, NEW s \in Seq(Parsing)
    PROVE  EntriesOf(Filter(s, NotOlder(t))) = Filter(EntriesOf(s), NewerThan(t))
<1> DEFINE P == {u \in Seq(Parsing) :
                    EntriesOf(Filter(u, NotOlder(t)))
                        = Filter(EntriesOf(u), NewerThan(t))}
<1>1. <<>> \in P
  <2>1. EntriesOf(<<>>) = <<>>
    BY DEF EntriesOf
  <2>2. QED
    BY <2>1, FilterEmpty, EmptySeq
<1>2. ASSUME NEW u \in Seq(Parsing), NEW x \in Parsing, u \in P
      PROVE  Append(u, x) \in P
  <2> DEFINE v == Append(u, x)
             r == Filter(u, NotOlder(t))
             a == EntriesOf(u)
             e == x.entry
  <2>1. e \in Entry /\ (x \in NotOlder(t) <=> e \in NewerThan(t))
    BY <1>2, ParsingLines DEF NotOlder, NewerThan, Older
  <2>2. v \in Seq(Parsing) /\ EntriesOf(v) = Append(a, e) /\ a \in Seq(Entry)
    BY <1>2, AppendProperties, EntriesAppend, EntriesType
  <2>3. Filter(v, NotOlder(t)) = IF x \in NotOlder(t) THEN Append(r, x) ELSE r
    BY <1>2, FilterAppend
  <2>4. EntriesOf(r) = Filter(a, NewerThan(t))
    BY <1>2
  <2>5. r \in Seq(Parsing)
    <3>1. r \in Seq(Parsing \cap NotOlder(t))
      BY <1>2, FilterType
    <3>2. QED
      BY <3>1, SeqMonotonic
  <2> HIDE DEF v, r, a, e
  <2>6. Filter(Append(a, e), NewerThan(t))
            = IF e \in NewerThan(t) THEN Append(Filter(a, NewerThan(t)), e)
                                    ELSE Filter(a, NewerThan(t))
    BY <2>1, <2>2, FilterAppend
  <2>7. EntriesOf(Append(r, x)) = Append(EntriesOf(r), e)
    BY <1>2, <2>5, EntriesAppend DEF e
  <2>8. EntriesOf(Filter(v, NotOlder(t))) = Filter(EntriesOf(v), NewerThan(t))
    BY <2>1, <2>2, <2>3, <2>4, <2>6, <2>7
  <2>9. QED
    BY <2>2, <2>8 DEF v
<1> HIDE DEF P
<1>3. s \in P
  BY <1>1, <1>2, SeqSetInduction
<1>4. QED
  BY <1>3 DEF P

-----------------------------------------------------------------------------
(* What each operation makes of the lines that parse.                      *)

Readable == WellFormed(file)

NewLine(l, t, long) == [entry |-> Encoded(NewEntry(l, t)), long |-> long]

\* The last line, where no newline ends it.
LastLine == file[Len(file)]

\* What is written next joins the last line, and neither can be read.
LastLineSpoilt ==
    \/ LastLine.entry = Malformed /\ Readable' = Readable
    \/ LastLine \in Parsing /\ Readable = Append(Readable', LastLine)

\* The line a Write makes.
LEMMA NewLineType ==
    ASSUME TypeOK, now < MaxEntries, NEW l \in Levels, NEW t \in 1..(now + 1),
           NEW long \in BOOLEAN
    PROVE  /\ NewLine(l, t, long) \in Parsing
           /\ NewLine(l, t, long).entry = Encoded(NewEntry(l, t))
           /\ NewLine(l, t, long).entry.id = now + 1
           /\ Encoded(NewEntry(l, t)) \in Entry
           /\ now + 1 \in 1..MaxEntries
<1>1. /\ now \in Nat /\ MaxEntries \in Nat /\ now + 1 \in 1..MaxEntries
      /\ t \in 1..MaxEntries
  BY BoundsAssumption DEF TypeOK
<1>2. Encoded(NewEntry(l, t)) \in Entry
  BY <1>1 DEF Encoded, NewEntry, Entry
<1>3. QED
  BY <1>1, <1>2 DEF NewLine, Parsing, Encoded, NewEntry

\* A line that is cut is the whole line, or does not parse.
LEMMA CutLine ==
    ASSUME NEW x \in Line, NEW cut \in Cuts(x)
    PROVE  cut \in Line /\ (cut = x \/ cut.entry = Malformed)
BY DEF Cuts, Line

\* What is written goes behind the last line, or into it.
LEMMA AppendedLine ==
    ASSUME TypeOK, NEW x \in Line, file' \in Appended(x)
    PROVE  /\ file' \in Seq(Line) /\ file' # <<>>
           /\ ~unterminated =>
                /\ file' = Append(file, x)
                /\ file'[Len(file')] = x
                /\ Readable' = IF x.entry = Malformed THEN Readable
                                                      ELSE Append(Readable, x)
           /\ unterminated =>
                /\ file'[Len(file')].entry = Malformed
                /\ LastLineSpoilt
<1>1. file \in Seq(Line)
  BY DEF TypeOK
<1>2. CASE ~unterminated
  <2>1. file' = Append(file, x)
    BY <1>2 DEF Appended
  <2>2. /\ file' \in Seq(Line) /\ file' # <<>>
        /\ file'[Len(file')] = x
    <3>1. /\ Append(file, x) \in Seq(Line) /\ Append(file, x) # <<>>
          /\ Len(Append(file, x)) = Len(file) + 1
          /\ Append(file, x)[Len(file) + 1] = x
      BY <1>1, AppendProperties
    <3>2. QED
      BY <2>1, <3>1
  <2>3. WellFormed(Append(file, x)) =
            IF x.entry = Malformed THEN WellFormed(file)
                                   ELSE Append(WellFormed(file), x)
    BY <1>1, WellFormedAppend
  <2>4. QED
    BY <1>2, <2>1, <2>2, <2>3 DEF Readable
<1>3. CASE unterminated
  <2>1. file # <<>>
    BY <1>3 DEF TypeOK
  <2>2. PICK long \in BOOLEAN :
            file' = [file EXCEPT ![Len(file)] = [entry |-> Malformed, long |-> long]]
    BY <1>3 DEF Appended
  <2> DEFINE bad == [entry |-> Malformed, long |-> long]
  <2>3. PICK front \in Seq(Line), last \in Line :
            /\ file = Append(front, last)
            /\ Len(front) + 1 = Len(file)
            /\ last = file[Len(file)]
    BY <1>1, <2>1, FrontAndLast
  <2>4. bad \in Line /\ bad.entry = Malformed
    BY DEF Line
  <2>5. file' = [file EXCEPT ![Len(file)] = bad]
    BY <2>2
  <2> HIDE DEF bad
  <2>6. /\ Append(front, bad) \in Seq(Line) /\ Append(front, bad) # <<>>
        /\ Len(Append(front, bad)) = Len(front) + 1
        /\ \A i \in 1..Len(front) : Append(front, bad)[i] = front[i]
        /\ Append(front, bad)[Len(front) + 1] = bad
    BY <2>4, AppendProperties
  <2>7. /\ \A i \in 1..Len(front) : file[i] = front[i]
        /\ Len(front) \in Nat
    BY <2>3, AppendProperties
  <2>8. file' = Append(front, bad)
    <3>1. file' \in Seq(Line) /\ Len(file') = Len(file)
      BY <1>1, <2>1, <2>4, <2>5, ExceptSeq
    <3>2. /\ file'[Len(file)] = bad
          /\ \A i \in 1..Len(front) : file'[i] = file[i]
      <4>1. /\ DOMAIN file = 1..Len(file) /\ Len(file) \in DOMAIN file
            /\ \A i \in 1..Len(front) : i \in DOMAIN file /\ i # Len(file)
        BY <1>1, <2>3, <2>7
      <4>2. QED
        BY <2>5, <4>1
    <3>3. ASSUME NEW i \in 1..Len(file')
          PROVE  file'[i] = Append(front, bad)[i]
      <4>1. i \in 1..Len(front) \/ i = Len(front) + 1
        BY <2>3, <2>7, <3>1, <3>3, UpToSuccessor
      <4>2. QED
        BY <2>3, <2>6, <2>7, <3>2, <4>1
    <3>4. QED
      BY <2>3, <2>6, <3>1, <3>3, SeqEqual
  <2>9. file' \in Seq(Line) /\ file' # <<>>
        /\ file'[Len(file')].entry = Malformed
    BY <2>4, <2>6, <2>8
  <2>10. Readable' = WellFormed(front)
    <3>1. WellFormed(Append(front, bad)) = WellFormed(front)
      BY <2>4, WellFormedAppend
    <3>2. QED
      BY <2>8, <3>1 DEF Readable
  <2>11. Readable = IF last.entry = Malformed THEN WellFormed(front)
                                              ELSE Append(WellFormed(front), last)
    <3>1. WellFormed(Append(front, last)) =
            IF last.entry = Malformed THEN WellFormed(front)
                                      ELSE Append(WellFormed(front), last)
      BY WellFormedAppend
    <3>2. QED
      BY <2>3, <3>1 DEF Readable
  <2>12. LastLineSpoilt
    BY <2>3, <2>10, <2>11, ParsingLines DEF LastLineSpoilt, LastLine
  <2>13. QED
    BY <1>3, <2>9, <2>12
<1>4. QED
  BY <1>2, <1>3 DEF TypeOK

\* Clear leaves those of the lines that it should.
LEMMA KeptLines ==
    ASSUME TypeOK, NEW t
    PROVE  /\ Kept(t) \in Seq(Parsing)
           /\ Kept(t) = Filter(Readable, NotOlder(t))
           /\ Range(Kept(t)) = Range(Readable) \cap NotOlder(t)
<1>1. Kept(t) = Filter(Readable, NotOlder(t))
  BY DEF Kept, Readable, NotOlder
<1>2. Readable \in Seq(Parsing)
  BY WellFormedType DEF TypeOK, Readable
<1>3. Filter(Readable, NotOlder(t)) \in Seq(Parsing \cap NotOlder(t))
  BY <1>2, FilterType
<1>4. Filter(Readable, NotOlder(t)) \in Seq(Parsing)
  BY <1>3, SeqMonotonic
<1>5. QED
  BY <1>1, <1>2, <1>4, FilterRange

\* The file is what Clear keeps.
LEMMA ClearLines ==
    ASSUME TypeOK, NEW t, Clear(t)
    PROVE  file' = Kept(t) /\ file' \in Seq(Line) /\ Readable' = Kept(t)
<1>1. Kept(t) \in Seq(Parsing)
  BY KeptLines
<1>2. file' = Kept(t)
  <2>1. file' = <<>> \o Kept(t)
    BY DEF Clear, Truncated
  <2>2. QED
    BY <1>1, <2>1, ConcatEmptySeq
<1>3. Kept(t) \in Seq(Line)
  BY <1>1, ParsingLines, SeqMonotonic
<1>4. WellFormed(Kept(t)) = Kept(t)
  BY <1>1, WellFormedAll
<1>5. QED
  BY <1>2, <1>3, <1>4 DEF Readable

\* A Clear that is cut leaves a first part of what it should.
LEMMA ClearCutLines ==
    ASSUME TypeOK, NEW t, ClearCut(t)
    PROVE  /\ file' \in Seq(Line)
           /\ unterminated' \in BOOLEAN
           /\ unterminated' => file' # <<>>
           /\ \E k \in 0..Len(Kept(t)) : Readable' = SubSeq(Kept(t), 1, k)
<1> DEFINE kept == Kept(t)
<1>1. kept \in Seq(Parsing) /\ Len(kept) \in Nat
  BY KeptLines, LenProperties
<1>2. PICK k \in 1..(Len(kept) + 1) :
        LET whole == <<>> \o SubSeq(kept, 1, k - 1)
        IN  \/ file' = whole /\ unterminated' = FALSE
            \/ /\ k <= Len(kept)
               /\ \E cut \in Cuts(kept[k]) : file' = Append(whole, cut)
               /\ unterminated' = TRUE
  BY DEF ClearCut, Truncated
<1> HIDE DEF kept
<1> DEFINE whole == SubSeq(kept, 1, k - 1)
<1>3. k - 1 \in 0..Len(kept) /\ k \in Nat \ {0}
  BY <1>1
<1>4. whole \in Seq(Parsing)
  <2>1. \A i \in 1..(k - 1) : kept[i] \in Parsing
    BY <1>1, <1>3
  <2>2. QED
    BY <1>1, <1>3, <2>1, SubSeqProperties
<1>5. <<>> \o whole = whole
  BY <1>4, ConcatEmptySeq
<1>6. whole \in Seq(Line) /\ WellFormed(whole) = whole
  BY <1>4, ParsingLines, SeqMonotonic, WellFormedAll
<1>7. CASE file' = whole /\ unterminated' = FALSE
  <2>1. Readable' = SubSeq(kept, 1, k - 1)
    BY <1>6, <1>7 DEF Readable
  <2>2. QED
    BY <1>3, <1>6, <1>7, <2>1 DEF kept
<1>8. CASE /\ k <= Len(kept)
           /\ \E cut \in Cuts(kept[k]) : file' = Append(whole, cut)
           /\ unterminated' = TRUE
  <2>1. PICK cut \in Cuts(kept[k]) : file' = Append(whole, cut)
    BY <1>8
  <2>2. kept[k] \in Parsing /\ kept[k] \in Line /\ k \in 1..Len(kept)
    BY <1>1, <1>3, <1>8, ParsingLines
  <2>3. cut \in Line /\ (cut = kept[k] \/ cut.entry = Malformed)
    BY <2>2, CutLine
  <2>4. Append(whole, kept[k]) = SubSeq(kept, 1, k)
    <3>1. k - 1 \in Nat /\ k <= Len(kept)
      BY <1>3, <1>8
    <3>2. QED
      BY <1>1, <2>2, SubSeqGrowsByOne
  <2> HIDE DEF whole
  <2>5. file' \in Seq(Line) /\ file' # <<>>
    BY <1>6, <2>1, <2>3, AppendProperties
  <2>6. Readable' = IF cut.entry = Malformed THEN whole ELSE Append(whole, cut)
    BY <1>6, <2>1, <2>3, WellFormedAppend DEF Readable
  <2>7. Readable' = SubSeq(kept, 1, k - 1) \/ Readable' = SubSeq(kept, 1, k)
    BY <2>3, <2>4, <2>6 DEF whole
  <2>8. k \in 0..Len(kept)
    BY <2>2
  <2>9. QED
    BY <1>3, <1>8, <2>5, <2>7, <2>8 DEF kept
<1>9. QED
  BY <1>2, <1>5, <1>7, <1>8

-----------------------------------------------------------------------------
(* Types.                                                                  *)

\* Parsed is the entries of the lines that parse.
LEMMA ParsedEntries ==
    ASSUME TypeOK
    PROVE  /\ Readable \in Seq(Parsing)
           /\ Parsed = EntriesOf(Readable)
           /\ Parsed \in Seq(Entry)
           /\ DOMAIN Parsed = 1..Len(Readable)
           /\ Len(Parsed) = Len(Readable) /\ Len(Readable) \in Nat
           /\ \A i \in 1..Len(Readable) : Parsed[i] = Readable[i].entry
<1>1. Readable \in Seq(Parsing)
  BY WellFormedType DEF TypeOK, Readable
<1>2. Parsed = EntriesOf(Readable)
  BY DEF Parsed, Readable
<1>3. QED
  BY <1>1, <1>2, EntriesType, LenProperties

\* What a Clear removed are entries.
LEMMA ClearedTypes ==
    ASSUME TypeOK, NEW t
    PROVE  {Parsed[i].id : i \in {k \in DOMAIN Parsed : Older(Parsed[k], t)}}
                \subseteq 1..MaxEntries
<1>1. \A i \in DOMAIN Parsed : Parsed[i] \in Entry
  BY ParsedEntries
<1>2. \A e \in Entry : e.id \in 1..MaxEntries
  BY DEF Entry
<1>3. QED
  BY <1>1, <1>2

\* The file, and what is known of it, keep their types.
LEMMA NextTypes == TypeOK /\ [Next]_vars => TypeOK'
<1> SUFFICES ASSUME TypeOK, [Next]_vars
             PROVE  TypeOK'
  OBVIOUS
<1>1. /\ MaxEntries \in Nat /\ MaxTears \in Nat /\ MaxBotched \in Nat
      /\ now \in Nat /\ tears \in Nat /\ botched \in Nat
  BY BoundsAssumption DEF TypeOK
<1>2. ASSUME NEW l \in Levels, NEW t \in 1..(now + 1), NEW long \in BOOLEAN,
             Write(l, t, long)
      PROVE  TypeOK'
  <2> DEFINE x == NewLine(l, t, long)
  <2>1. now < MaxEntries /\ file' \in Appended(x)
    BY <1>2 DEF Write, NewLine
  <2>2. x \in Line /\ now + 1 \in 1..MaxEntries
    BY <1>2, <2>1, NewLineType, ParsingLines
  <2> HIDE DEF x
  <2>3. file' \in Seq(Line)
    BY <2>1, <2>2, AppendedLine
  <2>4. now' = now + 1 /\ acked' = acked \cup {now + 1}
        /\ unterminated' = FALSE /\ UNCHANGED <<cleared, tears, botched>>
    BY <1>2 DEF Write
  <2>5. now' \in 0..MaxEntries /\ acked' \subseteq 1..MaxEntries
    BY <1>1, <2>2, <2>4 DEF TypeOK
  <2>6. QED
    BY <2>3, <2>4, <2>5 DEF TypeOK
<1>3. ASSUME NEW l \in Levels, NEW t \in 1..(now + 1), NEW long \in BOOLEAN,
             WriteCut(l, t, long)
      PROVE  TypeOK'
  <2> DEFINE x == NewLine(l, t, long)
  <2>1. now < MaxEntries /\ \E cut \in Cuts(x) : file' \in Appended(cut)
    BY <1>3 DEF WriteCut, NewLine
  <2>2. x \in Line /\ now + 1 \in 1..MaxEntries
    BY <1>3, <2>1, NewLineType, ParsingLines
  <2> HIDE DEF x
  <2>3. file' \in Seq(Line) /\ file' # <<>>
    BY <2>1, <2>2, CutLine, AppendedLine
  <2>4. now' = now + 1 /\ tears' = tears + 1 /\ tears < MaxTears
        /\ unterminated' = TRUE /\ UNCHANGED <<acked, cleared, botched>>
    BY <1>3 DEF WriteCut
  <2>5. now' \in 0..MaxEntries /\ tears' \in 0..MaxTears
    BY <1>1, <2>1, <2>4
  <2>6. QED
    BY <2>3, <2>4, <2>5 DEF TypeOK
<1>4. ASSUME NEW t \in 1..MaxEntries, Clear(t)
      PROVE  TypeOK'
  <2>1. file' \in Seq(Line)
    BY <1>4, ClearLines
  <2>2. cleared' \subseteq 1..MaxEntries
    BY <1>4, ClearedTypes DEF Clear, TypeOK
  <2>3. QED
    BY <1>4, <2>1, <2>2 DEF Clear, TypeOK
<1>5. ASSUME NEW t \in 1..MaxEntries, ClearCut(t)
      PROVE  TypeOK'
  <2>1. /\ file' \in Seq(Line) /\ unterminated' \in BOOLEAN
        /\ unterminated' => file' # <<>>
    BY <1>5, ClearCutLines
  <2>2. botched' \in 0..MaxBotched
        /\ UNCHANGED <<now, acked, cleared, tears>>
    BY <1>1, <1>5 DEF ClearCut
  <2>3. QED
    BY <2>1, <2>2 DEF TypeOK
<1>6. CASE UNCHANGED vars
  BY <1>6 DEF vars, TypeOK
<1>7. QED
  BY <1>2, <1>3, <1>4, <1>5, <1>6 DEF Next

\* A line that parses has the entry it was written with, and only a line can
\* lack its newline, however the file was cut and rewritten.
THEOREM StoreTypes == Spec => []TypeOK
<1>1. Init => TypeOK
  <2> SUFFICES ASSUME Init
               PROVE  TypeOK
    OBVIOUS
  <2>1. 0 \in 0..MaxEntries /\ 0 \in 0..MaxTears /\ 0 \in 0..MaxBotched
    BY BoundsAssumption
  <2>2. <<>> \in Seq(Line)
    BY EmptySeq
  <2>3. QED
    BY <2>1, <2>2 DEF Init, TypeOK
<1>2. QED
  BY <1>1, NextTypes, PTL DEF Spec

-----------------------------------------------------------------------------
(* The order of the entries.                                               *)

WriteOrder == {p \in Parsing \X Parsing : p[1].entry.id < p[2].entry.id}

\* The lines that parse are in the order in which they were written, and
\* nothing was written that was not made.
InWriteOrder ==
    /\ Ordered(Readable, WriteOrder)
    /\ \A x \in Range(Readable) : x.entry.id \in 1..now
    /\ acked \subseteq 1..now

\* A first part of what is ordered is ordered, and has no other elements.
LEMMA PrefixOrdered ==
    ASSUME NEW S, NEW s \in Seq(S), NEW R, Ordered(s, R), NEW k \in 0..Len(s)
    PROVE  Ordered(SubSeq(s, 1, k), R) /\ Range(SubSeq(s, 1, k)) \subseteq Range(s)
<1> DEFINE u == SubSeq(s, 1, k)
<1>1. k \in Nat /\ k <= Len(s) /\ Len(s) \in Nat /\ DOMAIN s = 1..Len(s)
  OBVIOUS
<1>2. /\ u \in Seq(S) /\ Len(u) = k
      /\ \A i \in 1..k : u[i] = s[i]
  <2>1. \A i \in 1..k : s[i] \in S
    BY <1>1
  <2>2. QED
    BY <1>1, <2>1, SubSeqProperties
<1> HIDE DEF u
<1>3. DOMAIN u = 1..k /\ 1..k \subseteq DOMAIN s
  BY <1>1, <1>2
<1>4. Ordered(u, R) /\ Range(u) \subseteq Range(s)
  BY <1>2, <1>3 DEF Ordered, Range
<1>5. QED
  BY <1>4 DEF u

\* Lines that are lost leave the rest in order.
LEMMA SpoiltOrdered ==
    ASSUME TypeOK, TypeOK', LastLineSpoilt, Ordered(Readable, WriteOrder)
    PROVE  /\ Ordered(Readable', WriteOrder)
           /\ Range(Readable') \subseteq Range(Readable)
<1>1. CASE Readable' = Readable
  BY <1>1
<1>2. CASE LastLine \in Parsing /\ Readable = Append(Readable', LastLine)
  <2> DEFINE r == Readable'
  <2>1. r \in Seq(Parsing)
    BY WellFormedType DEF TypeOK, Readable
  <2>2. Readable = Append(r, LastLine)
    BY <1>2
  <2> HIDE DEF r
  <2>3. Ordered(r, WriteOrder) /\ Range(Readable) = Range(r) \cup {LastLine}
    BY <1>2, <2>1, <2>2, OrderedAppend, RangeOfAppend
  <2>4. QED
    BY <2>3 DEF r
<1>3. QED
  BY <1>1, <1>2 DEF LastLineSpoilt

\* What is written is the newest entry, and nothing else changes the order.
LEMMA NextInWriteOrder ==
    ASSUME TypeOK, TypeOK', InWriteOrder, [Next]_vars
    PROVE  InWriteOrder'
<1>1. now \in Nat /\ Readable \in Seq(Parsing)
  BY BoundsAssumption, ParsedEntries DEF TypeOK
<1>2. ASSUME NEW x \in Parsing, x.entry.id = now + 1,
             Readable' = Append(Readable, x), now' = now + 1
      PROVE  /\ Ordered(Readable', WriteOrder)
             /\ \A y \in Range(Readable') : y.entry.id \in 1..now'
  <2>1. \A y \in Range(Readable) : y \in Parsing /\ y.entry.id \in 1..now
    BY <1>1 DEF InWriteOrder, Range
  <2>2. \A y \in Range(Readable) : <<y, x>> \in WriteOrder
    BY <1>1, <1>2, <2>1 DEF WriteOrder
  <2>3. Ordered(Readable', WriteOrder)
    BY <1>1, <1>2, <2>2, OrderedAppend DEF InWriteOrder
  <2>4. Range(Readable') = Range(Readable) \cup {x}
    BY <1>1, <1>2, RangeOfAppend
  <2>5. QED
    BY <1>1, <1>2, <2>1, <2>3, <2>4
<1>3. ASSUME Ordered(Readable', WriteOrder),
             Range(Readable') \subseteq Range(Readable),
             now' = now \/ now' = now + 1
      PROVE  /\ Ordered(Readable', WriteOrder)
             /\ \A y \in Range(Readable') : y.entry.id \in 1..now'
  BY <1>1, <1>3 DEF InWriteOrder
<1>4. ASSUME NEW l \in Levels, NEW t \in 1..(now + 1), NEW long \in BOOLEAN,
             Write(l, t, long) \/ WriteCut(l, t, long)
      PROVE  InWriteOrder'
  <2> DEFINE x == NewLine(l, t, long)
  <2>1. /\ now < MaxEntries /\ now' = now + 1
        /\ \E cut \in Cuts(x) : file' \in Appended(cut)
        /\ acked' \subseteq acked \cup {now + 1}
    BY <1>4 DEF Write, WriteCut, NewLine, Cuts
  <2>2. x \in Parsing /\ x \in Line /\ x.entry.id = now + 1
    BY <1>4, <2>1, NewLineType, ParsingLines
  <2> HIDE DEF x
  <2>3. PICK cut \in Cuts(x) : file' \in Appended(cut)
    BY <2>1
  <2>4. cut \in Line /\ (cut = x \/ cut.entry = Malformed)
    BY <2>2, CutLine
  <2>5. \/ Readable' = Append(Readable, x)
        \/ Readable' = Readable
        \/ LastLineSpoilt
    BY <2>3, <2>4, AppendedLine
  <2>6. /\ Ordered(Readable', WriteOrder)
        /\ \A y \in Range(Readable') : y.entry.id \in 1..now'
    <3>1. CASE Readable' = Append(Readable, x)
      BY <1>2, <2>1, <2>2, <3>1
    <3>2. CASE Readable' = Readable
      BY <1>3, <2>1, <3>2 DEF InWriteOrder
    <3>3. CASE LastLineSpoilt
      BY <1>3, <2>1, <3>3, SpoiltOrdered DEF InWriteOrder
    <3>4. QED
      BY <2>5, <3>1, <3>2, <3>3
  <2>7. acked' \subseteq 1..now'
    BY <1>1, <2>1 DEF InWriteOrder
  <2>8. QED
    BY <2>6, <2>7 DEF InWriteOrder
<1>5. ASSUME NEW t \in 1..MaxEntries, Clear(t) \/ ClearCut(t)
      PROVE  InWriteOrder'
  <2>1. /\ Kept(t) \in Seq(Parsing) /\ Kept(t) = Filter(Readable, NotOlder(t))
        /\ Range(Kept(t)) \subseteq Range(Readable)
    BY KeptLines
  <2>2. Ordered(Kept(t), WriteOrder)
    BY <1>1, <2>1, FilterOrdered DEF InWriteOrder
  <2>3. /\ Ordered(Readable', WriteOrder)
        /\ Range(Readable') \subseteq Range(Readable)
    <3>1. CASE Clear(t)
      BY <2>1, <2>2, <3>1, ClearLines
    <3>2. CASE ClearCut(t)
      <4>1. PICK k \in 0..Len(Kept(t)) : Readable' = SubSeq(Kept(t), 1, k)
        BY <3>2, ClearCutLines
      <4>2. /\ Ordered(SubSeq(Kept(t), 1, k), WriteOrder)
            /\ Range(SubSeq(Kept(t), 1, k)) \subseteq Range(Kept(t))
        BY <2>1, <2>2, PrefixOrdered
      <4>3. QED
        BY <2>1, <4>1, <4>2
    <3>3. QED
      BY <1>5, <3>1, <3>2
  <2>4. now' = now /\ acked' = acked
    BY <1>5 DEF Clear, ClearCut
  <2>5. QED
    BY <1>3, <2>3, <2>4 DEF InWriteOrder
<1>6. CASE UNCHANGED vars
  BY <1>6 DEF vars, InWriteOrder, Readable
<1>7. QED
  BY <1>4, <1>5, <1>6 DEF Next

\* Nothing is filtered and nothing limited by empty arguments.
LEMMA ReadAll ==
    ASSUME TypeOK
    PROVE  /\ DOMAIN Read("", 0, 0, 0) = 1..Len(Readable)
           /\ \A i \in 1..Len(Readable) :
                Read("", 0, 0, 0)[i].id = Readable[i].entry.id
<1> DEFINE found == Filter(Parsed, {e \in Entry : Matches(e, "", 0, 0)})
<1>1. {e \in Entry : Matches(e, "", 0, 0)} = Entry
  BY DEF Matches
<1>2. found = Parsed
  BY <1>1, ParsedEntries, FilterAll
<1>3. Read("", 0, 0, 0) = [i \in 1..Len(Parsed) |-> Returned(Parsed[i])]
  <2> DEFINE n == IF 0 > 0 /\ 0 < Len(found) THEN 0 ELSE Len(found)
  <2>1. Read("", 0, 0, 0) = [i \in 1..n |-> Returned(found[i])]
    BY DEF Read
  <2> HIDE DEF found
  <2>2. n = Len(found)
    OBVIOUS
  <2> HIDE DEF n
  <2>3. 1..n = 1..Len(Parsed)
    BY <1>2, <2>2
  <2>4. QED
    BY <1>2, <2>1, <2>3, Zenon
<1>4. ASSUME NEW i \in 1..Len(Readable)
      PROVE  Returned(Parsed[i]).id = Readable[i].entry.id
  <2>1. Parsed[i] \in Entry /\ Parsed[i] = Readable[i].entry
    BY <1>4, ParsedEntries
  <2>2. QED
    BY <2>1 DEF Returned, Entry
<1>5. QED
  BY <1>3, <1>4, ParsedEntries

\* The file is read in the order in which it was written, whatever was cut
\* and cleared.
THEOREM ReadInOrder == Spec => []ReadInWriteOrder
<1>1. Init => InWriteOrder
  <2> SUFFICES ASSUME Init
               PROVE  InWriteOrder
    OBVIOUS
  <2>1. Readable = <<>> /\ acked = {}
    BY FilterEmpty DEF Init, Readable, WellFormed
  <2>2. QED
    BY <2>1 DEF InWriteOrder, Ordered, Range
<1>2. TypeOK /\ TypeOK' /\ InWriteOrder /\ [Next]_vars => InWriteOrder'
  BY NextInWriteOrder
<1>3. TypeOK /\ InWriteOrder => ReadInWriteOrder
  <2> SUFFICES ASSUME TypeOK, InWriteOrder
               PROVE  ReadInWriteOrder
    OBVIOUS
  <2>1. ASSUME NEW i \in DOMAIN Readable, NEW j \in DOMAIN Readable, i < j
        PROVE  Readable[i].entry.id < Readable[j].entry.id
    BY <2>1 DEF InWriteOrder, Ordered, WriteOrder
  <2>2. DOMAIN Readable = 1..Len(Readable)
    BY ParsedEntries
  <2>3. QED
    BY <2>1, <2>2, ReadAll DEF ReadInWriteOrder
<1>4. QED
  BY <1>1, <1>2, <1>3, StoreTypes, PTL DEF Spec

-----------------------------------------------------------------------------
(* What a cut costs.                                                       *)

Ids == {x.entry.id : x \in Range(Readable)}

\* Written without an error, not removed, and not among the lines that parse.
Missing == acked \ (cleared \cup Ids)

\* A line that lacks its newline is not one whose Write succeeded.
LastUnacked ==
    unterminated /\ botched = 0 =>
        LastLine.entry = Malformed \/ LastLine.entry.id \notin acked

\* Each cut has cost one entry, or is still to cost the next.
LossesPaid ==
    botched = 0 => Cardinality(Missing) + (IF unterminated THEN 1 ELSE 0) <= tears

LossInv == LastUnacked /\ LossesPaid

\* One entry more counts for one more at most.
LEMMA OneMore ==
    ASSUME NEW A \in SUBSET (1..MaxEntries), NEW B \in SUBSET (1..MaxEntries),
           NEW i, B \subseteq A \cup {i}
    PROVE  /\ Cardinality(A) \in Nat /\ Cardinality(B) \in Nat
           /\ Cardinality(B) <= Cardinality(A) + 1
           /\ B \subseteq A => Cardinality(B) <= Cardinality(A)
<1>1. IsFiniteSet(1..MaxEntries)
  <2> DEFINE one == 1
  <2>1. one \in Int /\ MaxEntries \in Int
    BY BoundsAssumption
  <2> HIDE DEF one
  <2>2. IsFiniteSet(one..MaxEntries)
    BY <2>1, FS_Interval
  <2>3. QED
    BY <2>2 DEF one
<1>2. IsFiniteSet(A) /\ IsFiniteSet(B)
  BY <1>1, FS_Subset
<1>3. Cardinality(A) \in Nat /\ Cardinality(B) \in Nat
  BY <1>2, FS_CardinalityType
<1>4. /\ IsFiniteSet(A \cup {i})
      /\ Cardinality(A \cup {i}) = Cardinality(A)
            \/ Cardinality(A \cup {i}) = Cardinality(A) + 1
  BY <1>2, FS_AddElement
<1>5. Cardinality(B) <= Cardinality(A \cup {i})
  BY <1>4, FS_Subset
<1>6. B \subseteq A => Cardinality(B) <= Cardinality(A)
  BY <1>2, FS_Subset
<1>7. QED
  BY <1>3, <1>4, <1>5, <1>6

\* The entries of the last line are all that is lost with it.
LEMMA SpoiltIds ==
    ASSUME TypeOK, TypeOK', LastLineSpoilt
    PROVE  \/ LastLine.entry = Malformed /\ Ids' = Ids
           \/ LastLine \in Parsing /\ Ids = Ids' \cup {LastLine.entry.id}
<1>1. CASE LastLine.entry = Malformed /\ Readable' = Readable
  BY <1>1 DEF Ids
<1>2. CASE LastLine \in Parsing /\ Readable = Append(Readable', LastLine)
  <2> DEFINE r == Readable'
             x == LastLine
  <2>1. r \in Seq(Parsing)
    BY WellFormedType DEF TypeOK, Readable
  <2>2. Readable = Append(r, x) /\ x \in Parsing
    BY <1>2
  <2> HIDE DEF r, x
  <2>3. Range(Readable) = Range(r) \cup {x}
    BY <2>1, <2>2, RangeOfAppend
  <2>4. Ids' = {y.entry.id : y \in Range(r)}
    BY DEF Ids, r
  <2>5. Ids = {y.entry.id : y \in Range(r)} \cup {x.entry.id}
    BY <2>3 DEF Ids
  <2>6. QED
    BY <2>2, <2>4, <2>5 DEF x
<1>3. QED
  BY <1>1, <1>2 DEF LastLineSpoilt

\* What Clear leaves out of the file it also reports as removed.
LEMMA ClearMissesNothing ==
    ASSUME TypeOK, NEW t, Clear(t)
    PROVE  Missing' \subseteq Missing
<1> SUFFICES ASSUME NEW i \in Missing', i \in Ids
             PROVE  FALSE
  BY DEF Clear, Missing
<1>1. /\ acked' = acked /\ i \notin Ids'
      /\ i \notin {Parsed[k].id : k \in {j \in DOMAIN Parsed : Older(Parsed[j], t)}}
  BY DEF Clear, Missing
<1>2. PICK x \in Range(Readable) : x.entry.id = i
  BY DEF Ids
<1>3. PICK k \in DOMAIN Readable : Readable[k] = x
  BY <1>2 DEF Range
<1>4. /\ x \in Parsing /\ k \in DOMAIN Parsed /\ Parsed[k] = x.entry
  BY <1>3, ParsedEntries
<1>5. CASE Older(x.entry, t)
  BY <1>1, <1>2, <1>4, <1>5
<1>6. CASE ~Older(x.entry, t)
  <2>1. x \in Range(Kept(t))
    BY <1>2, <1>4, <1>6, KeptLines DEF NotOlder
  <2>2. x \in Range(Readable')
    BY <2>1, ClearLines
  <2>3. QED
    BY <1>1, <1>2, <2>2 DEF Ids
<1>7. QED
  BY <1>5, <1>6

\* Only a Write can lose an entry, and only the one it wrote, into a line
\* that an earlier cut left behind.
LEMMA NextLosses ==
    ASSUME TypeOK, TypeOK', InWriteOrder, LossInv, [Next]_vars
    PROVE  LossInv'
<1>1. /\ now \in Nat /\ tears \in Nat /\ botched \in Nat
      /\ now + 1 \notin acked
      /\ Missing \in SUBSET (1..MaxEntries) /\ Missing' \in SUBSET (1..MaxEntries)
  <2>1. now \in Nat /\ tears \in Nat /\ botched \in Nat
    BY BoundsAssumption DEF TypeOK
  <2>2. now + 1 \notin acked
    BY <2>1 DEF InWriteOrder
  <2>3. acked \subseteq 1..MaxEntries /\ acked' \subseteq 1..MaxEntries
    BY DEF TypeOK
  <2>4. QED
    BY <2>1, <2>2, <2>3 DEF Missing
<1>2. ASSUME NEW l \in Levels, NEW t \in 1..(now + 1), NEW long \in BOOLEAN,
             Write(l, t, long)
      PROVE  LossInv'
  <2> DEFINE x == NewLine(l, t, long)
  <2>1. now < MaxEntries /\ file' \in Appended(x)
    BY <1>2 DEF Write, NewLine
  <2>2. x \in Parsing /\ x \in Line /\ x.entry.id = now + 1
    BY <1>2, <2>1, NewLineType, ParsingLines
  <2> HIDE DEF x
  <2>3. /\ acked' = acked \cup {now + 1} /\ cleared' = cleared
        /\ tears' = tears /\ botched' = botched /\ unterminated' = FALSE
    BY <1>2 DEF Write
  <2>4. CASE unterminated /\ botched = 0
    <3>1. Missing' \subseteq Missing \cup {now + 1}
      <4>1. LastLineSpoilt
        BY <2>1, <2>2, <2>4, AppendedLine
      <4>2. \A i \in acked : i \in Ids => i \in Ids'
        BY <2>4, <4>1, SpoiltIds, ParsingLines DEF LossInv, LastUnacked
      <4>3. QED
        BY <2>3, <4>2 DEF Missing
    <3>2. /\ Cardinality(Missing') <= Cardinality(Missing) + 1
          /\ Cardinality(Missing) \in Nat /\ Cardinality(Missing') \in Nat
      BY <1>1, <3>1, OneMore
    <3>3. Cardinality(Missing) + 1 <= tears
      BY <2>4 DEF LossInv, LossesPaid
    <3>4. Cardinality(Missing') <= tears'
      BY <1>1, <2>3, <3>2, <3>3
    <3>5. QED
      BY <2>3, <3>2, <3>4 DEF LossInv, LastUnacked, LossesPaid
  <2>5. CASE ~unterminated /\ botched = 0
    <3>1. Readable' = Append(Readable, x)
      BY <2>1, <2>2, <2>5, AppendedLine, ParsingLines
    <3>2. Range(Readable') = Range(Readable) \cup {x}
      BY <2>2, <3>1, RangeOfAppend, ParsedEntries
    <3>3. Ids' = Ids \cup {now + 1}
      BY <2>2, <3>2 DEF Ids
    <3>4. Missing' \subseteq Missing
      BY <2>3, <3>3 DEF Missing
    <3>5. /\ Cardinality(Missing') <= Cardinality(Missing)
          /\ Cardinality(Missing) \in Nat /\ Cardinality(Missing') \in Nat
      BY <1>1, <3>4, OneMore
    <3>6. Cardinality(Missing) <= tears
      BY <2>5, <3>5 DEF LossInv, LossesPaid
    <3>7. Cardinality(Missing') <= tears'
      BY <1>1, <2>3, <3>5, <3>6
    <3>8. QED
      BY <2>3, <3>5, <3>7 DEF LossInv, LastUnacked, LossesPaid
  <2>6. QED
    BY <2>3, <2>4, <2>5 DEF LossInv, LastUnacked, LossesPaid
<1>3. ASSUME NEW l \in Levels, NEW t \in 1..(now + 1), NEW long \in BOOLEAN,
             WriteCut(l, t, long)
      PROVE  LossInv'
  <2> DEFINE x == NewLine(l, t, long)
  <2>1. now < MaxEntries /\ \E cut \in Cuts(x) : file' \in Appended(cut)
    BY <1>3 DEF WriteCut, NewLine
  <2>2. x \in Parsing /\ x \in Line /\ x.entry.id = now + 1
    BY <1>3, <2>1, NewLineType, ParsingLines
  <2> HIDE DEF x
  <2>3. PICK cut \in Cuts(x) : file' \in Appended(cut)
    BY <2>1
  <2>4. cut \in Line /\ (cut = x \/ cut.entry = Malformed)
    BY <2>2, <2>3, CutLine
  <2>5. /\ acked' = acked /\ cleared' = cleared /\ botched' = botched
        /\ tears' = tears + 1 /\ unterminated' = TRUE
    BY <1>3 DEF WriteCut
  <2>6. LastUnacked'
    <3>1. LastLine' = file'[Len(file')]
      BY DEF LastLine
    <3>2. LastLine' = cut \/ LastLine'.entry = Malformed
      BY <2>3, <2>4, <3>1, AppendedLine DEF TypeOK
    <3>3. QED
      BY <1>1, <2>2, <2>4, <2>5, <3>2 DEF LastUnacked
  <2>7. ASSUME botched = 0
        PROVE  Missing' \subseteq Missing
    <3>1. CASE unterminated
      <4>1. LastLineSpoilt
        BY <2>3, <2>4, <3>1, AppendedLine
      <4>2. \A i \in acked : i \in Ids => i \in Ids'
        BY <2>7, <3>1, <4>1, SpoiltIds, ParsingLines DEF LossInv, LastUnacked
      <4>3. QED
        BY <2>5, <4>2 DEF Missing
    <3>2. CASE ~unterminated
      <4>1. Readable' = Readable \/ Readable' = Append(Readable, x)
        BY <2>3, <2>4, <3>2, AppendedLine
      <4>2. Range(Append(Readable, x)) = Range(Readable) \cup {x}
        BY <2>2, RangeOfAppend, ParsedEntries
      <4>3. Ids \subseteq Ids'
        BY <4>1, <4>2 DEF Ids
      <4>4. QED
        BY <2>5, <4>3 DEF Missing
    <3>3. QED
      BY <3>1, <3>2
  <2>8. LossesPaid'
    <3> SUFFICES ASSUME botched = 0
                 PROVE  Cardinality(Missing') + 1 <= tears + 1
      BY <2>5 DEF LossesPaid
    <3>1. /\ Cardinality(Missing') <= Cardinality(Missing)
          /\ Cardinality(Missing) \in Nat /\ Cardinality(Missing') \in Nat
      BY <1>1, <2>7, OneMore
    <3>2. Cardinality(Missing) <= tears
      BY <1>1, <3>1 DEF LossInv, LossesPaid
    <3>3. QED
      BY <1>1, <3>1, <3>2
  <2>9. QED
    BY <2>6, <2>8 DEF LossInv
<1>4. ASSUME NEW t \in 1..MaxEntries, Clear(t)
      PROVE  LossInv'
  <2>1. /\ unterminated' = FALSE /\ tears' = tears /\ botched' = botched
    BY <1>4 DEF Clear
  <2>2. /\ Cardinality(Missing') <= Cardinality(Missing)
        /\ Cardinality(Missing) \in Nat /\ Cardinality(Missing') \in Nat
    BY <1>1, <1>4, ClearMissesNothing, OneMore
  <2>3. botched = 0 => Cardinality(Missing) <= tears
    BY <1>1, <2>2 DEF LossInv, LossesPaid
  <2>4. botched = 0 => Cardinality(Missing') <= tears'
    BY <1>1, <2>1, <2>2, <2>3
  <2>5. QED
    BY <2>1, <2>2, <2>4 DEF LossInv, LastUnacked, LossesPaid
<1>5. ASSUME NEW t \in 1..MaxEntries, ClearCut(t)
      PROVE  LossInv'
  <2>1. botched' # 0
    BY <1>1, <1>5 DEF ClearCut
  <2>2. QED
    BY <2>1 DEF LossInv, LastUnacked, LossesPaid
<1>6. CASE UNCHANGED vars
  BY <1>6 DEF vars, LossInv, LastUnacked, LossesPaid, Missing, Ids, Readable, LastLine
<1>7. QED
  BY <1>2, <1>3, <1>4, <1>5, <1>6 DEF Next

\* What was written properly and cannot be read is what the cuts before it
\* account for, one each, however they and the clears are interleaved.
THEOREM TearsCost == Spec => []TearsCostOneEach
<1>1. Init => InWriteOrder /\ LossInv
  <2> SUFFICES ASSUME Init
               PROVE  InWriteOrder /\ LossInv
    OBVIOUS
  <2>1. /\ Readable = <<>> /\ acked = {} /\ tears = 0 /\ unterminated = FALSE
    BY FilterEmpty DEF Init, Readable, WellFormed
  <2>2. Missing = {} /\ Cardinality({}) = 0
    BY <2>1, FS_EmptySet DEF Missing
  <2>3. InWriteOrder
    BY <2>1 DEF InWriteOrder, Ordered, Range
  <2>4. QED
    BY <2>1, <2>2, <2>3 DEF LossInv, LastUnacked, LossesPaid
<1>2. /\ TypeOK /\ TypeOK' /\ InWriteOrder /\ LossInv /\ [Next]_vars
      => InWriteOrder' /\ LossInv'
  BY NextInWriteOrder, NextLosses
<1>3. TypeOK /\ LossInv => TearsCostOneEach
  <2> SUFFICES ASSUME TypeOK, LossInv, botched = 0
               PROVE  Cardinality(Lost) <= tears
    BY DEF TearsCostOneEach
  <2>1. Lost \subseteq Missing
    <3> SUFFICES ASSUME NEW i \in Lost, NEW x \in Range(Readable), x.entry.id = i
                 PROVE  FALSE
      BY DEF Lost, Missing, Ids
    <3>1. PICK k \in DOMAIN Readable : Readable[k] = x
      BY DEF Range
    <3>2. k \in 1..Len(Readable)
      BY <3>1, ParsedEntries
    <3>3. k \in DOMAIN Read("", 0, 0, 0) /\ Read("", 0, 0, 0)[k].id = i
      BY <3>1, <3>2, ReadAll
    <3>4. QED
      BY <3>3 DEF Lost
  <2>2. Missing \in SUBSET (1..MaxEntries) /\ Lost \in SUBSET (1..MaxEntries)
    BY <2>1 DEF TypeOK, Missing
  <2>3. /\ Cardinality(Lost) <= Cardinality(Missing)
        /\ Cardinality(Lost) \in Nat /\ Cardinality(Missing) \in Nat
    BY <2>1, <2>2, OneMore
  <2>4. Cardinality(Missing) + (IF unterminated THEN 1 ELSE 0) <= tears
        /\ tears \in Nat
    BY DEF LossInv, LossesPaid, TypeOK
  <2>5. QED
    BY <2>3, <2>4
<1>4. QED
  BY <1>1, <1>2, <1>3, StoreTypes, PTL DEF Spec

-----------------------------------------------------------------------------
(* The refinement of LogTable.                                             *)

\* A sequence without its last element is the one it was appended to.
LEMMA AppendUndone ==
    ASSUME NEW S, NEW s \in Seq(S), NEW e \in S
    PROVE  SubSeq(Append(s, e), 1, Len(Append(s, e)) - 1) = s
<1> DEFINE u == Append(s, e)
<1>1. u \in Seq(S) /\ u # <<>>
  BY AppendProperties
<1> HIDE DEF u
<1>2. PICK front \in Seq(S), last \in S :
        /\ u = Append(front, last)
        /\ front = SubSeq(u, 1, Len(u) - 1)
  BY <1>1, FrontAndLast
<1>3. Append(front, last) = Append(s, e)
  BY <1>2 DEF u
<1>4. front = s
  BY <1>3, AppendInjective
<1>5. QED
  BY <1>2, <1>4 DEF u

\* What Clear should leave of the table.
LEMMA TableNewer ==
    ASSUME TypeOK, NEW t
    PROVE  Table!Newer(t) = EntriesOf(Kept(t))
<1>1. Kept(t) = Filter(Readable, NotOlder(t)) /\ Readable \in Seq(Parsing)
      /\ Parsed = EntriesOf(Readable)
  BY KeptLines, ParsedEntries
<1>2. EntriesOf(Kept(t)) = Filter(Parsed, NewerThan(t))
  BY <1>1, EntriesFilter
<1>3. Table!Newer(t) = Filter(Parsed, NewerThan(t))
  BY DEF Table!Newer, Table!Filter, Filter, NewerThan
<1>4. QED
  BY <1>2, <1>3

\* Losing the last line is losing the last entry of the table.
LEMMA SpoiltEntries ==
    ASSUME TypeOK, TypeOK', LastLineSpoilt
    PROVE  Parsed' \in {Parsed, Table!ButLast}
<1> DEFINE r == Readable'
           p == EntriesOf(r)
<1>1. r \in Seq(Parsing)
  BY WellFormedType DEF TypeOK, Readable
<1>2. Parsed' = EntriesOf(r)
  BY DEF Parsed, Readable
<1>3. Parsed = EntriesOf(Readable)
  BY ParsedEntries
<1>4. CASE Readable' = Readable
  BY <1>2, <1>3, <1>4
<1>5. CASE LastLine \in Parsing /\ Readable = Append(Readable', LastLine)
  <2>1. LastLine \in Parsing /\ LastLine.entry \in Entry
        /\ Readable = Append(r, LastLine)
    BY <1>5, ParsingLines
  <2> HIDE DEF r
  <2>2. p \in Seq(Entry)
    BY <1>1, EntriesType
  <2>3. Parsed = Append(p, LastLine.entry)
    BY <1>1, <1>3, <2>1, EntriesAppend
  <2>4. Table!ButLast = SubSeq(Parsed, 1, Len(Parsed) - 1)
    BY DEF Table!ButLast
  <2>5. SubSeq(Append(p, LastLine.entry), 1, Len(Append(p, LastLine.entry)) - 1) = p
    BY <2>1, <2>2, AppendUndone
  <2>6. Parsed' = Table!ButLast
    BY <1>2, <2>3, <2>4, <2>5
  <2>7. QED
    BY <2>6
<1>6. QED
  BY <1>4, <1>5 DEF LastLineSpoilt

\* One line more in the file is one entry more in the table.
LEMMA GrownEntries ==
    ASSUME TypeOK, NEW x \in Parsing, Readable' = Append(Readable, x)
    PROVE  Parsed' = Append(Parsed, x.entry)
<1>1. Parsed' = EntriesOf(Readable')
  BY DEF Parsed, Readable
<1>2. EntriesOf(Append(Readable, x)) = Append(EntriesOf(Readable), x.entry)
  BY ParsedEntries, EntriesAppend
<1>3. QED
  BY <1>1, <1>2, ParsedEntries

\* Every operation of the file is one of the table, the cut ones its failures.
LEMMA NextIsTableStep ==
    ASSUME TypeOK, TypeOK', [Next]_vars
    PROVE  [Table!Next]_(Table!vars)
<1>1. tears \in Nat /\ botched \in Nat /\ now \in Nat
  BY BoundsAssumption DEF TypeOK
<1>2. ASSUME NEW l \in Levels, NEW t \in 1..(now + 1), NEW long \in BOOLEAN,
             Write(l, t, long)
      PROVE  \E e \in Entry : Table!Write(e)
  <2> DEFINE x == NewLine(l, t, long)
             e == x.entry
  <2>1. now < MaxEntries /\ file' \in Appended(x)
    BY <1>2 DEF Write, NewLine
  <2>2. x \in Parsing /\ x \in Line /\ e \in Entry
    BY <1>2, <2>1, NewLineType, ParsingLines
  <2> HIDE DEF x
  <2>3. /\ unterminated' = FALSE /\ tears' + botched' = tears + botched
    BY <1>2 DEF Write
  <2>4. CASE ~unterminated
    <3>1. Readable' = Append(Readable, x)
      BY <2>1, <2>2, <2>4, AppendedLine, ParsingLines
    <3>2. Parsed' = Append(Parsed, e)
      BY <2>2, <3>1, GrownEntries
    <3>3. Table!Write(e)
      BY <2>3, <2>4, <3>2 DEF Table!Write
    <3>4. QED
      BY <2>2, <3>3
  <2>5. CASE unterminated
    <3>1. LastLineSpoilt
      BY <2>1, <2>2, <2>5, AppendedLine
    <3>2. Parsed' \in {Parsed, Table!ButLast}
      BY <3>1, SpoiltEntries
    <3>3. Table!Write(e)
      BY <2>3, <2>5, <3>2 DEF Table!Write
    <3>4. QED
      BY <2>2, <3>3
  <2>6. QED
    BY <2>4, <2>5
<1>3. ASSUME NEW l \in Levels, NEW t \in 1..(now + 1), NEW long \in BOOLEAN,
             WriteCut(l, t, long)
      PROVE  \E e \in Entry : Table!WriteFails(e)
  <2> DEFINE x == NewLine(l, t, long)
             e == x.entry
  <2>1. now < MaxEntries /\ \E cut \in Cuts(x) : file' \in Appended(cut)
    BY <1>3 DEF WriteCut, NewLine
  <2>2. x \in Parsing /\ x \in Line /\ e \in Entry
    BY <1>3, <2>1, NewLineType, ParsingLines
  <2> HIDE DEF x
  <2>3. PICK cut \in Cuts(x) : file' \in Appended(cut)
    BY <2>1
  <2>4. cut \in Line /\ (cut = x \/ cut.entry = Malformed)
    BY <2>2, <2>3, CutLine
  <2>5. unterminated' = TRUE /\ tears' + botched' = (tears + botched) + 1
    BY <1>1, <1>3 DEF WriteCut
  <2>6. CASE ~unterminated
    <3>1. Readable' = Readable \/ Readable' = Append(Readable, x)
      BY <2>3, <2>4, <2>6, AppendedLine
    <3>2. Parsed' = Parsed \/ Parsed' = Append(Parsed, e)
      <4>1. CASE Readable' = Readable
        BY <4>1 DEF Parsed, Readable
      <4>2. CASE Readable' = Append(Readable, x)
        BY <2>2, <4>2, GrownEntries
      <4>3. QED
        BY <3>1, <4>1, <4>2
    <3>3. Table!WriteFails(e)
      BY <2>5, <2>6, <3>2 DEF Table!WriteFails
    <3>4. QED
      BY <2>2, <3>3
  <2>7. CASE unterminated
    <3>1. LastLineSpoilt
      BY <2>3, <2>4, <2>7, AppendedLine
    <3>2. Parsed' \in {Parsed, Table!ButLast}
      BY <3>1, SpoiltEntries
    <3>3. Table!WriteFails(e)
      BY <2>5, <2>7, <3>2 DEF Table!WriteFails
    <3>4. QED
      BY <2>2, <3>3
  <2>8. QED
    BY <2>6, <2>7
<1>4. ASSUME NEW t \in 1..MaxEntries, Clear(t)
      PROVE  Table!Clear(t)
  <2>1. Parsed' = EntriesOf(Readable') /\ Readable' = Kept(t)
    BY <1>4, ClearLines DEF Parsed, Readable
  <2>2. Parsed' = Table!Newer(t)
    BY <2>1, TableNewer
  <2>3. unterminated' = FALSE /\ tears' + botched' = tears + botched
    BY <1>4 DEF Clear
  <2>4. QED
    BY <2>2, <2>3 DEF Table!Clear
<1>5. ASSUME NEW t \in 1..MaxEntries, ClearCut(t)
      PROVE  Table!ClearFails(t)
  <2>1. PICK k \in 0..Len(Kept(t)) : Readable' = SubSeq(Kept(t), 1, k)
    BY <1>5, ClearCutLines
  <2>2. /\ EntriesOf(SubSeq(Kept(t), 1, k)) = SubSeq(EntriesOf(Kept(t)), 1, k)
        /\ Len(EntriesOf(Kept(t))) = Len(Kept(t))
    BY KeptLines, EntriesPrefix, EntriesType
  <2>3. Parsed' = EntriesOf(Readable')
    BY DEF Parsed, Readable
  <2>4. k \in 0..Len(Table!Newer(t)) /\ Parsed' = SubSeq(Table!Newer(t), 1, k)
    BY <2>1, <2>2, <2>3, TableNewer
  <2>5. tears' + botched' = (tears + botched) + 1 /\ unterminated' \in BOOLEAN
    BY <1>1, <1>5 DEF ClearCut, TypeOK
  <2>6. QED
    BY <2>4, <2>5 DEF Table!ClearFails
<1>6. CASE UNCHANGED vars
  BY <1>6 DEF vars, Table!vars, Parsed
<1>7. QED
  BY <1>2, <1>3, <1>4, <1>5, <1>6 DEF Next, Table!Next

\* Entry by entry the file is the table that InMemoryLogStore is, whatever
\* fails; a failure costs no more than LogTable says.
THEOREM ImplementsLogTable == Spec => TableSpec
<1>1. Init => Table!Init
  <2> SUFFICES ASSUME Init
               PROVE  Table!Init
    OBVIOUS
  <2>1. Readable = <<>> /\ unterminated = FALSE /\ tears + botched = 0
    BY FilterEmpty DEF Init, Readable, WellFormed
  <2>2. Parsed = <<>>
    BY <2>1 DEF Parsed, Readable, EntriesOf
  <2>3. QED
    BY <2>1, <2>2 DEF Table!Init
<1>2. TypeOK /\ TypeOK' /\ [Next]_vars => [Table!Next]_(Table!vars)
  BY NextIsTableStep
<1>3. QED
  BY <1>1, <1>2, StoreTypes, PTL DEF Spec, TableSpec, Table!Spec

=============================================================================
