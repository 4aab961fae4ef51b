-------------------------- MODULE FileServiceProofs --------------------------
(***************************************************************************)
(* Proofs about FileService for every set of users, threads and files, and *)
(* every number of failing calls and crashes.                              *)
(***************************************************************************)
EXTENDS FileService, TLAPS

-----------------------------------------------------------------------------
(* The inductive invariant.                                                *)

\* A request that is working on file f.
On(t, f) == thread[t] # Absent /\ thread[t].id = f

\* An upload that has not been answered yet.
Uploading(t, f) == On(t, f) /\ thread[t].pc \in {"copy", "save", "undo"}

\* A request acts for the user who uploaded its file, and so does a row.
OwnersKnown ==
    /\ \A t \in Threads :
            thread[t] # Absent => minted[thread[t].id] = thread[t].user
    /\ \A f \in FileIds : rows[f] # Absent => minted[f] = rows[f].user

\* An ID that no upload was given is found nowhere.
UnmintedUnused ==
    \A f \in FileIds : minted[f] = Absent =>
        /\ rows[f] = Absent
        /\ disk[f] = Absent
        /\ f \notin stored \cup removing \cup acked

\* Before the row of an upload is saved nobody else knows of the file, and
\* its content is complete when the copy is over.
UploadsAlone ==
    \A t \in Threads : At(t, "copy") \/ At(t, "save") =>
        LET f == thread[t].id
        IN  /\ rows[f] = Absent
            /\ f \notin stored \cup removing \cup acked
            /\ At(t, "save") => disk[f] = "complete"
            /\ \A s \in Threads \ {t} : ~On(s, f)

\* An upload that is being undone was not answered 201, a call of it has
\* failed, and if there is a row all the same the answer of its save was lost.
UndosUnanswered ==
    \A t \in Threads : At(t, "undo") =>
        LET f == thread[t].id
        IN  /\ f \notin stored
            /\ faults > 0
            /\ rows[f] # Absent => "unanswered" \in FaultModes
            /\ \A s \in Threads \ {t} : ~Uploading(s, f)

\* A DELETE removes the file before it goes to the table.
DropsRemoved ==
    /\ \A t \in Threads : At(t, "drop") =>
            thread[t].id \in removing /\ disk[thread[t].id] = Absent
    /\ acked \subseteq removing

\* Content without a row belongs to an upload under way, unless the process
\* died or two calls failed.
ContentExpected ==
    \A f \in FileIds : disk[f] # Absent /\ rows[f] = Absent =>
        \/ \E t \in Threads : Uploading(t, f)
        \/ crashes > 0
        \/ faults >= 2

IInv ==
    /\ TypeOK
    /\ OwnersKnown
    /\ UnmintedUnused
    /\ UploadsAlone
    /\ UndosUnanswered
    /\ DropsRemoved
    /\ ContentExpected
    /\ RowsHaveContent
    /\ UploadsKept
    /\ AckedFileGone

-----------------------------------------------------------------------------
(* The steps.                                                              *)

\* Before main serves anything the stores are empty.
LEMMA InitInv == Init => IInv
<1> SUFFICES ASSUME Init PROVE IInv
  OBVIOUS
<1>1. TypeOK
  BY BoundsAssumption DEF Init, TypeOK
<1>2. OwnersKnown /\ UnmintedUnused /\ ContentExpected
  BY DEF Init, OwnersKnown, UnmintedUnused, ContentExpected
<1>3. UploadsAlone /\ UndosUnanswered /\ DropsRemoved
  BY DEF Init, At, UploadsAlone, UndosUnanswered, DropsRemoved
<1>4. RowsHaveContent /\ UploadsKept /\ AckedFileGone
  BY DEF Init, RowsHaveContent, UploadsKept, AckedFileGone
<1>5. QED
  BY <1>1, <1>2, <1>3, <1>4 DEF IInv

\* Every step of every request, and a crash, keeps the types.
LEMMA NextTypeOK == IInv /\ [Next]_vars => TypeOK'
<1> SUFFICES ASSUME IInv, [Next]_vars PROVE TypeOK'
  OBVIOUS
<1> USE DEF IInv, TypeOK
<1>1. ASSUME NEW t \in Threads, NEW u \in Users, Create(t, u)
      PROVE  TypeOK'
  BY <1>1 DEF Create, Content, Request
<1>2. ASSUME NEW t \in Threads, Copy(t)
      PROVE  TypeOK'
  BY <1>2, BoundsAssumption
  DEF Copy, AfterCopyError, At, DiskCall, Call, Apply, GoTo, Content, Request
<1>3. ASSUME NEW t \in Threads, Save(t)
      PROVE  TypeOK'
  BY <1>3, BoundsAssumption
  DEF Save, SaveFailed, RowFor, At, DBCall, Call, Apply, GoTo, Answer, File,
      Request
<1>4. ASSUME NEW t \in Threads, Undo(t)
      PROVE  TypeOK'
  BY <1>4, BoundsAssumption
  DEF Undo, At, DiskCall, Call, Apply, Answer, Request
<1>5. ASSUME NEW t \in Threads, NEW u \in Users, NEW f \in FileIds,
             GetOwned(t, u, f)
      PROVE  TypeOK'
  BY <1>5 DEF GetOwned, Request
<1>6. ASSUME NEW t \in Threads, Remove(t)
      PROVE  TypeOK'
  BY <1>6, BoundsAssumption
  DEF Remove, At, DiskCall, Call, Apply, GoTo, Answer, Request
<1>7. ASSUME NEW t \in Threads, Drop(t)
      PROVE  TypeOK'
  BY <1>7, BoundsAssumption DEF Drop, At, DBCall, Call, Apply, Answer, Request
<1>8. ASSUME CrashRestart
      PROVE  TypeOK'
  BY <1>8, BoundsAssumption DEF CrashRestart
<1>9. CASE UNCHANGED vars
  BY <1>9 DEF vars
<1>10. QED
  BY <1>1, <1>2, <1>3, <1>4, <1>5, <1>6, <1>7, <1>8, <1>9 DEF Next, Serve

\* IDs are given once, a request keeps its user, and so does the row it saves.
LEMMA NextOwners == IInv /\ [Next]_vars => OwnersKnown'
<1> SUFFICES ASSUME IInv, [Next]_vars PROVE OwnersKnown'
  OBVIOUS
<1> USE DEF IInv, TypeOK
<1>1. ASSUME NEW t \in Threads, NEW u \in Users, Create(t, u)
      PROVE  OwnersKnown'
  BY <1>1, AbsentAssumption DEF Create, OwnersKnown, UnmintedUnused, Request
<1>2. ASSUME NEW t \in Threads, Copy(t)
      PROVE  OwnersKnown'
  BY <1>2 DEF Copy, At, GoTo, OwnersKnown
<1>3. ASSUME NEW t \in Threads, Save(t)
      PROVE  OwnersKnown'
  BY <1>3 DEF Save, SaveFailed, RowFor, At, Apply, GoTo, Answer, OwnersKnown
<1>4. ASSUME NEW t \in Threads, Undo(t)
      PROVE  OwnersKnown'
  BY <1>4 DEF Undo, Answer, OwnersKnown
<1>5. ASSUME NEW t \in Threads, NEW u \in Users, NEW f \in FileIds,
             GetOwned(t, u, f)
      PROVE  OwnersKnown'
  BY <1>5 DEF GetOwned, Owned, OwnersKnown
<1>6. ASSUME NEW t \in Threads, Remove(t)
      PROVE  OwnersKnown'
  BY <1>6 DEF Remove, At, GoTo, Answer, OwnersKnown
<1>7. ASSUME NEW t \in Threads, Drop(t)
      PROVE  OwnersKnown'
  BY <1>7 DEF Drop, Apply, Answer, OwnersKnown
<1>8. ASSUME CrashRestart
      PROVE  OwnersKnown'
  BY <1>8 DEF CrashRestart, OwnersKnown
<1>9. CASE UNCHANGED vars
  BY <1>9 DEF vars, OwnersKnown
<1>10. QED
  BY <1>1, <1>2, <1>3, <1>4, <1>5, <1>6, <1>7, <1>8, <1>9 DEF Next, Serve

\* A request has an ID that an upload was given, so it touches no other.
LEMMA NextUnminted == IInv /\ [Next]_vars => UnmintedUnused'
<1> SUFFICES ASSUME IInv, [Next]_vars PROVE UnmintedUnused'
  OBVIOUS
<1> USE DEF IInv, TypeOK
<1>1. ASSUME NEW t \in Threads, NEW u \in Users, Create(t, u)
      PROVE  UnmintedUnused'
  BY <1>1, AbsentAssumption DEF Create, UnmintedUnused
<1>2. ASSUME NEW t \in Threads, Copy(t)
      PROVE  UnmintedUnused'
  BY <1>2, AbsentAssumption
  DEF Copy, At, Apply, UnmintedUnused, OwnersKnown, Request
<1>3. ASSUME NEW t \in Threads, Save(t)
      PROVE  UnmintedUnused'
  BY <1>3, AbsentAssumption
  DEF Save, At, Apply, UnmintedUnused, OwnersKnown, Request
<1>4. ASSUME NEW t \in Threads, Undo(t)
      PROVE  UnmintedUnused'
  BY <1>4 DEF Undo, Apply, UnmintedUnused
<1>5. ASSUME NEW t \in Threads, NEW u \in Users, NEW f \in FileIds,
             GetOwned(t, u, f)
      PROVE  UnmintedUnused'
  BY <1>5 DEF GetOwned, UnmintedUnused
<1>6. ASSUME NEW t \in Threads, Remove(t)
      PROVE  UnmintedUnused'
  BY <1>6, AbsentAssumption
  DEF Remove, At, Apply, UnmintedUnused, OwnersKnown, Request
<1>7. ASSUME NEW t \in Threads, Drop(t)
      PROVE  UnmintedUnused'
  BY <1>7, AbsentAssumption
  DEF Drop, At, Apply, UnmintedUnused, OwnersKnown, Request
<1>8. ASSUME CrashRestart
      PROVE  UnmintedUnused'
  BY <1>8 DEF CrashRestart, UnmintedUnused
<1>9. CASE UNCHANGED vars
  BY <1>9 DEF vars, UnmintedUnused
<1>10. QED
  BY <1>1, <1>2, <1>3, <1>4, <1>5, <1>6, <1>7, <1>8, <1>9 DEF Next, Serve

\* An upload starts with an ID that nobody has, and getOwned finds no row of it
\* before it is saved.
LEMMA NextUploads == IInv /\ [Next]_vars => UploadsAlone'
<1> SUFFICES ASSUME IInv, [Next]_vars PROVE UploadsAlone'
  OBVIOUS
<1> USE DEF IInv, TypeOK
<1>1. ASSUME NEW t \in Threads, NEW u \in Users, Create(t, u)
      PROVE  UploadsAlone'
  BY <1>1, AbsentAssumption
  DEF Create, UploadsAlone, OwnersKnown, UnmintedUnused, On, At, Request
<1>2. ASSUME NEW t \in Threads, Copy(t)
      PROVE  UploadsAlone'
  BY <1>2 DEF Copy, AfterCopyError, At, Apply, GoTo, UploadsAlone, On, Request
<1>3. ASSUME NEW t \in Threads, Save(t)
      PROVE  UploadsAlone'
  BY <1>3 DEF Save, SaveFailed, At, Apply, GoTo, Answer, UploadsAlone, On
<1>4. ASSUME NEW t \in Threads, Undo(t)
      PROVE  UploadsAlone'
  BY <1>4 DEF Undo, At, Apply, Answer, UploadsAlone, On
<1>5. ASSUME NEW t \in Threads, NEW u \in Users, NEW f \in FileIds,
             GetOwned(t, u, f)
      PROVE  UploadsAlone'
  BY <1>5 DEF GetOwned, Owned, UploadsAlone, On, At
<1>6. ASSUME NEW t \in Threads, Remove(t)
      PROVE  UploadsAlone'
  BY <1>6 DEF Remove, At, Apply, GoTo, Answer, UploadsAlone, On
<1>7. ASSUME NEW t \in Threads, Drop(t)
      PROVE  UploadsAlone'
  BY <1>7 DEF Drop, At, Apply, Answer, UploadsAlone, On
<1>8. ASSUME CrashRestart
      PROVE  UploadsAlone'
  BY <1>8 DEF CrashRestart, UploadsAlone, At
<1>9. CASE UNCHANGED vars
  BY <1>9 DEF vars, UploadsAlone, On, At
<1>10. QED
  BY <1>1, <1>2, <1>3, <1>4, <1>5, <1>6, <1>7, <1>8, <1>9 DEF Next, Serve

\* A removal that compensates starts where a call failed, and the upload was
\* alone until then.
LEMMA NextUndos == IInv /\ [Next]_vars => UndosUnanswered'
<1> SUFFICES ASSUME IInv, [Next]_vars PROVE UndosUnanswered'
  OBVIOUS
<1> USE DEF IInv, TypeOK
<1>1. ASSUME NEW t \in Threads, NEW u \in Users, Create(t, u)
      PROVE  UndosUnanswered'
  BY <1>1, AbsentAssumption
  DEF Create, UndosUnanswered, OwnersKnown, On, At, Uploading, Request
<1>2. ASSUME NEW t \in Threads, Copy(t)
      PROVE  UndosUnanswered'
  BY <1>2
  DEF Copy, At, DiskCall, Call, GoTo, UndosUnanswered, UploadsAlone, On,
      Uploading
<1>3. ASSUME NEW t \in Threads, Save(t)
      PROVE  UndosUnanswered'
  <2>1. PICK o \in Outcomes :
          /\ DBCall(o)
          /\ rows' = Apply(rows, thread[t].id, RowFor(t), o)
          /\ thread' = IF o = "ok" THEN Answer(t) ELSE SaveFailed(t)
          /\ stored' = stored \cup {f \in {thread[t].id} : o = "ok"}
    BY <1>3 DEF Save
  <2>2. At(t, "save") /\ thread[t] \in Request
    BY <1>3 DEF Save, At
  <2>3. ASSUME NEW s \in Threads, At(s, "undo")', NEW f, f = thread'[s].id
        PROVE  /\ f \notin stored'
               /\ faults' > 0
               /\ rows'[f] # Absent => "unanswered" \in FaultModes
               /\ \A r \in Threads \ {s} : ~Uploading(r, f)'
    <3>1. CASE s = t
      <4>1. o # "ok" /\ thread' = [thread EXCEPT ![t].pc = "undo"]
        BY <2>1, <2>2, <2>3, <3>1 DEF Answer, SaveFailed, GoTo, At
      <4>2. /\ f = thread[t].id
            /\ f \in FileIds
            /\ rows[f] = Absent
            /\ f \notin stored
            /\ \A r \in Threads \ {t} : ~On(r, f)
        BY <2>2, <2>3, <3>1, <4>1 DEF UploadsAlone, Request
      <4>3. faults' > 0
        BY <2>1, <4>1, BoundsAssumption DEF DBCall, Call
      <4>4. rows'[f] # Absent => "unanswered" \in FaultModes
        BY <2>1, <4>1, <4>2, ModesAssumption DEF Outcomes, Apply
      <4>5. QED
        BY <2>1, <3>1, <4>1, <4>2, <4>3, <4>4 DEF Uploading, On
    <3>2. CASE s # t
      <4>1. thread'[s] = thread[s] /\ At(s, "undo")
        BY <2>1, <2>3, <3>2 DEF Answer, SaveFailed, GoTo, At
      <4>2. f # thread[t].id
        BY <2>2, <2>3, <3>2, <4>1 DEF UploadsAlone, On, At
      <4>3. f \notin stored' /\ rows'[f] = rows[f]
        BY <2>1, <2>3, <4>1, <4>2 DEF UndosUnanswered, Apply
      <4>4. faults' > 0
        BY <2>1, <4>1, BoundsAssumption DEF UndosUnanswered, DBCall, Call
      <4>5. \A r \in Threads \ {s} : ~Uploading(r, f)'
        BY <2>1, <2>2, <2>3, <4>1, <4>2
        DEF UndosUnanswered, Uploading, On, Answer, SaveFailed, GoTo
      <4>6. QED
        BY <2>3, <4>1, <4>3, <4>4, <4>5 DEF UndosUnanswered
    <3>3. QED
      BY <3>1, <3>2
  <2>4. QED
    BY <2>3 DEF UndosUnanswered
<1>4. ASSUME NEW t \in Threads, Undo(t)
      PROVE  UndosUnanswered'
  BY <1>4 DEF Undo, At, DiskCall, Call, Answer, UndosUnanswered, On, Uploading
<1>5. ASSUME NEW t \in Threads, NEW u \in Users, NEW f \in FileIds,
             GetOwned(t, u, f)
      PROVE  UndosUnanswered'
  BY <1>5 DEF GetOwned, UndosUnanswered, On, At, Uploading
<1>6. ASSUME NEW t \in Threads, Remove(t)
      PROVE  UndosUnanswered'
  BY <1>6
  DEF Remove, At, DiskCall, Call, GoTo, Answer, UndosUnanswered, On, Uploading
<1>7. ASSUME NEW t \in Threads, Drop(t)
      PROVE  UndosUnanswered'
  BY <1>7
  DEF Drop, At, DBCall, Call, Apply, Answer, UndosUnanswered, On, Uploading
<1>8. ASSUME CrashRestart
      PROVE  UndosUnanswered'
  BY <1>8 DEF CrashRestart, UndosUnanswered, At
<1>9. CASE UNCHANGED vars
  BY <1>9 DEF vars, UndosUnanswered, On, At, Uploading
<1>10. QED
  BY <1>1, <1>2, <1>3, <1>4, <1>5, <1>6, <1>7, <1>8, <1>9 DEF Next, Serve

\* Nothing creates a file again that was removed.
LEMMA NextDrops == IInv /\ [Next]_vars => DropsRemoved'
<1> SUFFICES ASSUME IInv, [Next]_vars PROVE DropsRemoved'
  OBVIOUS
<1> USE DEF IInv, TypeOK
<1>1. ASSUME NEW t \in Threads, NEW u \in Users, Create(t, u)
      PROVE  DropsRemoved'
  BY <1>1 DEF Create, DropsRemoved, UnmintedUnused, At
<1>2. ASSUME NEW t \in Threads, Copy(t)
      PROVE  DropsRemoved'
  BY <1>2
  DEF Copy, AfterCopyError, At, Apply, GoTo, DropsRemoved, UploadsAlone
<1>3. ASSUME NEW t \in Threads, Save(t)
      PROVE  DropsRemoved'
  BY <1>3 DEF Save, SaveFailed, At, GoTo, Answer, DropsRemoved
<1>4. ASSUME NEW t \in Threads, Undo(t)
      PROVE  DropsRemoved'
  BY <1>4 DEF Undo, At, Apply, Answer, DropsRemoved
<1>5. ASSUME NEW t \in Threads, NEW u \in Users, NEW f \in FileIds,
             GetOwned(t, u, f)
      PROVE  DropsRemoved'
  BY <1>5 DEF GetOwned, DropsRemoved, At
<1>6. ASSUME NEW t \in Threads, Remove(t)
      PROVE  DropsRemoved'
  BY <1>6 DEF Remove, Removed, At, Apply, GoTo, Answer, DropsRemoved, Request
<1>7. ASSUME NEW t \in Threads, Drop(t)
      PROVE  DropsRemoved'
  BY <1>7 DEF Drop, At, Answer, DropsRemoved
<1>8. ASSUME CrashRestart
      PROVE  DropsRemoved'
  BY <1>8 DEF CrashRestart, DropsRemoved, At
<1>9. CASE UNCHANGED vars
  BY <1>9 DEF vars, DropsRemoved, At
<1>10. QED
  BY <1>1, <1>2, <1>3, <1>4, <1>5, <1>6, <1>7, <1>8, <1>9 DEF Next, Serve

\* A file loses its upload when it has a row, when it is removed, or when a
\* second call fails.
LEMMA NextContent == IInv /\ [Next]_vars => ContentExpected'
<1> SUFFICES ASSUME IInv, [Next]_vars PROVE ContentExpected'
  OBVIOUS
<1> USE DEF IInv, TypeOK
<1>1. ASSUME NEW t \in Threads, NEW u \in Users, Create(t, u)
      PROVE  ContentExpected'
  BY <1>1, AbsentAssumption
  DEF Create, ContentExpected, Uploading, On, Request
<1>2. ASSUME NEW t \in Threads, Copy(t)
      PROVE  ContentExpected'
  BY <1>2, AbsentAssumption
  DEF Copy, AfterCopyError, At, DiskCall, Call, Apply, GoTo, ContentExpected,
      Uploading, On, Request
<1>3. ASSUME NEW t \in Threads, Save(t)
      PROVE  ContentExpected'
  <2>1. PICK o \in Outcomes :
          /\ DBCall(o)
          /\ rows' = Apply(rows, thread[t].id, RowFor(t), o)
          /\ thread' = IF o = "ok" THEN Answer(t) ELSE SaveFailed(t)
    BY <1>3 DEF Save
  <2>2. At(t, "save") /\ thread[t] \in Request
    BY <1>3 DEF Save, At
  <2>3. ASSUME NEW g \in FileIds, disk'[g] # Absent, rows'[g] = Absent
        PROVE  \/ \E s \in Threads : Uploading(s, g)'
               \/ crashes' > 0
               \/ faults' >= 2
    <3>1. CASE g = thread[t].id
      <4>1. o # "ok"
        <5>1. RowFor(t) # Absent
          BY <2>2, AbsentAssumption DEF RowFor, File, Request
        <5>2. QED
          BY <2>1, <2>2, <2>3, <3>1, <5>1 DEF Apply, Request
      <4>2. Uploading(t, g)'
        BY <2>1, <2>2, <3>1, <4>1, AbsentAssumption
        DEF SaveFailed, GoTo, Uploading, On, Request
      <4>3. QED
        BY <4>2
    <3>2. CASE g # thread[t].id
      <4>1. disk[g] # Absent /\ rows[g] = Absent
        BY <1>3, <2>1, <2>3, <3>2 DEF Save, Apply
      <4>2. \A s \in Threads : Uploading(s, g) => Uploading(s, g)'
        BY <2>1, <3>2 DEF Uploading, On, Answer, SaveFailed, GoTo
      <4>3. /\ crashes' = crashes
            /\ faults' \in Nat
            /\ faults' >= faults
        BY <1>3, <2>1, BoundsAssumption DEF Save, DBCall, Call
      <4>4. QED
        BY <4>1, <4>2, <4>3, BoundsAssumption DEF ContentExpected
    <3>3. QED
      BY <3>1, <3>2
  <2>4. QED
    BY <2>3 DEF ContentExpected
<1>4. ASSUME NEW t \in Threads, Undo(t)
      PROVE  ContentExpected'
  BY <1>4
  DEF Undo, DiskCall, Call, Apply, Answer, ContentExpected, UndosUnanswered,
      Uploading, On
<1>5. ASSUME NEW t \in Threads, NEW u \in Users, NEW f \in FileIds,
             GetOwned(t, u, f)
      PROVE  ContentExpected'
  BY <1>5 DEF GetOwned, ContentExpected, Uploading, On
<1>6. ASSUME NEW t \in Threads, Remove(t)
      PROVE  ContentExpected'
  BY <1>6
  DEF Remove, At, DiskCall, Call, Apply, GoTo, Answer, ContentExpected,
      Uploading, On
<1>7. ASSUME NEW t \in Threads, Drop(t)
      PROVE  ContentExpected'
  BY <1>7
  DEF Drop, DBCall, Call, Apply, Answer, ContentExpected, DropsRemoved,
      Uploading, On
<1>8. ASSUME CrashRestart
      PROVE  ContentExpected'
  BY <1>8 DEF CrashRestart, ContentExpected
<1>9. CASE UNCHANGED vars
  BY <1>9 DEF vars, ContentExpected, Uploading, On
<1>10. QED
  BY <1>1, <1>2, <1>3, <1>4, <1>5, <1>6, <1>7, <1>8, <1>9 DEF Next, Serve

\* A row is saved after its content, and only a DELETE or the removal of an
\* upload never answered takes the content from under it.
LEMMA NextRows == IInv /\ [Next]_vars => RowsHaveContent'
<1> SUFFICES ASSUME IInv, [Next]_vars PROVE RowsHaveContent'
  OBVIOUS
<1> USE DEF IInv, TypeOK
<1>1. ASSUME NEW t \in Threads, NEW u \in Users, Create(t, u)
      PROVE  RowsHaveContent'
  BY <1>1 DEF Create, RowsHaveContent, UnmintedUnused
<1>2. ASSUME NEW t \in Threads, Copy(t)
      PROVE  RowsHaveContent'
  BY <1>2 DEF Copy, DiskCall, Call, Apply, RowsHaveContent
<1>3. ASSUME NEW t \in Threads, Save(t)
      PROVE  RowsHaveContent'
  BY <1>3 DEF Save, DBCall, Call, Apply, RowsHaveContent, UploadsAlone
<1>4. ASSUME NEW t \in Threads, Undo(t)
      PROVE  RowsHaveContent'
  BY <1>4 DEF Undo, DiskCall, Call, Apply, RowsHaveContent, UndosUnanswered
<1>5. ASSUME NEW t \in Threads, NEW u \in Users, NEW f \in FileIds,
             GetOwned(t, u, f)
      PROVE  RowsHaveContent'
  BY <1>5 DEF GetOwned, RowsHaveContent
<1>6. ASSUME NEW t \in Threads, Remove(t)
      PROVE  RowsHaveContent'
  BY <1>6 DEF Remove, DiskCall, Call, Apply, RowsHaveContent
<1>7. ASSUME NEW t \in Threads, Drop(t)
      PROVE  RowsHaveContent'
  BY <1>7 DEF Drop, DBCall, Call, Apply, RowsHaveContent
<1>8. ASSUME CrashRestart
      PROVE  RowsHaveContent'
  BY <1>8 DEF CrashRestart, RowsHaveContent
<1>9. CASE UNCHANGED vars
  BY <1>9 DEF vars, RowsHaveContent
<1>10. QED
  BY <1>1, <1>2, <1>3, <1>4, <1>5, <1>6, <1>7, <1>8, <1>9 DEF Next, Serve

\* No undo touches an upload that was answered 201.
LEMMA NextKept == IInv /\ [Next]_vars => UploadsKept'
<1> SUFFICES ASSUME IInv, [Next]_vars PROVE UploadsKept'
  OBVIOUS
<1> USE DEF IInv, TypeOK
<1>1. ASSUME NEW t \in Threads, NEW u \in Users, Create(t, u)
      PROVE  UploadsKept'
  BY <1>1 DEF Create, UploadsKept, UnmintedUnused
<1>2. ASSUME NEW t \in Threads, Copy(t)
      PROVE  UploadsKept'
  BY <1>2 DEF Copy, Apply, UploadsKept
<1>3. ASSUME NEW t \in Threads, Save(t)
      PROVE  UploadsKept'
  <2>1. PICK o \in Outcomes :
          /\ rows' = Apply(rows, thread[t].id, RowFor(t), o)
          /\ stored' = stored \cup {f \in {thread[t].id} : o = "ok"}
    BY <1>3 DEF Save
  <2>2. At(t, "save") /\ thread[t] \in Request
    BY <1>3 DEF Save, At
  <2>3. disk' = disk /\ removing' = removing
    BY <1>3 DEF Save
  <2>4. ASSUME NEW g \in stored' \ removing'
        PROVE  rows'[g] # Absent /\ disk'[g] = "complete"
    <3>1. CASE g = thread[t].id
      <4>1. o = "ok"
        BY <2>1, <2>2, <2>4, <3>1 DEF UploadsAlone
      <4>2. RowFor(t) # Absent
        BY <2>2, AbsentAssumption DEF RowFor, File, Request
      <4>3. QED
        BY <2>1, <2>2, <2>3, <3>1, <4>1, <4>2
        DEF Apply, UploadsAlone, Request
    <3>2. CASE g # thread[t].id
      BY <2>1, <2>3, <2>4, <3>2 DEF Apply, UploadsKept
    <3>3. QED
      BY <3>1, <3>2
  <2>5. QED
    BY <2>4 DEF UploadsKept
<1>4. ASSUME NEW t \in Threads, Undo(t)
      PROVE  UploadsKept'
  BY <1>4 DEF Undo, Apply, UploadsKept, UndosUnanswered
<1>5. ASSUME NEW t \in Threads, NEW u \in Users, NEW f \in FileIds,
             GetOwned(t, u, f)
      PROVE  UploadsKept'
  BY <1>5 DEF GetOwned, UploadsKept
<1>6. ASSUME NEW t \in Threads, Remove(t)
      PROVE  UploadsKept'
  BY <1>6 DEF Remove, Apply, UploadsKept
<1>7. ASSUME NEW t \in Threads, Drop(t)
      PROVE  UploadsKept'
  BY <1>7 DEF Drop, Apply, UploadsKept, DropsRemoved
<1>8. ASSUME CrashRestart
      PROVE  UploadsKept'
  BY <1>8 DEF CrashRestart, UploadsKept
<1>9. CASE UNCHANGED vars
  BY <1>9 DEF vars, UploadsKept
<1>10. QED
  BY <1>1, <1>2, <1>3, <1>4, <1>5, <1>6, <1>7, <1>8, <1>9 DEF Next, Serve

\* Once both stores have let go of a file no upload brings it back.
LEMMA NextGone == IInv /\ [Next]_vars => AckedFileGone'
<1> SUFFICES ASSUME IInv, [Next]_vars PROVE AckedFileGone'
  OBVIOUS
<1> USE DEF IInv, TypeOK
<1>1. ASSUME NEW t \in Threads, NEW u \in Users, Create(t, u)
      PROVE  AckedFileGone'
  BY <1>1 DEF Create, AckedFileGone, UnmintedUnused
<1>2. ASSUME NEW t \in Threads, Copy(t)
      PROVE  AckedFileGone'
  BY <1>2 DEF Copy, Apply, AckedFileGone, UploadsAlone
<1>3. ASSUME NEW t \in Threads, Save(t)
      PROVE  AckedFileGone'
  BY <1>3 DEF Save, Apply, AckedFileGone, UploadsAlone
<1>4. ASSUME NEW t \in Threads, Undo(t)
      PROVE  AckedFileGone'
  BY <1>4 DEF Undo, Apply, AckedFileGone
<1>5. ASSUME NEW t \in Threads, NEW u \in Users, NEW f \in FileIds,
             GetOwned(t, u, f)
      PROVE  AckedFileGone'
  BY <1>5 DEF GetOwned, AckedFileGone
<1>6. ASSUME NEW t \in Threads, Remove(t)
      PROVE  AckedFileGone'
  BY <1>6 DEF Remove, Apply, AckedFileGone
<1>7. ASSUME NEW t \in Threads, Drop(t)
      PROVE  AckedFileGone'
  BY <1>7 DEF Drop, Apply, AckedFileGone, DropsRemoved
<1>8. ASSUME CrashRestart
      PROVE  AckedFileGone'
  BY <1>8 DEF CrashRestart, AckedFileGone
<1>9. CASE UNCHANGED vars
  BY <1>9 DEF vars, AckedFileGone
<1>10. QED
  BY <1>1, <1>2, <1>3, <1>4, <1>5, <1>6, <1>7, <1>8, <1>9 DEF Next, Serve

-----------------------------------------------------------------------------
(* Theorems.                                                               *)

\* The inductive invariant holds in every reachable state.
THEOREM FileInvariance == Spec => []IInv
<1>1. Init => IInv
  BY InitInv
<1>2. IInv /\ [Next]_vars => IInv'
  BY NextTypeOK, NextOwners, NextUnminted, NextUploads, NextUndos, NextDrops,
     NextContent, NextRows, NextKept, NextGone DEF IInv
<1>3. QED
  BY <1>1, <1>2, PTL DEF Spec

\* Rows, contents and requests keep their types.
THEOREM FileTypes == Spec => []TypeOK
<1>1. IInv => TypeOK
  BY DEF IInv
<1>2. QED
  BY <1>1, FileInvariance, PTL

\* What can be listed has its content until its removal is asked for, unless
\* the database kept a row it never confirmed.
THEOREM RowsKeepContent == Spec => []RowsHaveContent
<1>1. IInv => RowsHaveContent
  BY DEF IInv
<1>2. QED
  BY <1>1, FileInvariance, PTL

\* An upload answered 201 stays, row and content, until a DELETE for it.
THEOREM UploadsAreKept == Spec => []UploadsKept
<1>1. IInv => UploadsKept
  BY DEF IInv
<1>2. QED
  BY <1>1, FileInvariance, PTL

\* A DELETE answered 204 leaves neither row nor content, for good.
THEOREM DeletedFilesAreGone == Spec => []AckedFileGone
<1>1. IInv => AckedFileGone
  BY DEF IInv
<1>2. QED
  BY <1>1, FileInvariance, PTL

\* Upload's compensating removals leave content without a row only after a
\* crash or two failing calls.
THEOREM CompensationWorks == Spec => []NoOrphanFileWithoutDoubleFault
<1>1. IInv => NoOrphanFileWithoutDoubleFault
  <2> SUFFICES ASSUME IInv, NEW f \in FileIds, Orphan(f)
               PROVE  crashes > 0 \/ faults >= 2
    BY DEF NoOrphanFileWithoutDoubleFault
  <2>1. \A t \in Threads : ~Uploading(t, f)
    BY DEF Orphan, Uploading, On
  <2>2. QED
    BY <2>1 DEF IInv, ContentExpected, Orphan
<1>2. QED
  BY <1>1, FileInvariance, PTL

\* A step that removes content or a row is one of a request of the uploader.
LEMMA RemovalsOwned ==
    ASSUME IInv, [Next]_vars, NEW f \in FileIds,
           \/ disk[f] # Absent /\ disk'[f] = Absent
           \/ rows[f] # Absent /\ rows'[f] = Absent
    PROVE  \E t \in Threads : /\ thread[t] # Absent
                              /\ thread[t].id = f
                              /\ thread[t].user = minted[f]
                              /\ thread'[t] # thread[t]
<1> USE DEF IInv, TypeOK
<1>1. PICK t \in Threads : Copy(t) \/ Save(t) \/ Undo(t) \/ Remove(t) \/ Drop(t)
  BY AbsentAssumption DEF Next, Serve, Create, GetOwned, CrashRestart, vars,
                          Content
<1>2. thread[t] # Absent /\ thread[t] \in Request
  BY <1>1 DEF Copy, Save, Undo, Remove, Drop, At
<1>3. thread[t].user = minted[thread[t].id]
  BY <1>2 DEF OwnersKnown
<1>4. thread[t].id = f
  BY <1>1, <1>2 DEF Copy, Save, Undo, Remove, Drop, Apply, Request
<1>5. thread'[t] # thread[t]
  BY <1>1, <1>2, AbsentAssumption
  DEF Copy, Save, Undo, Remove, Drop, At, AfterCopyError, SaveFailed, Removed,
      GoTo, Answer, Request
<1>6. QED
  BY <1>2, <1>3, <1>4, <1>5

\* Only the user who uploaded a file has its content or its row removed.
THEOREM UploadersOnly == Spec => OnlyUploaderRemoves
<1>1. IInv /\ [Next]_vars =>
        [\A f \in FileIds :
            \/ disk[f] # Absent /\ disk'[f] = Absent
            \/ rows[f] # Absent /\ rows'[f] = Absent
            => \E t \in Threads : /\ thread[t] # Absent
                                  /\ thread[t].id = f
                                  /\ thread[t].user = minted[f]
                                  /\ thread'[t] # thread[t]]_vars
  BY RemovalsOwned
<1>2. QED
  BY <1>1, FileInvariance, PTL DEF Spec, OnlyUploaderRemoves

=============================================================================
