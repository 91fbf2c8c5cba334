---------------------------- MODULE PassProofs ----------------------------
(***************************************************************************)
(* What holds of index passes for any number of files, contents and        *)
(* writers.                                                                *)
(***************************************************************************)
EXTENDS Pass, TLAPS

----------------------------------------------------------------------------
(* Types *)

LEMMA RequestIsHint == Request \subseteq Hint
BY DEF Request, Hint

LEMMA CoveredPaths == ASSUME NEW look \in Hint PROVE Covered(look) \in SUBSET Path
BY DEF Covered, Hint

\* What a pass starts from is well formed.
LEMMA OpenedType ==
    ASSUME TypeOK, NEW hint \in Hint, NEW force \in BOOLEAN, NEW rebuilt \in BOOLEAN
    PROVE  /\ Look(hint, force, rebuilt) \in Hint
           /\ NoRows \in [Path -> FileOrNone]
           /\ \A whole \in BOOLEAN :
                 Opened(Look(hint, force, rebuilt), whole) \in PassRecord
<1> DEFINE look == Look(hint, force, rebuilt)
<1>1. look \in Hint
  BY DEF Look, Hint
<1>2. Candidates(look) \in SUBSET Path
  BY <1>1, PassAssumption DEF Candidates, Hint
<1>3. StoredIn(look) \in [Path -> FileOrNone] /\ NoRows \in [Path -> FileOrNone]
  BY DEF StoredIn, NoRows, TypeOK, FileOrNone
<1>4. NoRows \in [Path -> FileOrNone \cup {Unread}]
  BY <1>3 DEF NoRows, FileOrNone
<1> HIDE DEF look
<1>5. QED
  BY <1>1, <1>2, <1>3, <1>4 DEF Opened, PassRecord, look

LEMMA BusyIsRecord ==
    ASSUME TypeOK, NEW w \in Writer, Busy(w)
    PROVE  pass[w] \in PassRecord
BY DEF TypeOK, Busy

LEMMA WithinPaths ==
    ASSUME TypeOK, NEW w \in Writer, Busy(w)
    PROVE  /\ Targets(pass[w]) \in SUBSET Path
           /\ Removed(pass[w]) \in SUBSET Path
           /\ Checked(pass[w]) \in SUBSET Listed
           /\ Covered(pass[w].look) \in SUBSET Path
<1>1. pass[w] \in PassRecord
  BY BusyIsRecord
<1>2. pass[w].look \in Hint
  BY <1>1 DEF PassRecord
<1>3. QED
  BY <1>2, CoveredPaths DEF Targets, Removed, Differing, Checked

\* The rows, the graph and the passes keep their types, whatever moves and dies.
LEMMA TypeStep == TypeOK /\ [Next]_passVars => TypeOK'
<1> SUFFICES ASSUME TypeOK, [Next]_passVars
             PROVE  TypeOK'
  OBVIOUS
<1>1. ASSUME NEW w \in Writer, NEW hint \in Hint, NEW force \in BOOLEAN,
             Begin(w, hint, force)
      PROVE  TypeOK'
  <2>1. Opened(Look(hint, force, FALSE), force) \in PassRecord
    BY OpenedType
  <2>2. QED
    BY <1>1, <2>1 DEF Begin, TypeOK
<1>2. ASSUME NEW w \in Writer, NEW hint \in Hint, NEW force \in BOOLEAN,
             BeginRebuild(w, hint, force)
      PROVE  TypeOK'
  <2> DEFINE fresh == Opened(Look(hint, force, TRUE), TRUE)
             mine == [fresh EXCEPT !.stored = NoRows]
  <2>1. fresh \in PassRecord /\ NoRows \in [Path -> FileOrNone]
    BY OpenedType
  <2>2. mine \in PassRecord
    <3> HIDE DEF fresh
    <3> QED
      BY <2>1 DEF PassRecord
  <2>3. ASSUME NEW v \in Writer, Busy(v)
        PROVE  [pass[v] EXCEPT !.orphan = TRUE, !.overtaken = Path] \in PassRecord
    <3>1. pass[v] \in PassRecord
      BY <2>3, BusyIsRecord
    <3>2. QED
      BY <3>1 DEF PassRecord
  <2>4. pass' = [v \in Writer |->
                   IF v = w THEN mine
                   ELSE IF Busy(v) THEN [pass[v] EXCEPT !.orphan = TRUE, !.overtaken = Path]
                   ELSE NoPass]
    BY <1>2 DEF BeginRebuild
  <2> HIDE DEF mine, fresh
  <2>5. pass' \in [Writer -> {NoPass} \cup PassRecord]
    BY <2>2, <2>3, <2>4
  <2>6. QED
    BY <1>2, <2>1, <2>5 DEF BeginRebuild, TypeOK, envVars, FileOrNone, NoRows
<1>3. ASSUME NEW w \in Writer, NEW p \in Path, Hash(w, p)
      PROVE  TypeOK'
  <2>1. pass[w] \in PassRecord
    BY <1>3, BusyIsRecord DEF Hash
  <2>2. OnDisk(p) \in FileOrNone
    BY DEF OnDisk, TypeOK, FileOrNone
  <2>3. [pass[w] EXCEPT !.todo = @ \ {p}, !.metas[p] = OnDisk(p)] \in PassRecord
    BY <2>1, <2>2 DEF PassRecord
  <2>4. QED
    BY <1>3, <2>3 DEF Hash, TypeOK
<1>4. ASSUME NEW w \in Writer, NEW p \in Path, Read(w, p)
      PROVE  TypeOK'
  <2>1. pass[w] \in PassRecord
    BY <1>4, BusyIsRecord DEF Read
  <2> DEFINE text == IF OnDisk(p) = None THEN Unread ELSE OnDisk(p)
  <2>2. text \in FileOrNone \cup {Unread}
    BY DEF OnDisk, TypeOK, FileOrNone
  <2> HIDE DEF text
  <2>3. [pass[w] EXCEPT !.todo = @ \ {p}, !.facts[p] = text] \in PassRecord
    BY <2>1, <2>2 DEF PassRecord
  <2>4. pass' = [pass EXCEPT ![w] = [pass[w] EXCEPT !.todo = @ \ {p}, !.facts[p] = text]]
    BY <1>4 DEF Read, text, TypeOK
  <2>5. QED
    BY <1>4, <2>3, <2>4 DEF Read, TypeOK
<1>5. ASSUME NEW w \in Writer, EndUnchanged(w)
      PROVE  TypeOK'
  <2>1. Busy(w)
    BY <1>5 DEF EndUnchanged, Hashed
  <2>2. QED
    BY <1>5, <2>1, WithinPaths DEF EndUnchanged, TypeOK
<1>6. ASSUME NEW w \in Writer, StartReading(w)
      PROVE  TypeOK'
  <2>1. Busy(w) /\ pass[w] \in PassRecord
    BY <1>6, BusyIsRecord DEF StartReading, Hashed
  <2> DEFINE metas == [p \in Path |-> IF p \in Targets(pass[w]) THEN pass[w].metas[p] ELSE None]
             stored == [p \in Path |-> IF p \in Removed(pass[w]) THEN pass[w].stored[p] ELSE None]
  <2>2. metas \in [Path -> FileOrNone] /\ stored \in [Path -> FileOrNone]
    BY <2>1 DEF PassRecord, FileOrNone
  <2>3. [pass[w] EXCEPT !.phase = "read", !.todo = Targets(pass[w]),
                        !.metas = metas, !.stored = stored] \in PassRecord
    <3> HIDE DEF metas, stored
    <3> QED
      BY <2>1, <2>2, WithinPaths DEF PassRecord
  <2>4. QED
    BY <1>6, <2>3 DEF StartReading, TypeOK
<1>7. ASSUME NEW w \in Writer, Commit(w)
      PROVE  TypeOK'
  <2>1. Busy(w) /\ pass[w] \in PassRecord
    BY <1>7, BusyIsRecord DEF Commit, Parsed
  <2>2. sha' \in [Path -> FileOrNone] /\ graph' \in [Path -> FileOrNone \cup {Unread, Dated}]
    BY <1>7, <2>1 DEF Commit, PassRecord, TypeOK
  <2>3. ASSUME NEW v \in Writer, Busy(v)
        PROVE  [pass[v] EXCEPT !.overtaken = @ \cup Stale(w)] \in PassRecord
    <3>1. pass[v] \in PassRecord /\ Stale(w) \in SUBSET Path
      BY <2>1, <2>3, BusyIsRecord, WithinPaths DEF Stale
    <3>2. QED
      BY <3>1 DEF PassRecord
  <2>4. pass' \in [Writer -> {NoPass} \cup PassRecord]
    BY <1>7, <2>3 DEF Commit, Overtaken
  <2>5. QED
    BY <1>7, <2>1, <2>2, <2>4, WithinPaths DEF Commit, envVars, TypeOK
<1>8. ASSUME NEW w \in Writer, CommitOrphan(w) \/ Abort(w)
      PROVE  TypeOK'
  BY <1>8 DEF CommitOrphan, Abort, TypeOK
<1>9. ASSUME NEW p \in Path, NEW c \in FileOrNone, Edit(p, c)
      PROVE  TypeOK'
  <2>1. ASSUME NEW v \in Writer, Busy(v)
        PROVE  [pass[v] EXCEPT !.touched = @ \cup {p}] \in PassRecord
    <3>1. pass[v] \in PassRecord
      BY <2>1, BusyIsRecord
    <3>2. QED
      BY <3>1 DEF PassRecord
  <2>2. QED
    BY <1>9, <2>1 DEF Edit, TypeOK
<1>10. ASSUME FlipMount
       PROVE  TypeOK'
  <2>1. ASSUME NEW v \in Writer, Busy(v)
        PROVE  [pass[v] EXCEPT !.touched = Path] \in PassRecord
    <3>1. pass[v] \in PassRecord
      BY <2>1, BusyIsRecord
    <3>2. QED
      BY <3>1 DEF PassRecord
  <2>2. QED
    BY <1>10, <2>1 DEF FlipMount, TypeOK
<1>11. CASE UNCHANGED passVars
  BY <1>11 DEF passVars, TypeOK
<1>12. QED
  BY <1>1, <1>2, <1>3, <1>4, <1>5, <1>6, <1>7, <1>8, <1>9, <1>10, <1>11, RequestIsHint
  DEF Next
----------------------------------------------------------------------------
(* What a pass under way knows *)

\* A pass whose own record only grows in `touched` and `overtaken` keeps knowing
\* what it knew, when files and the root move only where it counts them as
\* touched, and rows only where it counts them as touched or overtaken.
LEMMA CurrentSurvives ==
    ASSUME NEW ps \in PassRecord, NEW qs \in PassRecord,
           Current(ps),
           /\ qs.look = ps.look /\ qs.phase = ps.phase /\ qs.todo = ps.todo
           /\ qs.whole = ps.whole /\ qs.stored = ps.stored /\ qs.metas = ps.metas,
           ps.touched \subseteq qs.touched, ps.overtaken \subseteq qs.overtaken,
           \A p \in Path \ qs.touched : disk'[p] = disk[p],
           \A p \in Path \ (qs.touched \cup qs.overtaken) : sha'[p] = sha[p],
           qs.touched # Path => mounted' = mounted
    PROVE  Current(qs)'
<1>1. Targets(qs) = Targets(ps) /\ Removed(qs) = Removed(ps)
  BY DEF Targets, Removed, Differing
<1>2. ASSUME NEW p \in (Covered(qs.look) \cap Listed) \ qs.touched
      PROVE  /\ p \in (Covered(ps.look) \cap Listed) \ ps.touched
             /\ disk'[p] = disk[p] /\ mounted' = mounted
             /\ p \notin qs.overtaken => p \notin ps.overtaken /\ sha'[p] = sha[p]
  BY PassAssumption
<1>3. QED
  BY <1>1, <1>2 DEF Current, Targets, Removed, Differing, Covered

\* A pass that has just opened the store knows its rows, and has all it may
\* find still to hash: a path it will not look at has no file.
LEMMA CurrentAtStart ==
    ASSUME NEW look \in Hint, NEW whole \in BOOLEAN, mounted, TypeOK
    PROVE  Current(Opened(look, whole))
<1> DEFINE ps == Opened(look, whole)
<1>1. /\ ps.look = look /\ ps.phase = "hash" /\ ps.todo = Candidates(look)
      /\ ps.stored = StoredIn(look) /\ ps.metas = NoRows
  BY DEF Opened
<1>2. ASSUME NEW p \in Covered(look) \cap Listed
      PROVE  /\ StoredIn(look)[p] = sha[p]
             /\ p \in Candidates(look) \/ NoRows[p] = disk[p]
  BY <1>2, PassAssumption DEF StoredIn, Candidates, NoRows, Covered
<1> HIDE DEF ps
<1>3. QED
  BY <1>1, <1>2 DEF Current, ps

LEMMA CurrentStep ==
    TypeOK /\ UndisturbedIsCurrent /\ [Next]_passVars => UndisturbedIsCurrent'
<1> SUFFICES ASSUME TypeOK, UndisturbedIsCurrent, [Next]_passVars,
                    NEW v \in Writer, Busy(v)'
             PROVE  Current(pass[v])'
  BY DEF UndisturbedIsCurrent
<1>0. TypeOK'
  BY TypeStep
<1>a. ASSUME UNCHANGED <<disk, mounted, sha>>, pass'[v] = pass[v]
      PROVE  Current(pass[v])'
  BY <1>a DEF UndisturbedIsCurrent, Busy, Current, Targets, Removed, Differing, Covered
<1>1. ASSUME NEW w \in Writer, NEW hint \in Hint, NEW force \in BOOLEAN,
             Begin(w, hint, force)
      PROVE  Current(pass[v])'
  <2>1. CASE v = w
    <3> DEFINE ps == Opened(Look(hint, force, FALSE), force)
    <3>1. Current(ps)
      BY <1>1, OpenedType, CurrentAtStart DEF Begin
    <3>2. pass'[v] = ps
      BY <1>1, <2>1 DEF Begin, TypeOK
    <3>3. UNCHANGED <<disk, mounted, sha>>
      BY <1>1 DEF Begin
    <3> HIDE DEF ps
    <3>4. ASSUME NEW qs, qs = pass'[v]
          PROVE  Current(qs)'
      <4>1. Current(qs)
        BY <3>1, <3>2, <3>4
      <4>2. QED
        BY <3>3, <4>1 DEF Current, Targets, Removed, Differing, Covered
    <3>5. QED
      BY <3>4 DEF Current, Targets, Removed, Differing, Covered
  <2>2. CASE v # w
    BY <1>1, <1>a, <2>2 DEF Begin, TypeOK
  <2>3. QED
    BY <2>1, <2>2
<1>2. ASSUME NEW w \in Writer, NEW hint \in Hint, NEW force \in BOOLEAN,
             BeginRebuild(w, hint, force)
      PROVE  Current(pass[v])'
  <2> DEFINE look == Look(hint, force, TRUE)
             mine == [Opened(look, TRUE) EXCEPT !.stored = NoRows]
  <2>1. CASE v = w
    <3>1. pass'[v] = mine
      BY <1>2, <2>1 DEF BeginRebuild
    <3>2. /\ mine.look = look /\ mine.phase = "hash" /\ mine.todo = Candidates(look)
          /\ mine.stored = NoRows /\ mine.metas = NoRows
      BY DEF Opened
    <3>3. look = Whole
      BY DEF Look
    <3>4. sha' = NoRows /\ disk' = disk /\ mounted' /\ Covered(look) = Path
      BY <1>2, <3>3 DEF BeginRebuild, envVars, Covered
    <3>5. \A p \in Listed : p \in Candidates(look) \/ NoRows[p] = disk[p]
      BY <3>3, PassAssumption DEF Candidates, NoRows
    <3> HIDE DEF mine
    <3>6. QED
      BY <3>1, <3>2, <3>3, <3>4, <3>5 DEF Current, Covered
  <2>2. CASE v # w
    <3>1. Busy(v) /\ pass'[v] = [pass[v] EXCEPT !.orphan = TRUE, !.overtaken = Path]
      BY <1>2, <2>2 DEF BeginRebuild, Busy
    <3>2. Current(pass[v]) /\ pass[v] \in PassRecord /\ pass'[v] \in PassRecord
      BY <1>0, <3>1, BusyIsRecord DEF UndisturbedIsCurrent, TypeOK, Busy
    <3>3. /\ pass'[v].look = pass[v].look /\ pass'[v].phase = pass[v].phase
          /\ pass'[v].todo = pass[v].todo /\ pass'[v].whole = pass[v].whole
          /\ pass'[v].stored = pass[v].stored /\ pass'[v].metas = pass[v].metas
          /\ pass'[v].touched = pass[v].touched /\ pass'[v].overtaken = Path
          /\ pass[v].overtaken \subseteq Path
      BY <3>1, <3>2 DEF PassRecord
    <3>4. disk' = disk /\ mounted' = mounted
      BY <1>2 DEF BeginRebuild, envVars
    <3>5. \A qs \in PassRecord : qs = pass'[v] => Current(qs)'
      BY <3>2, <3>3, <3>4, CurrentSurvives
    <3>6. QED
      BY <3>2, <3>5 DEF Current, Covered, Targets, Removed, Differing
  <2>3. QED
    BY <2>1, <2>2
<1>3. ASSUME NEW w \in Writer, NEW p \in Path, Hash(w, p)
      PROVE  Current(pass[v])'
  <2>1. CASE v = w
    <3>1. Busy(w) /\ pass[w] \in PassRecord /\ Current(pass[w]) /\ pass[w].phase = "hash"
      BY <1>3, BusyIsRecord DEF Hash, UndisturbedIsCurrent
    <3>2. pass'[v] = [pass[w] EXCEPT !.todo = @ \ {p}, !.metas[p] = OnDisk(p)]
      BY <1>3, <2>1 DEF Hash, TypeOK
    <3>3. /\ pass'[v].look = pass[w].look /\ pass'[v].touched = pass[w].touched
          /\ pass'[v].overtaken = pass[w].overtaken
          /\ pass'[v].phase = "hash" /\ pass'[v].stored = pass[w].stored
          /\ pass'[v].todo = pass[w].todo \ {p}
          /\ pass'[v].metas = [pass[w].metas EXCEPT ![p] = OnDisk(p)]
      BY <3>1, <3>2 DEF PassRecord
    <3>4. pass[w].metas \in [Path -> FileOrNone]
      BY <3>1 DEF PassRecord
    <3>5. UNCHANGED <<disk, mounted, sha>>
      BY <1>3 DEF Hash
    <3>6. QED
      BY <3>1, <3>3, <3>4, <3>5, PassAssumption DEF Current, Covered, OnDisk
  <2>2. CASE v # w
    BY <1>3, <1>a, <2>2 DEF Hash, TypeOK
  <2>3. QED
    BY <2>1, <2>2
<1>4. ASSUME NEW w \in Writer, NEW p \in Path, Read(w, p)
      PROVE  Current(pass[v])'
  <2>1. CASE v = w
    <3>1. Busy(w) /\ pass[w] \in PassRecord /\ Current(pass[w]) /\ pass[w].phase = "read"
      BY <1>4, BusyIsRecord DEF Read, UndisturbedIsCurrent
    <3> DEFINE text == IF OnDisk(p) = None THEN Unread ELSE OnDisk(p)
    <3>2. pass'[v] = [pass[w] EXCEPT !.todo = @ \ {p}, !.facts[p] = text]
      BY <1>4, <2>1 DEF Read, TypeOK
    <3> HIDE DEF text
    <3>3. /\ pass'[v].look = pass[w].look /\ pass'[v].touched = pass[w].touched
          /\ pass'[v].overtaken = pass[w].overtaken
          /\ pass'[v].phase = "read" /\ pass'[v].stored = pass[w].stored
          /\ pass'[v].metas = pass[w].metas /\ pass'[v].whole = pass[w].whole
      BY <3>1, <3>2 DEF PassRecord
    <3>4. UNCHANGED <<disk, mounted, sha>>
      BY <1>4 DEF Read
    <3>5. QED
      BY <3>1, <3>3, <3>4 DEF Current, Covered, Targets, Removed, Differing
  <2>2. CASE v # w
    BY <1>4, <1>a, <2>2 DEF Read, TypeOK
  <2>3. QED
    BY <2>1, <2>2
<1>5. ASSUME NEW w \in Writer, EndUnchanged(w) \/ CommitOrphan(w) \/ Abort(w)
      PROVE  Current(pass[v])'
  <2>1. v # w /\ pass'[v] = pass[v]
    BY <1>5 DEF EndUnchanged, CommitOrphan, Abort, Busy, TypeOK
  <2>2. QED
    BY <1>5, <1>a, <2>1 DEF EndUnchanged, CommitOrphan, Abort
<1>6. ASSUME NEW w \in Writer, StartReading(w)
      PROVE  Current(pass[v])'
  <2>1. CASE v = w
    <3> DEFINE ps == pass[w]
               targets == Targets(ps)
               removed == Removed(ps)
               metas == [p \in Path |-> IF p \in targets THEN ps.metas[p] ELSE None]
               stored == [p \in Path |-> IF p \in removed THEN ps.stored[p] ELSE None]
    <3>1. Busy(w) /\ ps \in PassRecord /\ Current(ps) /\ ps.phase = "hash" /\ ps.todo = {}
      BY <1>6, BusyIsRecord DEF StartReading, Hashed, UndisturbedIsCurrent
    <3>2. pass'[v] = [ps EXCEPT !.phase = "read", !.todo = targets,
                                !.metas = metas, !.stored = stored]
      BY <1>6, <2>1 DEF StartReading, TypeOK
    <3>3. /\ pass'[v].look = ps.look /\ pass'[v].touched = ps.touched
          /\ pass'[v].overtaken = ps.overtaken
          /\ pass'[v].phase = "read" /\ pass'[v].whole = ps.whole
          /\ pass'[v].metas = metas /\ pass'[v].stored = stored
      <4> HIDE DEF metas, stored, targets, removed
      <4> QED
        BY <3>1, <3>2 DEF PassRecord
    <3>4. ASSUME NEW p \in Path
          PROVE  /\ p \in Targets(pass'[v]) <=> p \in targets
                 /\ p \in Removed(pass'[v]) <=> p \in removed
      BY <3>3 DEF Targets, Removed, Differing
    <3>5. UNCHANGED <<disk, mounted, sha>>
      BY <1>6 DEF StartReading
    <3>6. ASSUME NEW p \in (Covered(ps.look) \cap Listed) \ ps.touched
          PROVE  /\ mounted
                 /\ p \in targets \cup removed => metas[p] = disk[p]
                 /\ p \notin ps.overtaken /\ p \notin targets \cup removed => sha[p] = disk[p]
      <4>1. /\ p \in Path /\ ps.metas[p] = disk[p] /\ mounted
            /\ p \notin ps.overtaken => ps.stored[p] = sha[p]
        BY <3>1, PassAssumption DEF Current
      <4>2. p \in removed => p \notin targets
        BY DEF Targets, Removed, Differing
      <4>3. p \in removed => metas[p] = disk[p]
        BY <4>1, <4>2 DEF Removed
      <4>4. p \in targets => metas[p] = disk[p]
        BY <4>1
      <4>5. p \notin targets \cup removed => ps.metas[p] = None \/ ps.metas[p] = ps.stored[p]
        BY <4>1 DEF Targets, Differing
      <4>6. p \notin ps.overtaken /\ p \notin targets \cup removed => sha[p] = disk[p]
        BY <4>1, <4>5 DEF Removed
      <4>7. QED
        BY <4>1, <4>3, <4>4, <4>6
    <3> HIDE DEF targets, removed, metas, stored, ps
    <3>7. QED
      BY <3>3, <3>4, <3>5, <3>6, PassAssumption
      DEF Current, Covered, Targets, Removed, Differing
  <2>2. CASE v # w
    BY <1>6, <1>a, <2>2 DEF StartReading, TypeOK
  <2>3. QED
    BY <2>1, <2>2
<1>7. ASSUME NEW w \in Writer, Commit(w)
      PROVE  Current(pass[v])'
  <2>1. Busy(v) /\ pass'[v] = [pass[v] EXCEPT !.overtaken = @ \cup Stale(w)]
    BY <1>7 DEF Commit, Overtaken, Busy
  <2>2. pass[v] \in PassRecord /\ pass'[v] \in PassRecord
    BY <1>0, <2>1, BusyIsRecord DEF TypeOK, Busy
  <2>3. /\ pass'[v].look = pass[v].look /\ pass'[v].phase = pass[v].phase
        /\ pass'[v].todo = pass[v].todo /\ pass'[v].whole = pass[v].whole
        /\ pass'[v].stored = pass[v].stored /\ pass'[v].metas = pass[v].metas
        /\ pass'[v].touched = pass[v].touched
        /\ pass'[v].overtaken = pass[v].overtaken \cup Stale(w)
    BY <2>1, <2>2 DEF PassRecord
  <2>5. \A p \in Path \ pass'[v].overtaken : sha'[p] = sha[p]
    BY <1>7, <2>3 DEF Commit
  <2>6. disk' = disk /\ mounted' = mounted
    BY <1>7 DEF Commit, envVars
  <2>7. Current(pass[v])
    BY <2>1 DEF UndisturbedIsCurrent
  <2>8. \A qs \in PassRecord : qs = pass'[v] => Current(qs)'
    BY <2>2, <2>3, <2>5, <2>6, <2>7, CurrentSurvives
  <2>9. QED
    BY <2>2, <2>8 DEF Current, Covered, Targets, Removed, Differing
<1>8. ASSUME NEW p \in Path, NEW c \in FileOrNone, Edit(p, c)
      PROVE  Current(pass[v])'
  <2>1. Busy(v) /\ pass'[v] = [pass[v] EXCEPT !.touched = @ \cup {p}]
    BY <1>8 DEF Edit, Busy
  <2>2. pass[v] \in PassRecord /\ pass'[v] \in PassRecord
    BY <1>0, <2>1, BusyIsRecord DEF TypeOK, Busy
  <2>3. /\ pass'[v].look = pass[v].look /\ pass'[v].phase = pass[v].phase
        /\ pass'[v].todo = pass[v].todo /\ pass'[v].whole = pass[v].whole
        /\ pass'[v].stored = pass[v].stored /\ pass'[v].metas = pass[v].metas
        /\ pass'[v].touched = pass[v].touched \cup {p}
        /\ pass'[v].overtaken = pass[v].overtaken
    BY <2>1, <2>2 DEF PassRecord
  <2>5. \A q \in Path \ pass'[v].touched : disk'[q] = disk[q]
    BY <1>8, <2>3 DEF Edit, TypeOK
  <2>6. sha' = sha /\ mounted' = mounted
    BY <1>8 DEF Edit
  <2>7. Current(pass[v])
    BY <2>1 DEF UndisturbedIsCurrent
  <2>8. \A qs \in PassRecord : qs = pass'[v] => Current(qs)'
    BY <2>2, <2>3, <2>5, <2>6, <2>7, CurrentSurvives
  <2>9. QED
    BY <2>2, <2>8 DEF Current, Covered, Targets, Removed, Differing
<1>9. ASSUME FlipMount
      PROVE  Current(pass[v])'
  <2>1. Busy(v) /\ pass'[v] = [pass[v] EXCEPT !.touched = Path]
    BY <1>9 DEF FlipMount, Busy
  <2>2. pass'[v].touched = Path
    BY <2>1, BusyIsRecord DEF PassRecord
  <2>3. QED
    BY <2>2, PassAssumption DEF Current
<1>10. CASE UNCHANGED passVars
  BY <1>10, <1>a DEF passVars
<1>11. QED
  BY <1>1, <1>2, <1>3, <1>4, <1>5, <1>6, <1>7, <1>8, <1>9, <1>10,
     RequestIsHint
  DEF Next
----------------------------------------------------------------------------
(* Types and passes, in every state *)

LEMMA PassInit == Init => TypeOK /\ UndisturbedIsCurrent
<1> SUFFICES ASSUME Init
             PROVE  TypeOK /\ UndisturbedIsCurrent
  OBVIOUS
<1>1. sha \in [Path -> FileOrNone]
  BY DEF Init, NoRows, FileOrNone
<1>2. TypeOK
  BY <1>1 DEF Init, TypeOK, FileOrNone
<1>3. QED
  BY <1>2 DEF Init, UndisturbedIsCurrent, Busy

\* The variables of a store and of its passes keep their types.
THEOREM PassTypeCorrect == Spec => []TypeOK
<1>1. QED
  BY PassInit, TypeStep, PTL DEF Spec

\* Between its start and its commit a pass has the true digest of every file
\* that does not move, with any number of other writers of the same store, and
\* the true row of every such file that no other writer has written since.
THEOREM PassesAreCurrent == Spec => []UndisturbedIsCurrent
<1>1. QED
  BY PassInit, TypeStep, CurrentStep, PTL DEF Spec

----------------------------------------------------------------------------
(* The stamp *)

\* A store that is not yet stamped has only passes over the whole tree under
\* way in it, and what an older algorithm wrote goes with the old stamp.
RebuildsAreWhole ==
    /\ stamp # "old" => \A p \in Path : graph[p] # Dated
    /\ \A w \in Writer :
          Busy(w) /\ ~pass[w].orphan /\ stamp # "current" =>
              stamp = "none" /\ pass[w].look = Whole
    /\ stamp = "old" => \A w \in Writer : ~Busy(w)

LEMMA StampStep ==
    TypeOK /\ RebuildsAreWhole /\ StampIsAWitness /\ [Next]_passVars
        => RebuildsAreWhole' /\ StampIsAWitness'
<1> SUFFICES ASSUME TypeOK, RebuildsAreWhole, StampIsAWitness, [Next]_passVars
             PROVE  RebuildsAreWhole' /\ StampIsAWitness'
  OBVIOUS
<1>1. ASSUME NEW w \in Writer, NEW hint \in Hint, NEW force \in BOOLEAN,
             Begin(w, hint, force)
      PROVE  RebuildsAreWhole' /\ StampIsAWitness'
  BY <1>1 DEF Begin, RebuildsAreWhole, StampIsAWitness, Busy
<1>2. ASSUME NEW w \in Writer, NEW hint \in Hint, NEW force \in BOOLEAN,
             BeginRebuild(w, hint, force)
      PROVE  RebuildsAreWhole' /\ StampIsAWitness'
  <2> DEFINE mine == [Opened(Look(hint, force, TRUE), TRUE) EXCEPT !.stored = NoRows]
  <2>1. stamp' = "none" /\ graph' = NoRows
    BY <1>2 DEF BeginRebuild
  <2>2. pass' = [v \in Writer |->
                   IF v = w THEN mine
                   ELSE IF Busy(v) THEN [pass[v] EXCEPT !.orphan = TRUE, !.overtaken = Path]
                   ELSE NoPass]
    BY <1>2 DEF BeginRebuild
  <2>3. mine.look = Whole
    BY DEF Opened, Look
  <2>4. ASSUME NEW v \in Writer, v # w, Busy(v)
        PROVE  [pass[v] EXCEPT !.orphan = TRUE, !.overtaken = Path].orphan
    BY <2>4, BusyIsRecord DEF PassRecord
  <2> HIDE DEF mine
  <2>5. ASSUME NEW v \in Writer, Busy(v)', ~pass'[v].orphan
        PROVE  pass'[v].look = Whole
    <3>1. CASE v = w
      BY <2>2, <2>3, <3>1
    <3>2. CASE v # w
      BY <2>2, <2>4, <2>5, <3>2 DEF Busy
    <3>3. QED
      BY <3>1, <3>2
  <2>6. QED
    BY <2>1, <2>5, PassAssumption DEF RebuildsAreWhole, StampIsAWitness, NoRows, Busy
<1>3. ASSUME NEW w \in Writer, NEW p \in Path, Hash(w, p)
      PROVE  RebuildsAreWhole' /\ StampIsAWitness'
  <2>1. pass[w] \in PassRecord /\ Busy(w)
    BY <1>3, BusyIsRecord DEF Hash
  <2>2. pass'[w] = [pass[w] EXCEPT !.todo = @ \ {p}, !.metas[p] = OnDisk(p)]
    BY <1>3 DEF Hash, TypeOK
  <2>3. pass'[w].look = pass[w].look /\ pass'[w].orphan = pass[w].orphan
    BY <2>1, <2>2 DEF PassRecord
  <2>4. \A v \in Writer \ {w} : pass'[v] = pass[v]
    BY <1>3 DEF Hash, TypeOK
  <2>5. QED
    BY <1>3, <2>1, <2>3, <2>4 DEF Hash, RebuildsAreWhole, StampIsAWitness, Busy
<1>4. ASSUME NEW w \in Writer, NEW p \in Path, Read(w, p)
      PROVE  RebuildsAreWhole' /\ StampIsAWitness'
  <2>1. pass[w] \in PassRecord /\ Busy(w)
    BY <1>4, BusyIsRecord DEF Read
  <2> DEFINE text == IF OnDisk(p) = None THEN Unread ELSE OnDisk(p)
  <2>2. pass'[w] = [pass[w] EXCEPT !.todo = @ \ {p}, !.facts[p] = text]
    BY <1>4 DEF Read, TypeOK
  <2> HIDE DEF text
  <2>3. pass'[w].look = pass[w].look /\ pass'[w].orphan = pass[w].orphan
    BY <2>1, <2>2 DEF PassRecord
  <2>4. \A v \in Writer \ {w} : pass'[v] = pass[v]
    BY <1>4 DEF Read, TypeOK
  <2>5. QED
    BY <1>4, <2>1, <2>3, <2>4 DEF Read, RebuildsAreWhole, StampIsAWitness, Busy
<1>5. ASSUME NEW w \in Writer, StartReading(w)
      PROVE  RebuildsAreWhole' /\ StampIsAWitness'
  <2>1. pass[w] \in PassRecord /\ Busy(w)
    BY <1>5, BusyIsRecord DEF StartReading, Hashed
  <2>2. \E metas, stored :
          pass'[w] = [pass[w] EXCEPT !.phase = "read", !.todo = Targets(pass[w]),
                                     !.metas = metas, !.stored = stored]
    BY <1>5 DEF StartReading, TypeOK
  <2>3. pass'[w].look = pass[w].look /\ pass'[w].orphan = pass[w].orphan
    BY <2>1, <2>2 DEF PassRecord
  <2>4. \A v \in Writer \ {w} : pass'[v] = pass[v]
    BY <1>5 DEF StartReading, TypeOK
  <2>5. QED
    BY <1>5, <2>1, <2>3, <2>4 DEF StartReading, RebuildsAreWhole, StampIsAWitness, Busy
<1>6. ASSUME NEW w \in Writer, EndUnchanged(w) \/ CommitOrphan(w) \/ Abort(w)
      PROVE  RebuildsAreWhole' /\ StampIsAWitness'
  BY <1>6 DEF EndUnchanged, CommitOrphan, Abort, RebuildsAreWhole, StampIsAWitness,
     Busy, TypeOK
<1>7. ASSUME NEW w \in Writer, Commit(w)
      PROVE  RebuildsAreWhole' /\ StampIsAWitness'
  <2>1. Busy(w) /\ pass[w] \in PassRecord /\ ~pass[w].orphan
    BY <1>7, BusyIsRecord DEF Commit, Parsed
  <2>2. stamp' = "current"
    BY <1>7 DEF Commit
  <2>3. stamp # "old"
    BY <2>1 DEF RebuildsAreWhole
  <2>4. \A p \in Path : graph'[p] # Dated
    <3>1. pass[w].facts \in [Path -> FileOrNone \cup {Unread}]
      BY <2>1 DEF PassRecord
    <3>2. Dated \notin FileOrNone \cup {Unread}
      BY PassAssumption DEF FileOrNone
    <3>3. graph' = [p \in Path |-> IF p \in Stale(w) THEN pass[w].facts[p] ELSE graph[p]]
      BY <1>7 DEF Commit
    <3>4. QED
      BY <2>3, <3>1, <3>2, <3>3 DEF RebuildsAreWhole
  <2>5. Listed \subseteq seen'
    <3>1. seen' = seen \cup Covered(pass[w].look)
      BY <1>7 DEF Commit
    <3>2. CASE stamp = "current"
      BY <3>1, <3>2 DEF StampIsAWitness
    <3>3. CASE stamp # "current"
      BY <2>1, <3>1, <3>3, PassAssumption DEF RebuildsAreWhole, Covered
    <3>4. QED
      BY <3>2, <3>3
  <2>6. QED
    BY <2>2, <2>4, <2>5 DEF RebuildsAreWhole, StampIsAWitness
<1>8. ASSUME NEW p \in Path, NEW c \in FileOrNone, Edit(p, c)
      PROVE  RebuildsAreWhole' /\ StampIsAWitness'
  <2>1. ASSUME NEW v \in Writer, Busy(v)'
        PROVE  /\ Busy(v)
               /\ pass'[v].look = pass[v].look /\ pass'[v].orphan = pass[v].orphan
    <3>1. Busy(v) /\ pass'[v] = [pass[v] EXCEPT !.touched = @ \cup {p}]
      BY <1>8, <2>1 DEF Edit, Busy
    <3>2. QED
      BY <3>1, BusyIsRecord DEF PassRecord
  <2>2. QED
    BY <1>8, <2>1 DEF Edit, RebuildsAreWhole, StampIsAWitness
<1>9. ASSUME FlipMount
      PROVE  RebuildsAreWhole' /\ StampIsAWitness'
  <2>1. ASSUME NEW v \in Writer, Busy(v)'
        PROVE  /\ Busy(v)
               /\ pass'[v].look = pass[v].look /\ pass'[v].orphan = pass[v].orphan
    <3>1. Busy(v) /\ pass'[v] = [pass[v] EXCEPT !.touched = Path]
      BY <1>9, <2>1 DEF FlipMount, Busy
    <3>2. QED
      BY <3>1, BusyIsRecord DEF PassRecord
  <2>2. QED
    BY <1>9, <2>1 DEF FlipMount, RebuildsAreWhole, StampIsAWitness
<1>10. CASE UNCHANGED passVars
  BY <1>10 DEF passVars, RebuildsAreWhole, StampIsAWitness, Busy
<1>11. QED
  BY <1>1, <1>2, <1>3, <1>4, <1>5, <1>6, <1>7, <1>8, <1>9, <1>10,
     RequestIsHint
  DEF Next

\* The stamp is a witness: the store that carries it was scanned whole since it
\* was created, and nothing in it was written by an older algorithm.
THEOREM StampWitnesses == Spec => []StampIsAWitness
<1>1. Init => RebuildsAreWhole /\ StampIsAWitness
  <2> SUFFICES ASSUME Init
               PROVE  RebuildsAreWhole /\ StampIsAWitness
    OBVIOUS
  <2>1. stamp = "none" => sha = NoRows
    BY DEF Init
  <2>2. stamp = "none" => \A p \in Path : graph[p] # Dated
    BY <2>1, PassAssumption DEF Init, NoRows
  <2>3. QED
    BY <2>2 DEF Init, RebuildsAreWhole, StampIsAWitness, Busy
<1>2. QED
  BY <1>1, StampStep, PassInit, TypeStep, PTL DEF Spec

----------------------------------------------------------------------------
(* How a step changes the record of a pass *)

\* The record of a pass that has just begun: in an older store's place it finds
\* an empty one.
Opens(qs) ==
    /\ qs.look \in Hint
    /\ qs.phase = "hash" /\ qs.todo = Candidates(qs.look)
    /\ qs.metas = NoRows /\ qs.facts = NoRows
    /\ qs.touched = {} /\ qs.overtaken = {}
    /\ \/ qs.stored = StoredIn(qs.look) /\ sha' = sha
       \/ qs.look = Whole /\ qs.stored = NoRows /\ sha' = NoRows

\* Nothing but `touched`, `overtaken` and `orphan` moves.
KeepsReading(ps, qs) ==
    /\ qs.look = ps.look /\ qs.whole = ps.whole /\ qs.phase = ps.phase
    /\ qs.todo = ps.todo /\ qs.stored = ps.stored
    /\ qs.metas = ps.metas /\ qs.facts = ps.facts
    /\ ps.touched \subseteq qs.touched /\ ps.overtaken \subseteq qs.overtaken
    /\ \A p \in Path \ qs.overtaken : sha'[p] = sha[p]

HashesOne(ps, qs, p) ==
    /\ ps.phase = "hash" /\ p \in ps.todo
    /\ qs.look = ps.look /\ qs.whole = ps.whole /\ qs.phase = "hash"
    /\ qs.todo = ps.todo \ {p} /\ qs.stored = ps.stored
    /\ qs.metas = [ps.metas EXCEPT ![p] = OnDisk(p)] /\ qs.facts = ps.facts
    /\ qs.touched = ps.touched /\ qs.overtaken = ps.overtaken /\ sha' = sha

ReadsOne(ps, qs, p) ==
    /\ ps.phase = "read" /\ p \in ps.todo
    /\ qs.look = ps.look /\ qs.whole = ps.whole /\ qs.phase = "read"
    /\ qs.todo = ps.todo \ {p} /\ qs.stored = ps.stored /\ qs.metas = ps.metas
    /\ \E text \in Content \cup {Unread} : qs.facts = [ps.facts EXCEPT ![p] = text]
    /\ qs.touched = ps.touched /\ qs.overtaken = ps.overtaken /\ sha' = sha

TurnsToReading(ps, qs) ==
    /\ ps.phase = "hash" /\ ps.todo = {}
    /\ qs.look = ps.look /\ qs.whole = ps.whole /\ qs.phase = "read"
    /\ qs.todo = Targets(ps)
    /\ qs.metas = [p \in Path |-> IF p \in Targets(ps) THEN ps.metas[p] ELSE None]
    /\ qs.stored = [p \in Path |-> IF p \in Removed(ps) THEN ps.stored[p] ELSE None]
    /\ qs.facts = ps.facts
    /\ qs.touched = ps.touched /\ qs.overtaken = ps.overtaken /\ sha' = sha

\* Every way a step can leave a pass under way.
Moves(v) ==
    \/ Opens(pass'[v])
    \/ /\ Busy(v) /\ pass[v] \in PassRecord
       /\ \/ KeepsReading(pass[v], pass'[v])
          \/ \E p \in Path : HashesOne(pass[v], pass'[v], p)
          \/ \E p \in Path : ReadsOne(pass[v], pass'[v], p)
          \/ TurnsToReading(pass[v], pass'[v])

LEMMA PassMoves ==
    ASSUME TypeOK, [Next]_passVars, NEW v \in Writer, Busy(v)'
    PROVE  pass'[v] \in PassRecord /\ Moves(v)
<1>0. pass'[v] \in PassRecord
  BY TypeStep DEF TypeOK, Busy
<1>a. ASSUME pass'[v] = pass[v], sha' = sha
      PROVE  Moves(v)
  <2>1. Busy(v) /\ pass[v] \in PassRecord
    BY <1>a, BusyIsRecord DEF Busy
  <2> QED BY <1>a, <2>1 DEF KeepsReading, Moves
<1>1. ASSUME NEW w \in Writer, NEW hint \in Hint, NEW force \in BOOLEAN,
             Begin(w, hint, force)
      PROVE  Moves(v)
  <2>1. CASE v = w
    <3> DEFINE look == Look(hint, force, FALSE)
    <3>1. pass'[v] = Opened(look, force) /\ sha' = sha
      BY <1>1, <2>1 DEF Begin, TypeOK
    <3>2. look \in Hint
      BY OpenedType
    <3> HIDE DEF look
    <3> QED BY <3>1, <3>2 DEF Opens, Opened, Moves
  <2>2. CASE v # w
    BY <1>1, <1>a, <2>2 DEF Begin, TypeOK
  <2> QED BY <2>1, <2>2
<1>2. ASSUME NEW w \in Writer, NEW hint \in Hint, NEW force \in BOOLEAN,
             BeginRebuild(w, hint, force)
      PROVE  Moves(v)
  <2>1. CASE v = w
    <3>1. pass'[v] = [Opened(Whole, TRUE) EXCEPT !.stored = NoRows] /\ sha' = NoRows
      BY <1>2, <2>1 DEF BeginRebuild, Look
    <3> QED BY <3>1 DEF Opens, Opened, Hint, Moves
  <2>2. CASE v # w
    <3>1. Busy(v) /\ pass'[v] = [pass[v] EXCEPT !.orphan = TRUE, !.overtaken = Path]
      BY <1>2, <2>2 DEF BeginRebuild, Busy
    <3>2. pass[v] \in PassRecord
      BY <3>1, BusyIsRecord
    <3> QED BY <3>1, <3>2 DEF PassRecord, KeepsReading, Moves
  <2> QED BY <2>1, <2>2
<1>3. ASSUME NEW w \in Writer, NEW p \in Path, Hash(w, p)
      PROVE  Moves(v)
  <2>1. CASE v = w
    <3>1. pass[w] \in PassRecord /\ Busy(w)
      BY <1>3, BusyIsRecord DEF Hash
    <3>2. /\ pass'[v] = [pass[w] EXCEPT !.todo = @ \ {p}, !.metas[p] = OnDisk(p)]
          /\ pass[w].phase = "hash" /\ p \in pass[w].todo /\ sha' = sha
      BY <1>3, <2>1 DEF Hash, TypeOK
    <3>3. HashesOne(pass[v], pass'[v], p)
      BY <2>1, <3>1, <3>2 DEF PassRecord, HashesOne
    <3> QED BY <2>1, <3>1, <3>3 DEF Moves
  <2>2. CASE v # w
    BY <1>3, <1>a, <2>2 DEF Hash, TypeOK
  <2> QED BY <2>1, <2>2
<1>4. ASSUME NEW w \in Writer, NEW p \in Path, Read(w, p)
      PROVE  Moves(v)
  <2>1. CASE v = w
    <3> DEFINE text == IF OnDisk(p) = None THEN Unread ELSE OnDisk(p)
    <3>1. pass[w] \in PassRecord /\ Busy(w)
      BY <1>4, BusyIsRecord DEF Read
    <3>2. /\ pass'[v] = [pass[w] EXCEPT !.todo = @ \ {p}, !.facts[p] = text]
          /\ pass[w].phase = "read" /\ p \in pass[w].todo /\ sha' = sha
      BY <1>4, <2>1 DEF Read, TypeOK
    <3>3. text \in Content \cup {Unread}
      BY DEF OnDisk, TypeOK, FileOrNone
    <3> HIDE DEF text
    <3>4. ReadsOne(pass[v], pass'[v], p)
      BY <2>1, <3>1, <3>2, <3>3 DEF PassRecord, ReadsOne
    <3> QED BY <2>1, <3>1, <3>4 DEF Moves
  <2>2. CASE v # w
    BY <1>4, <1>a, <2>2 DEF Read, TypeOK
  <2> QED BY <2>1, <2>2
<1>5. ASSUME NEW w \in Writer, EndUnchanged(w) \/ CommitOrphan(w) \/ Abort(w)
      PROVE  Moves(v)
  <2>1. v # w /\ pass'[v] = pass[v] /\ sha' = sha
    BY <1>5 DEF EndUnchanged, CommitOrphan, Abort, Busy, TypeOK
  <2> QED BY <1>a, <2>1
<1>6. ASSUME NEW w \in Writer, StartReading(w)
      PROVE  Moves(v)
  <2>1. CASE v = w
    <3> DEFINE metas == [p \in Path |-> IF p \in Targets(pass[w]) THEN pass[w].metas[p] ELSE None]
               stored == [p \in Path |-> IF p \in Removed(pass[w]) THEN pass[w].stored[p] ELSE None]
    <3>1. pass[w] \in PassRecord /\ Busy(w)
      BY <1>6, BusyIsRecord DEF StartReading, Hashed
    <3>2. /\ pass'[v] = [pass[w] EXCEPT !.phase = "read", !.todo = Targets(pass[w]),
                                        !.metas = metas, !.stored = stored]
          /\ pass[w].phase = "hash" /\ pass[w].todo = {} /\ sha' = sha
      BY <1>6, <2>1 DEF StartReading, Hashed, TypeOK
    <3>3. /\ pass'[v].look = pass[w].look /\ pass'[v].whole = pass[w].whole
          /\ pass'[v].phase = "read" /\ pass'[v].todo = Targets(pass[w])
          /\ pass'[v].metas = metas /\ pass'[v].stored = stored
          /\ pass'[v].facts = pass[w].facts /\ pass'[v].touched = pass[w].touched
          /\ pass'[v].overtaken = pass[w].overtaken
      <4> HIDE DEF metas, stored
      <4> QED BY <3>1, <3>2 DEF PassRecord
    <3>4. TurnsToReading(pass[v], pass'[v])
      BY <2>1, <3>2, <3>3 DEF TurnsToReading
    <3> QED BY <2>1, <3>1, <3>4 DEF Moves
  <2>2. CASE v # w
    BY <1>6, <1>a, <2>2 DEF StartReading, TypeOK
  <2> QED BY <2>1, <2>2
<1>7. ASSUME NEW w \in Writer, Commit(w)
      PROVE  Moves(v)
  <2>1. Busy(v) /\ pass'[v] = [pass[v] EXCEPT !.overtaken = @ \cup Stale(w)]
    BY <1>7 DEF Commit, Overtaken, Busy
  <2>2. pass[v] \in PassRecord
    BY <2>1, BusyIsRecord
  <2>3. \A p \in Path \ Stale(w) : sha'[p] = sha[p]
    BY <1>7 DEF Commit
  <2> QED BY <2>1, <2>2, <2>3 DEF PassRecord, KeepsReading, Moves
<1>8. ASSUME NEW touched \in SUBSET Path, sha' = sha,
             pass' = [w \in Writer |-> IF Busy(w) THEN [pass[w] EXCEPT !.touched = @ \cup touched]
                                                  ELSE NoPass]
      PROVE  Moves(v)
  <2>1. Busy(v) /\ pass'[v] = [pass[v] EXCEPT !.touched = @ \cup touched]
    BY <1>8 DEF Busy
  <2>2. pass[v] \in PassRecord
    BY <2>1, BusyIsRecord
  <2> QED BY <1>8, <2>1, <2>2 DEF PassRecord, KeepsReading, Moves
<1>9. ASSUME FlipMount
      PROVE  Moves(v)
  <2>1. Busy(v) /\ pass'[v] = [pass[v] EXCEPT !.touched = Path] /\ sha' = sha
    BY <1>9 DEF FlipMount, Busy
  <2>2. pass[v] \in PassRecord
    BY <2>1, BusyIsRecord
  <2> QED BY <2>1, <2>2 DEF PassRecord, KeepsReading, Moves
<1>10. ASSUME NEW p \in Path, NEW c \in FileOrNone, Edit(p, c)
       PROVE  Moves(v)
  BY <1>8, <1>10, {p} \in SUBSET Path DEF Edit
<1>11. ASSUME UNCHANGED passVars
       PROVE  Moves(v)
  BY <1>11, <1>a DEF passVars
<1>12. Moves(v)
  BY <1>1, <1>2, <1>3, <1>4, <1>5, <1>6, <1>7, <1>9, <1>10, <1>11, RequestIsHint DEF Next
<1> QED BY <1>0, <1>12

----------------------------------------------------------------------------
(* Rows and nodes *)

\* A pass has facts for exactly the targets it has read again: none while it
\* hashes, and none of a file that it is going to drop.
FactsFollowTargets ==
    \A w \in Writer : Busy(w) =>
        /\ pass[w].phase = "hash" => pass[w].facts = NoRows
        /\ pass[w].phase = "read" =>
              /\ pass[w].todo \subseteq Targets(pass[w])
              /\ \A p \in Path : pass[w].facts[p] # None <=> p \in Targets(pass[w]) \ pass[w].todo

\* Targets and removals are told by the digests and the rows in scope alone.
LEMMA TargetsKept ==
    ASSUME NEW ps, NEW qs, qs.whole = ps.whole, qs.metas = ps.metas, qs.stored = ps.stored
    PROVE  Targets(qs) = Targets(ps) /\ Removed(qs) = Removed(ps)
BY DEF Targets, Removed, Differing

\* Turning to the targets, a pass forgets what is neither rewritten nor removed,
\* and takes nothing else for a target than before.
LEMMA TargetsTurn ==
    ASSUME NEW ps \in PassRecord, NEW qs \in PassRecord, TurnsToReading(ps, qs)
    PROVE  Targets(qs) = Targets(ps) /\ Removed(qs) = Removed(ps)
<1>1. ASSUME NEW p \in Path
      PROVE  /\ p \in Targets(qs) <=> p \in Targets(ps)
             /\ p \in Removed(qs) <=> p \in Removed(ps)
  BY DEF TurnsToReading, Targets, Removed, Differing
<1> QED BY <1>1 DEF Targets, Removed, Differing

LEMMA FactsFollowStep ==
    ASSUME TypeOK, FactsFollowTargets, [Next]_passVars
    PROVE  FactsFollowTargets'
<1> SUFFICES ASSUME NEW v \in Writer, Busy(v)'
             PROVE  /\ pass'[v].phase = "hash" => pass'[v].facts = NoRows
                    /\ pass'[v].phase = "read" =>
                          /\ pass'[v].todo \subseteq Targets(pass'[v])
                          /\ \A p \in Path : pass'[v].facts[p] # None
                                                <=> p \in Targets(pass'[v]) \ pass'[v].todo
  BY DEF FactsFollowTargets, Targets, Differing
<1> DEFINE ps == pass[v]
           qs == pass'[v]
<1>1. qs \in PassRecord /\ Moves(v)
  BY PassMoves
<1>2. CASE Opens(qs)
  BY <1>2 DEF Opens
<1>3. CASE KeepsReading(ps, qs) /\ Busy(v)
  <2>1. Targets(qs) = Targets(ps)
    BY <1>3, TargetsKept DEF KeepsReading
  <2> QED BY <1>3, <2>1 DEF KeepsReading, FactsFollowTargets
<1>4. ASSUME NEW p \in Path, HashesOne(ps, qs, p), Busy(v)
      PROVE  qs.phase = "hash" /\ qs.facts = NoRows
  BY <1>4 DEF HashesOne, FactsFollowTargets
<1>5. ASSUME NEW p \in Path, ReadsOne(ps, qs, p), Busy(v), ps \in PassRecord
      PROVE  /\ qs.phase = "read"
             /\ qs.todo \subseteq Targets(qs)
             /\ \A r \in Path : qs.facts[r] # None <=> r \in Targets(qs) \ qs.todo
  <2>1. Targets(qs) = Targets(ps)
    BY <1>5, TargetsKept DEF ReadsOne
  <2>2. PICK text \in Content \cup {Unread} : qs.facts = [ps.facts EXCEPT ![p] = text]
    BY <1>5 DEF ReadsOne
  <2>3. text # None /\ ps.facts \in [Path -> FileOrNone \cup {Unread}]
    BY <1>5, PassAssumption DEF PassRecord
  <2>4. /\ ps.todo \subseteq Targets(ps)
        /\ \A r \in Path : ps.facts[r] # None <=> r \in Targets(ps) \ ps.todo
    BY <1>5 DEF ReadsOne, FactsFollowTargets
  <2> QED BY <1>5, <2>1, <2>2, <2>3, <2>4 DEF ReadsOne
<1>6. CASE TurnsToReading(ps, qs) /\ Busy(v) /\ ps \in PassRecord
  <2>1. Targets(qs) = Targets(ps) /\ qs.todo = Targets(ps) /\ qs.facts = NoRows /\ qs.phase = "read"
    BY <1>1, <1>6, TargetsTurn DEF TurnsToReading, FactsFollowTargets
  <2> QED BY <2>1 DEF NoRows
<1> QED BY <1>1, <1>2, <1>3, <1>4, <1>5, <1>6 DEF Moves

LEMMA RowsAndNodesStep ==
    ASSUME TypeOK, FactsFollowTargets, RowsAndNodesTogether, [Next]_passVars
    PROVE  RowsAndNodesTogether'
<1>1. CASE UNCHANGED <<sha, graph>>
  BY <1>1 DEF RowsAndNodesTogether
<1>2. ASSUME NEW w \in Writer, NEW hint \in Hint, NEW force \in BOOLEAN,
             BeginRebuild(w, hint, force)
      PROVE  RowsAndNodesTogether'
  BY <1>2 DEF BeginRebuild, RowsAndNodesTogether, NoRows
<1>3. ASSUME NEW w \in Writer, Commit(w)
      PROVE  RowsAndNodesTogether'
  <2>1. Busy(w) /\ pass[w].phase = "read" /\ pass[w].todo = {} /\ pass[w] \in PassRecord
    BY <1>3, BusyIsRecord DEF Commit, Parsed
  <2>2. \A p \in Path : pass[w].facts[p] # None <=> p \in Targets(pass[w])
    BY <2>1 DEF FactsFollowTargets
  <2>3. \A p \in Stale(w) : pass[w].metas[p] # None <=> p \in Targets(pass[w])
    BY DEF Stale, Targets, Removed, Differing
  <2>4. /\ sha' = [p \in Path |-> IF p \in Stale(w) THEN pass[w].metas[p] ELSE sha[p]]
        /\ graph' = [p \in Path |-> IF p \in Stale(w) THEN pass[w].facts[p] ELSE graph[p]]
    BY <1>3 DEF Commit
  <2> QED BY <2>2, <2>3, <2>4 DEF RowsAndNodesTogether
<1> QED
  BY <1>1, <1>2, <1>3, RequestIsHint
  DEF Next, Begin, Hash, Read, EndUnchanged, StartReading, CommitOrphan, Abort, Edit,
      FlipMount, passVars

\* Through passes that die anywhere, rebuilds and writers that commit late, a
\* file has nodes exactly if it has a row.
THEOREM RowsMeetNodes == Spec => []RowsAndNodesTogether
<1>1. Init => FactsFollowTargets /\ RowsAndNodesTogether
  BY PassAssumption DEF Init, FactsFollowTargets, Busy, RowsAndNodesTogether
<1>2. Init => TypeOK
  BY PassInit
<1> QED BY <1>1, <1>2, TypeStep, FactsFollowStep, RowsAndNodesStep, PTL DEF Spec

----------------------------------------------------------------------------
(* Rows that leave *)

\* A pass hashes nothing outside its hint, and compares with no row there.
ScopeIsTheHint ==
    \A w \in Writer : Busy(w) =>
        \A p \in Path \ Covered(pass[w].look) :
            /\ pass[w].stored[p] = None
            /\ pass[w].metas[p] = None
            /\ pass[w].phase = "hash" => p \notin pass[w].todo

LEMMA ScopeStep ==
    ASSUME TypeOK, ScopeIsTheHint, [Next]_passVars
    PROVE  ScopeIsTheHint'
<1> SUFFICES ASSUME NEW v \in Writer, Busy(v)',
                    NEW p \in Path, p \notin Covered(pass'[v].look)
             PROVE  /\ pass'[v].stored[p] = None
                    /\ pass'[v].metas[p] = None
                    /\ pass'[v].phase = "hash" => p \notin pass'[v].todo
  BY DEF ScopeIsTheHint, Covered
<1> DEFINE ps == pass[v]
           qs == pass'[v]
<1>1. Moves(v)
  BY PassMoves
<1>2. CASE Opens(qs)
  <2>1. p \notin Candidates(qs.look)
    BY <1>2, PassAssumption DEF Opens, Candidates, Covered, Hint
  <2> QED BY <1>2, <2>1 DEF Opens, StoredIn, NoRows
<1>3. CASE Busy(v) /\ KeepsReading(ps, qs)
  BY <1>3 DEF KeepsReading, ScopeIsTheHint
<1>4. ASSUME Busy(v), ps \in PassRecord, NEW r \in Path, HashesOne(ps, qs, r)
      PROVE  qs.stored[p] = None /\ qs.metas[p] = None /\ p \notin qs.todo
  <2>1. ps.stored[p] = None /\ ps.metas[p] = None /\ p \notin ps.todo
    BY <1>4 DEF HashesOne, ScopeIsTheHint
  <2>2. ps.metas \in [Path -> FileOrNone]
    BY <1>4 DEF PassRecord
  <2> QED BY <1>4, <2>1, <2>2 DEF HashesOne
<1>5. ASSUME Busy(v), NEW r \in Path, ReadsOne(ps, qs, r)
      PROVE  qs.stored[p] = None /\ qs.metas[p] = None /\ qs.phase = "read"
  BY <1>5 DEF ReadsOne, ScopeIsTheHint
<1>6. CASE Busy(v) /\ TurnsToReading(ps, qs)
  BY <1>6 DEF TurnsToReading, ScopeIsTheHint
<1> QED BY <1>1, <1>2, <1>3, <1>4, <1>5, <1>6 DEF Moves

LEMMA ScopeInit == Init => ScopeIsTheHint
BY DEF Init, ScopeIsTheHint, Busy

\* What a pass that commits writes to a file that did not move under it is the
\* digest of now, and what it leaves alone is outside its hint, written by
\* another writer meanwhile, or fits.
LEMMA CommitsWhatIs ==
    ASSUME TypeOK, UndisturbedIsCurrent, ScopeIsTheHint,
           NEW w \in Writer, Commit(w),
           NEW p \in Listed, p \notin pass[w].touched
    PROVE  /\ p \in Stale(w) => sha'[p] = disk[p] /\ p \in Covered(pass[w].look)
           /\ p \notin Stale(w) => sha'[p] = sha[p]
           /\ p \notin Stale(w) /\ p \in Covered(pass[w].look) \ pass[w].overtaken
                  => sha[p] = disk[p]
<1>1. /\ Busy(w) /\ pass[w].phase = "read" /\ Current(pass[w]) /\ p \in Path
      /\ sha' = [q \in Path |-> IF q \in Stale(w) THEN pass[w].metas[q] ELSE sha[q]]
  BY PassAssumption DEF Commit, Parsed, UndisturbedIsCurrent
<1>2. p \in Stale(w) => p \in Covered(pass[w].look)
  BY <1>1 DEF Stale, Targets, Removed, Differing, ScopeIsTheHint
<1> QED BY <1>1, <1>2 DEF Current, Stale

\* A row leaves only with its file, with its listing, or under the hands of
\* somebody who moved it: the digest of any other path is that of now.
THEOREM RowsLeaveOnlyForAReason == Spec => RowsLeaveForAReason
<1> DEFINE Leaves == \A p \in Path : sha[p] # None /\ sha'[p] = None =>
                        \/ stamp' = "none"
                        \/ disk[p] = None
                        \/ p \notin Listed
                        \/ \E w \in Writer : Busy(w) /\ p \in pass[w].touched
<1>1. ASSUME TypeOK, UndisturbedIsCurrent, ScopeIsTheHint, [Next]_passVars
      PROVE  Leaves
  <2>1. ASSUME NEW w \in Writer, NEW hint \in Hint, NEW force \in BOOLEAN,
               BeginRebuild(w, hint, force)
        PROVE  Leaves
    BY <2>1 DEF BeginRebuild
  <2>2. ASSUME NEW w \in Writer, Commit(w),
               NEW p \in Path, sha[p] # None, sha'[p] = None,
               p \in Listed, p \notin pass[w].touched
        PROVE  disk[p] = None
    BY <1>1, <2>2, CommitsWhatIs
  <2>3. ASSUME NEW w \in Writer, Commit(w)
        PROVE  Leaves
    BY <2>2, <2>3 DEF Commit, Parsed
  <2>4. CASE UNCHANGED sha
    BY <2>4
  <2> QED
    BY <1>1, <2>1, <2>3, <2>4, RequestIsHint
    DEF Next, Begin, Hash, Read, EndUnchanged, StartReading, CommitOrphan, Abort, Edit,
        FlipMount, passVars
<1> QED
  BY <1>1, ScopeInit, PassInit, TypeStep, CurrentStep, ScopeStep, PTL
  DEF Spec, RowsLeaveForAReason

----------------------------------------------------------------------------
(* Rows that fit, and rows that were vouched for *)

\* A row that fits is spoiled by a commit only if its file moved while the pass
\* that commits was under way, whoever wrote the row and however late it comes.
THEOREM SpoiltOnlyWhenDisturbed == Spec => OnlyTheDisturbedSpoil
<1> DEFINE Spares == \A p \in Listed : sha[p] = disk[p] /\ sha'[p] # disk'[p] =>
                        \/ disk'[p] # disk[p]
                        \/ stamp' = "none"
                        \/ \E w \in Writer :
                              Busy(w) /\ pass'[w] = NoPass /\ p \in pass[w].touched
<1>1. ASSUME TypeOK, UndisturbedIsCurrent, ScopeIsTheHint, [Next]_passVars
      PROVE  Spares
  <2>1. ASSUME NEW w \in Writer, NEW hint \in Hint, NEW force \in BOOLEAN,
               BeginRebuild(w, hint, force)
        PROVE  Spares
    BY <2>1 DEF BeginRebuild
  <2>2. ASSUME NEW w \in Writer, Commit(w)
        PROVE  Spares
    <3>1. Busy(w) /\ pass'[w] = NoPass /\ disk' = disk
      BY <2>2 DEF Commit, Parsed, Overtaken, envVars
    <3>2. ASSUME NEW p \in Listed, p \notin pass[w].touched, sha[p] = disk[p]
          PROVE  sha'[p] = disk[p]
      BY <1>1, <2>2, <3>2, CommitsWhatIs
    <3> QED BY <3>1, <3>2
  <2>3. CASE UNCHANGED sha
    BY <2>3
  <2> QED
    BY <1>1, <2>1, <2>2, <2>3, RequestIsHint
    DEF Next, Begin, Hash, Read, EndUnchanged, StartReading, CommitOrphan, Abort, Edit,
        FlipMount, passVars
<1> QED
  BY <1>1, ScopeInit, PassInit, TypeStep, CurrentStep, ScopeStep, PTL
  DEF Spec, OnlyTheDisturbedSpoil

\* One process runs the passes of the project: the daemon, and no `graphrag
\* index` beside it.
OneWriter == \A v, w \in Writer : v = w

\* Nobody else writes under a pass, and what moves under it is not vouched for.
AloneAndWatched ==
    \A w \in Writer : Busy(w) =>
        /\ pass[w].overtaken = {}
        /\ pass[w].touched \cap vouched = {}

LEMMA AloneStep ==
    ASSUME OneWriter, TypeOK, AloneAndWatched, [Next]_passVars
    PROVE  AloneAndWatched'
<1> SUFFICES ASSUME NEW v \in Writer, Busy(v)'
             PROVE  pass'[v].overtaken = {} /\ pass'[v].touched \cap vouched' = {}
  BY DEF AloneAndWatched
<1>1. ASSUME NEW w \in Writer, NEW hint \in Hint, NEW force \in BOOLEAN,
             Begin(w, hint, force) \/ BeginRebuild(w, hint, force)
      PROVE  pass'[v].overtaken = {} /\ pass'[v].touched = {}
  <2>1. v = w
    BY DEF OneWriter
  <2>2. \/ pass'[v] = Opened(Look(hint, force, FALSE), force)
        \/ pass'[v] = [Opened(Look(hint, force, TRUE), TRUE) EXCEPT !.stored = NoRows]
    BY <1>1, <2>1 DEF Begin, BeginRebuild, TypeOK
  <2> QED BY <2>2 DEF Opened
<1>2. ASSUME NEW w \in Writer, NEW p \in Path, Hash(w, p) \/ Read(w, p)
      PROVE  pass'[v].overtaken = {} /\ pass'[v].touched \cap vouched' = {}
  <2>1. v = w /\ Busy(w) /\ pass[w] \in PassRecord /\ vouched' = vouched
    BY <1>2, BusyIsRecord DEF OneWriter, Hash, Read
  <2>2. \/ pass'[v] = [pass[w] EXCEPT !.todo = @ \ {p}, !.metas[p] = OnDisk(p)]
        \/ pass'[v] = [pass[w] EXCEPT !.todo = @ \ {p},
                           !.facts[p] = IF OnDisk(p) = None THEN Unread ELSE OnDisk(p)]
    BY <1>2, <2>1 DEF Hash, Read, TypeOK
  <2>3. pass'[v].overtaken = pass[v].overtaken /\ pass'[v].touched = pass[v].touched
    BY <2>1, <2>2 DEF PassRecord
  <2> QED BY <2>1, <2>3 DEF AloneAndWatched
<1>3. ASSUME NEW w \in Writer, StartReading(w)
      PROVE  pass'[v].overtaken = {} /\ pass'[v].touched \cap vouched' = {}
  <2>1. v = w /\ Busy(w) /\ pass[w] \in PassRecord /\ vouched' = vouched
    BY <1>3, BusyIsRecord DEF OneWriter, StartReading, Hashed
  <2>2. \E metas, stored :
          pass'[w] = [pass[w] EXCEPT !.phase = "read", !.todo = Targets(pass[w]),
                                     !.metas = metas, !.stored = stored]
    BY <1>3 DEF StartReading, TypeOK
  <2>3. pass'[v].overtaken = pass[v].overtaken /\ pass'[v].touched = pass[v].touched
    BY <2>1, <2>2 DEF PassRecord
  <2> QED BY <2>1, <2>3 DEF AloneAndWatched
<1>4. ASSUME NEW w \in Writer,
             EndUnchanged(w) \/ CommitOrphan(w) \/ Abort(w) \/ Commit(w)
      PROVE  FALSE
  <2>1. v = w
    BY DEF OneWriter
  <2>2. pass'[w] = NoPass
    BY <1>4 DEF EndUnchanged, CommitOrphan, Abort, Commit, Overtaken, TypeOK
  <2> QED BY <2>1, <2>2 DEF Busy
<1>5. ASSUME NEW p \in Path, NEW c \in FileOrNone, Edit(p, c)
      PROVE  pass'[v].overtaken = {} /\ pass'[v].touched \cap vouched' = {}
  <2>1. Busy(v) /\ pass'[v] = [pass[v] EXCEPT !.touched = @ \cup {p}]
    BY <1>5 DEF Edit, Busy
  <2>2. /\ pass'[v].overtaken = pass[v].overtaken
        /\ pass'[v].touched = pass[v].touched \cup {p}
    BY <2>1, BusyIsRecord DEF PassRecord
  <2>3. vouched' = vouched \ {p}
    BY <1>5 DEF Edit
  <2> QED BY <2>1, <2>2, <2>3 DEF AloneAndWatched
<1>6. ASSUME FlipMount
      PROVE  pass'[v].overtaken = {} /\ vouched' = {}
  <2>1. Busy(v) /\ pass'[v] = [pass[v] EXCEPT !.touched = Path]
    BY <1>6 DEF FlipMount, Busy
  <2>2. pass'[v].overtaken = pass[v].overtaken
    BY <2>1, BusyIsRecord DEF PassRecord
  <2> QED BY <1>6, <2>1, <2>2 DEF AloneAndWatched, FlipMount
<1>7. CASE UNCHANGED passVars
  BY <1>7 DEF passVars, AloneAndWatched, Busy
<1> QED
  BY <1>1, <1>2, <1>3, <1>4, <1>5, <1>6, <1>7, RequestIsHint DEF Next

LEMMA VouchedStep ==
    ASSUME OneWriter, TypeOK, UndisturbedIsCurrent, ScopeIsTheHint, AloneAndWatched,
           Vouched, [Next]_passVars
    PROVE  Vouched'
<1> SUFFICES ASSUME NEW p \in vouched'
             PROVE  sha'[p] = disk'[p]
  BY DEF Vouched
<1>1. ASSUME UNCHANGED <<disk, sha>>, vouched' \subseteq vouched
      PROVE  sha'[p] = disk'[p]
  BY <1>1 DEF Vouched
<1>2. ASSUME NEW w \in Writer, NEW hint \in Hint, NEW force \in BOOLEAN,
             BeginRebuild(w, hint, force)
      PROVE  sha'[p] = disk'[p]
  BY <1>2 DEF BeginRebuild
<1>3. ASSUME NEW w \in Writer, EndUnchanged(w)
      PROVE  sha'[p] = disk'[p]
  <2>1. UNCHANGED <<disk, sha>> /\ (p \in vouched \/ p \in Checked(pass[w]))
    BY <1>3 DEF EndUnchanged
  <2>2. CASE p \in Checked(pass[w])
    <3>1. /\ Busy(w) /\ pass[w].phase = "hash" /\ pass[w].todo = {}
          /\ Current(pass[w]) /\ pass[w].overtaken = {}
      BY <1>3 DEF EndUnchanged, Hashed, UndisturbedIsCurrent, AloneAndWatched
    <3>2. p \in (Covered(pass[w].look) \cap Listed) \ pass[w].touched /\ p \in Path
      BY <2>2, PassAssumption DEF Checked
    <3>3. pass[w].stored[p] = sha[p] /\ pass[w].metas[p] = disk[p]
      BY <3>1, <3>2 DEF Current
    <3>4. pass[w].metas[p] = pass[w].stored[p]
      BY <1>3, <3>2 DEF EndUnchanged, Differing, Removed
    <3> QED BY <2>1, <3>3, <3>4
  <2> QED BY <2>1, <2>2 DEF Vouched
<1>4. ASSUME NEW w \in Writer, Commit(w)
      PROVE  sha'[p] = disk'[p]
  <2>1. Busy(w) /\ disk' = disk /\ p \in vouched \cup Checked(pass[w])
    BY <1>4 DEF Commit, Parsed, envVars
  <2>2. p \in Listed /\ p \notin pass[w].touched /\ pass[w].overtaken = {}
    BY <2>1 DEF AloneAndWatched, Checked, TypeOK
  <2>3. p \in Checked(pass[w]) => p \in Covered(pass[w].look)
    BY DEF Checked
  <2> QED BY <1>4, <2>1, <2>2, <2>3, CommitsWhatIs DEF Vouched
<1>5. ASSUME NEW q \in Path, NEW c \in FileOrNone, Edit(q, c)
      PROVE  sha'[p] = disk'[p]
  BY <1>5 DEF Edit, Vouched, TypeOK
<1> QED
  BY <1>1, <1>2, <1>3, <1>4, <1>5, RequestIsHint
  DEF Next, Begin, Hash, Read, StartReading, CommitOrphan, Abort, FlipMount, passVars

\* With one writer, a file that a pass has checked and that did not move since
\* the pass began has the row it deserves, through crashes, rebuilds, hints and
\* a volume that comes and goes.  With two it need not: QueueSerializesWrites.
THEOREM RowsAreVouched == OneWriter => (Spec => []Vouched)
<1> SUFFICES ASSUME OneWriter
             PROVE  Spec => []Vouched
  OBVIOUS
<1> DEFINE Inv == TypeOK /\ UndisturbedIsCurrent /\ ScopeIsTheHint /\ AloneAndWatched /\ Vouched
<1>1. Init => Inv
  BY PassInit, ScopeInit DEF Init, AloneAndWatched, Vouched, Busy
<1>2. Inv /\ [Next]_passVars => Inv'
  BY TypeStep, CurrentStep, ScopeStep, AloneStep, VouchedStep
<1>3. Inv => Vouched
  OBVIOUS
<1> HIDE DEF Inv
<1> QED BY <1>1, <1>2, <1>3, PTL DEF Spec

----------------------------------------------------------------------------
(* Ignored files *)

\* A whole pass has no digest of a path git does not list, and knows its row
\* unless somebody moved it: it will drop it or there is none.
IgnoredWillGo ==
    \A w \in Writer : Busy(w) /\ pass[w].look = Whole =>
        \A p \in Path \ Listed :
            /\ pass[w].metas[p] = None
            /\ pass[w].phase = "hash" => p \notin pass[w].todo
            /\ p \notin pass[w].touched \cup pass[w].overtaken =>
                  \/ pass[w].phase = "hash" /\ pass[w].stored[p] = sha[p]
                  \/ pass[w].phase = "read" /\ (sha[p] = None \/ p \in Removed(pass[w]))

LEMMA IgnoredStep ==
    ASSUME TypeOK, IgnoredWillGo, [Next]_passVars
    PROVE  IgnoredWillGo'
<1> SUFFICES ASSUME NEW v \in Writer, Busy(v)', pass'[v].look = Whole,
                    NEW p \in Path \ Listed
             PROVE  /\ pass'[v].metas[p] = None
                    /\ pass'[v].phase = "hash" => p \notin pass'[v].todo
                    /\ p \notin pass'[v].touched \cup pass'[v].overtaken =>
                          \/ pass'[v].phase = "hash" /\ pass'[v].stored[p] = sha'[p]
                          \/ /\ pass'[v].phase = "read"
                             /\ sha'[p] = None \/ p \in Removed(pass'[v])
  BY DEF IgnoredWillGo, Removed
<1> DEFINE ps == pass[v]
           qs == pass'[v]
<1>1. qs \in PassRecord /\ Moves(v)
  BY PassMoves
<1>2. CASE Opens(qs)
  <2>1. p \notin Candidates(Whole) /\ NoRows[p] = None /\ StoredIn(Whole)[p] = sha[p]
    BY DEF Candidates, NoRows, StoredIn, Covered
  <2> QED BY <1>2, <2>1 DEF Opens
<1>3. CASE KeepsReading(ps, qs) /\ Busy(v)
  <2>1. Removed(qs) = Removed(ps)
    BY <1>3, TargetsKept DEF KeepsReading
  <2> QED BY <1>3, <2>1 DEF KeepsReading, IgnoredWillGo
<1>4. ASSUME NEW r \in Path, HashesOne(ps, qs, r), Busy(v), ps \in PassRecord
      PROVE  /\ qs.metas[p] = None /\ p \notin qs.todo /\ qs.phase = "hash"
             /\ p \notin qs.touched \cup qs.overtaken => qs.stored[p] = sha'[p]
  <2>1. ps.metas \in [Path -> FileOrNone]
    BY <1>4 DEF PassRecord
  <2> QED BY <1>4, <2>1 DEF HashesOne, IgnoredWillGo
<1>5. ASSUME NEW r \in Path, ReadsOne(ps, qs, r), Busy(v)
      PROVE  /\ qs.metas[p] = None /\ qs.phase = "read"
             /\ p \notin qs.touched \cup qs.overtaken => sha'[p] = None \/ p \in Removed(qs)
  <2>1. Removed(qs) = Removed(ps)
    BY <1>5, TargetsKept DEF ReadsOne
  <2> QED BY <1>5, <2>1 DEF ReadsOne, IgnoredWillGo
<1>6. CASE TurnsToReading(ps, qs) /\ Busy(v) /\ ps \in PassRecord
  <2>1. Removed(qs) = Removed(ps)
    BY <1>1, <1>6, TargetsTurn
  <2>2. ps.metas[p] = None /\ (p \notin ps.touched \cup ps.overtaken => ps.stored[p] = sha[p])
    BY <1>6 DEF TurnsToReading, IgnoredWillGo
  <2>3. /\ qs.metas[p] = None /\ qs.phase = "read" /\ sha' = sha
        /\ qs.touched = ps.touched /\ qs.overtaken = ps.overtaken
    BY <1>6, <2>2 DEF TurnsToReading
  <2>4. p \notin ps.touched \cup ps.overtaken => sha[p] = None \/ p \in Removed(ps)
    BY <2>2 DEF Removed
  <2> QED BY <2>1, <2>3, <2>4
<1> QED BY <1>1, <1>2, <1>3, <1>4, <1>5, <1>6 DEF Moves

\* A whole pass that ends leaves no row of a path git does not list, whatever
\* hints put such rows there before.
THEOREM WholeScansClear == Spec => WholeScanClearsIgnored
<1> DEFINE Clears == \A w \in Writer :
                        Busy(w) /\ pass[w].look = Whole /\ ~pass[w].orphan
                            /\ (Commit(w) \/ EndUnchanged(w)) =>
                           \A p \in Path \ (Listed \cup pass[w].touched \cup pass[w].overtaken) :
                               sha'[p] = None
<1>1. ASSUME TypeOK, IgnoredWillGo
      PROVE  Clears
  <2> SUFFICES ASSUME NEW w \in Writer, Busy(w), pass[w].look = Whole,
                      Commit(w) \/ EndUnchanged(w),
                      NEW p \in Path \ (Listed \cup pass[w].touched \cup pass[w].overtaken)
               PROVE  sha'[p] = None
    OBVIOUS
  <2>1. /\ pass[w].metas[p] = None
        /\ \/ pass[w].phase = "hash" /\ pass[w].stored[p] = sha[p]
           \/ pass[w].phase = "read" /\ (sha[p] = None \/ p \in Removed(pass[w]))
    BY <1>1 DEF IgnoredWillGo
  <2>2. CASE Commit(w)
    <3>1. sha' = [q \in Path |-> IF q \in Stale(w) THEN pass[w].metas[q] ELSE sha[q]]
      BY <2>2 DEF Commit
    <3>2. sha[p] = None \/ p \in Removed(pass[w])
      BY <2>1, <2>2 DEF Commit, Parsed
    <3> QED BY <2>1, <3>1, <3>2 DEF Stale
  <2>3. CASE EndUnchanged(w)
    <3>1. sha' = sha /\ Removed(pass[w]) = {} /\ pass[w].phase = "hash"
      BY <2>3 DEF EndUnchanged, Hashed
    <3> QED BY <2>1, <3>1 DEF Removed
  <2> QED BY <2>2, <2>3
<1>2. Init => IgnoredWillGo
  BY DEF Init, IgnoredWillGo, Busy
<1> QED
  BY <1>1, <1>2, PassInit, TypeStep, IgnoredStep, PTL DEF Spec, WholeScanClearsIgnored
============================================================================
