-------------------------------- MODULE Pass --------------------------------
(***************************************************************************)
(* graphrag.index.index_once: one pass over one project.  It lists and     *)
(* hashes the files, diffs the hashes against the stored rows, reads and   *)
(* parses what differs, and writes it in one transaction.  The files move  *)
(* underneath it, its process may die at any step, and a second process    *)
(* (`graphrag index` beside the daemon) may run a pass of the same project.*)
(***************************************************************************)
EXTENDS Hints

CONSTANTS
    Writer,    \* the processes that run passes
    Worker,    \* the daemon's: it takes hints and never forces, a command the reverse
    Content,   \* what a file may hold; its digest and its facts stand for it
    Listed,    \* the paths git lists: not those .gitignore names
    None,      \* no such file, or no such row
    Unread,    \* the facts of a file that was gone when it was read again
    Dated,     \* facts that an older extraction algorithm wrote
    NoPass

ASSUME PassAssumption ==
    /\ Listed \subseteq Path
    /\ None \notin Content \cup {Unread, Dated}
    /\ Unread \notin Content \cup {Dated}
    /\ Dated \notin Content

VARIABLES
    disk,     \* disk[p]: the content of the file p, or None
    mounted,  \* is the root a directory now?
    stamp,    \* the store's algorithm stamp: "none", "old" or "current"
    sha,      \* sha[p]: the digest in the row of p in `files`, or None
    graph,    \* graph[p]: the content the nodes of p were extracted from
    pass,     \* pass[w]: where the pass of w is, or NoPass
    vouched,  \* history: paths a pass has checked and nothing moved since
    seen      \* history: paths a pass over this very store has covered

storeVars == <<stamp, sha, graph>>
envVars == <<disk, mounted>>
passVars == <<disk, mounted, stamp, sha, graph, pass, vouched, seen>>

FileOrNone == Content \cup {None}
NoRows == [p \in Path |-> None]

PassRecord ==
    [look : Hint,                        \* paths, after `force` and `rebuilt`
     whole : BOOLEAN,                    \* force or rebuilt: rewrite every file
     orphan : BOOLEAN,                   \* the store it opened was unlinked
     phase : {"hash", "read"},
     todo : SUBSET Path,                 \* files this phase has still to open
     stored : [Path -> FileOrNone],      \* the rows in scope, read at the start
     metas : [Path -> FileOrNone],       \* the digests taken
     facts : [Path -> FileOrNone \cup {Unread}],
     touched : SUBSET Path,              \* history: moved since the pass began
     overtaken : SUBSET Path]            \* history: written by others since then

TypeOK ==
    /\ disk \in [Path -> FileOrNone]
    /\ mounted \in BOOLEAN
    /\ stamp \in {"none", "old", "current"}
    /\ sha \in [Path -> FileOrNone]
    /\ graph \in [Path -> FileOrNone \cup {Unread, Dated}]
    /\ pass \in [Writer -> {NoPass} \cup PassRecord]
    /\ vouched \subseteq Listed
    /\ seen \subseteq Path

\* No store yet, or one that an older version left over some state of the tree.
Init ==
    /\ disk \in [Path -> FileOrNone]
    /\ mounted = TRUE
    /\ \/ stamp = "none" /\ sha = NoRows
       \/ stamp = "old" /\ sha \in [Path -> FileOrNone]
    /\ graph = [p \in Path |-> IF sha[p] = None THEN None ELSE Dated]
    /\ pass = [w \in Writer |-> NoPass]
    /\ vouched = {}
    /\ seen = {}

----------------------------------------------------------------------------
Busy(w) == pass[w] # NoPass

\* What opening the root and the path gives: nothing is there without a root.
OnDisk(p) == IF mounted THEN disk[p] ELSE None

\* enumerate_files lists what git lists; enumerate_paths takes the hint's names
\* as they come, so a path git ignores is looked at when a hint names it.
Candidates(look) ==
    IF look = Whole THEN {p \in Listed : disk[p] # None} ELSE look

\* A slip: the stored rows are not narrowed to the hint.
StoredUnnarrowed(look) == sha

\* The stored rows a pass diffs against.
StoredIn(look) == [p \in Path |-> IF p \in Covered(look) THEN sha[p] ELSE None]

\* A slip: a row that exists is taken for current.
DifferingAdded(ps) == {p \in Path : ps.metas[p] # None /\ ps.stored[p] = None}

\* discover.diff, over whatever this pass hashed and whatever it read as stored.
Differing(ps) == {p \in Path : ps.metas[p] \notin {None, ps.stored[p]}}

\* A slip: a file that is gone is no change.
RemovedNever(ps) == {}

Removed(ps) == {p \in Path : ps.stored[p] # None /\ ps.metas[p] = None}

\* The files a pass reads and rewrites.
Targets(ps) ==
    IF ps.whole THEN {p \in Path : ps.metas[p] # None} ELSE Differing(ps)

\* The paths a pass that ends now has checked and nobody moved meanwhile.  One
\* whose store was unlinked under it has checked nothing a reader will see.
Checked(ps) ==
    IF ps.orphan THEN {} ELSE (Covered(ps.look) \cap Listed) \ ps.touched

\* `force` and a rebuild both drop the hint.
Look(hint, force, rebuilt) == IF force \/ rebuilt THEN Whole ELSE hint

Opened(look, whole) ==
    [look |-> look, whole |-> whole, orphan |-> FALSE, phase |-> "hash",
     todo |-> Candidates(look), stored |-> StoredIn(look), metas |-> NoRows,
     facts |-> NoRows, touched |-> {}, overtaken |-> {}]

\* The pass opens a store its own version wrote, and lists what it will look at.
\* With no root it returns at once, and nothing at all changes.
Begin(w, hint, force) ==
    /\ ~Busy(w)
    /\ mounted
    /\ stamp = "current"
    /\ pass' = [pass EXCEPT ![w] = Opened(Look(hint, force, FALSE), force)]
    /\ UNCHANGED <<disk, mounted, stamp, sha, graph, vouched, seen>>

\* A slip: the incompatible store is stamped and kept.
RebuildInPlace(w, hint, force) ==
    /\ ~Busy(w)
    /\ mounted
    /\ stamp # "current"
    /\ stamp' = "current"
    /\ pass' = [pass EXCEPT ![w] = Opened(Look(hint, force, TRUE), TRUE)]
    /\ UNCHANGED <<disk, mounted, sha, graph, vouched, seen>>

\* The store is unstamped or older: it is unlinked and created again, and the
\* pass runs over the whole tree.  A pass another process has under way keeps
\* the file it opened, which no reader will ever see again.
BeginRebuild(w, hint, force) ==
    /\ ~Busy(w)
    /\ mounted
    /\ stamp # "current"
    /\ stamp' = "none" /\ sha' = NoRows /\ graph' = NoRows
    /\ LET look == Look(hint, force, TRUE)
           mine == [Opened(look, TRUE) EXCEPT !.stored = NoRows]
       IN  pass' = [v \in Writer |->
                      IF v = w THEN mine
                      ELSE IF Busy(v) THEN [pass[v] EXCEPT !.orphan = TRUE, !.overtaken = Path]
                      ELSE NoPass]
    /\ vouched' = {}
    /\ seen' = {}
    /\ UNCHANGED envVars

\* A slip: a file that has a row already is not hashed again.
HashOnce(w, p) ==
    /\ Busy(w) /\ pass[w].phase = "hash" /\ p \in pass[w].todo
    /\ pass' = [pass EXCEPT
          ![w].todo = @ \ {p},
          ![w].metas[p] = IF OnDisk(p) # None /\ pass[w].stored[p] # None
                          THEN pass[w].stored[p] ELSE OnDisk(p)]
    /\ UNCHANGED <<disk, mounted, stamp, sha, graph, vouched, seen>>

\* _meta: stat, filter and hash one file.  A file that is gone has no meta.
Hash(w, p) ==
    /\ Busy(w) /\ pass[w].phase = "hash" /\ p \in pass[w].todo
    /\ pass' = [pass EXCEPT ![w].todo = @ \ {p}, ![w].metas[p] = OnDisk(p)]
    /\ UNCHANGED <<disk, mounted, stamp, sha, graph, vouched, seen>>

Hashed(w) == Busy(w) /\ pass[w].phase = "hash" /\ pass[w].todo = {}

\* Nothing differs: the pass ends without opening a transaction.
EndUnchanged(w) ==
    /\ Hashed(w)
    /\ ~pass[w].whole
    /\ Differing(pass[w]) = {} /\ Removed(pass[w]) = {}
    /\ vouched' = vouched \cup Checked(pass[w])
    /\ seen' = IF pass[w].orphan THEN seen ELSE seen \cup Covered(pass[w].look)
    /\ pass' = [pass EXCEPT ![w] = NoPass]
    /\ UNCHANGED <<disk, mounted, stamp, sha, graph>>

\* Something differs.  From here on only the targets and the removed matter.
StartReading(w) ==
    /\ Hashed(w)
    /\ pass[w].whole \/ Differing(pass[w]) # {} \/ Removed(pass[w]) # {}
    /\ LET targets == Targets(pass[w])
           removed == Removed(pass[w])
       IN  pass' = [pass EXCEPT
             ![w].phase = "read",
             ![w].todo = targets,
             ![w].metas = [p \in Path |-> IF p \in targets THEN @[p] ELSE None],
             ![w].stored = [p \in Path |-> IF p \in removed THEN @[p] ELSE None]]
    /\ UNCHANGED <<disk, mounted, stamp, sha, graph, vouched, seen>>

\* _facts: the file is opened a second time, and its text is what is parsed.
\* One that cannot be read any more has facts that say so.
Read(w, p) ==
    /\ Busy(w) /\ pass[w].phase = "read" /\ p \in pass[w].todo
    /\ pass' = [pass EXCEPT ![w].todo = @ \ {p},
                            ![w].facts[p] = IF OnDisk(p) = None THEN Unread
                                                                ELSE OnDisk(p)]
    /\ UNCHANGED <<disk, mounted, stamp, sha, graph, vouched, seen>>

Parsed(w) == Busy(w) /\ pass[w].phase = "read" /\ pass[w].todo = {}

\* What the commit of w rewrites or drops.
Stale(w) == Targets(pass[w]) \cup Removed(pass[w])

\* The other passes' reading of these rows is no longer what the store holds.
\* They are not told, and will commit what they hashed all the same.
Overtaken(w) ==
    [v \in Writer |->
        IF v = w THEN NoPass
        ELSE IF Busy(v) THEN [pass[v] EXCEPT !.overtaken = @ \cup Stale(w)]
        ELSE NoPass]

\* A slip: the row takes the digest of what was parsed, not of what was diffed.
CommitParsedDigest(w) ==
    /\ Parsed(w)
    /\ ~pass[w].orphan
    /\ sha' = [p \in Path |-> IF p \in Stale(w) THEN pass[w].facts[p] ELSE sha[p]]
    /\ graph' = [p \in Path |-> IF p \in Stale(w) THEN pass[w].facts[p] ELSE graph[p]]
    /\ stamp' = "current"
    /\ pass' = Overtaken(w)
    /\ vouched' = vouched \cup Checked(pass[w])
    /\ seen' = seen \cup Covered(pass[w].look)
    /\ UNCHANGED envVars

\* A slip: the row is written and the nodes of the old content stay.
CommitRowsOnly(w) ==
    /\ Parsed(w)
    /\ ~pass[w].orphan
    /\ sha' = [p \in Path |-> IF p \in Stale(w) THEN pass[w].metas[p] ELSE sha[p]]
    /\ stamp' = "current"
    /\ pass' = Overtaken(w)
    /\ vouched' = vouched \cup Checked(pass[w])
    /\ seen' = seen \cup Covered(pass[w].look)
    /\ UNCHANGED <<disk, mounted, graph>>

\* The one transaction: forget every stale file, write the targets, stamp.  A
\* file in Removed has no meta and no facts, so its row and its nodes are gone.
\* Nothing compares the rows again: a row another writer put there since this
\* pass read it is overwritten, with an older digest if the file has moved.
Commit(w) ==
    /\ Parsed(w)
    /\ ~pass[w].orphan
    /\ sha' = [p \in Path |-> IF p \in Stale(w) THEN pass[w].metas[p] ELSE sha[p]]
    /\ graph' = [p \in Path |-> IF p \in Stale(w) THEN pass[w].facts[p] ELSE graph[p]]
    /\ stamp' = "current"
    /\ pass' = Overtaken(w)
    /\ vouched' = vouched \cup Checked(pass[w])
    /\ seen' = seen \cup Covered(pass[w].look)
    /\ UNCHANGED envVars

\* The transaction succeeds in a file that has been unlinked.
CommitOrphan(w) ==
    /\ Parsed(w)
    /\ pass[w].orphan
    /\ pass' = [pass EXCEPT ![w] = NoPass]
    /\ UNCHANGED <<disk, mounted, stamp, sha, graph, vouched, seen>>

\* The pass raises, or its process is killed: the transaction never commits.
Abort(w) ==
    /\ Busy(w)
    /\ pass' = [pass EXCEPT ![w] = NoPass]
    /\ UNCHANGED <<disk, mounted, stamp, sha, graph, vouched, seen>>

\* Somebody writes, reverts, creates or deletes a file.
Edit(p, c) ==
    /\ mounted
    /\ c # disk[p]
    /\ disk' = [disk EXCEPT ![p] = c]
    /\ vouched' = vouched \ {p}
    /\ pass' = [w \in Writer |->
                  IF Busy(w) THEN [pass[w] EXCEPT !.touched = @ \cup {p}] ELSE NoPass]
    /\ UNCHANGED <<mounted, stamp, sha, graph, seen>>

\* The volume goes away, or comes back as it was.  A pass under way may take
\* every file for removed, so none of them is vouched for any more; with no pass
\* under way the rows stay as good as they were.
FlipMount ==
    /\ mounted' = ~mounted
    /\ vouched' = IF \E w \in Writer : Busy(w) THEN {} ELSE vouched
    /\ pass' = [w \in Writer |->
                  IF Busy(w) THEN [pass[w] EXCEPT !.touched = Path] ELSE NoPass]
    /\ UNCHANGED <<disk, stamp, sha, graph, seen>>

Next ==
    \/ \E w \in Writer, hint \in Request, force \in BOOLEAN :
           /\ w = Worker => ~force
           /\ w # Worker => hint = Whole
           /\ Begin(w, hint, force) \/ BeginRebuild(w, hint, force)
    \/ \E w \in Writer, p \in Path : Hash(w, p) \/ Read(w, p)
    \/ \E w \in Writer : EndUnchanged(w) \/ StartReading(w)
    \/ \E w \in Writer : Commit(w) \/ CommitOrphan(w) \/ Abort(w)
    \/ \E p \in Path, c \in FileOrNone : Edit(p, c)
    \/ FlipMount

Spec == Init /\ [][Next]_passVars

----------------------------------------------------------------------------
(* Invariants *)

\* A path that a pass has checked, and that did not move since the pass began,
\* has the row its file deserves, through crashes, rebuilds and hints that do
\* not name it.  It holds while the passes of a project come from one process:
\* QueueSerializesWrites below says what a second one does to it.
Vouched == \A p \in vouched : sha[p] = disk[p]

Current(ps) ==
    \A p \in (Covered(ps.look) \cap Listed) \ ps.touched :
        LET ours == p \in Targets(ps) \cup Removed(ps)
        IN  /\ mounted
            /\ ps.phase = "hash" => p \in ps.todo \/ ps.metas[p] = disk[p]
            /\ ps.phase = "read" /\ ours => ps.metas[p] = disk[p]
            /\ p \notin ps.overtaken =>
                  /\ ps.phase = "hash" => ps.stored[p] = sha[p]
                  /\ ps.phase = "read" /\ ~ours => sha[p] = disk[p]

\* What a pass under way knows of a file that did not move since it began: the
\* digest it took is that of now, whatever another writer commits meanwhile.
\* The row it read is that of now only if no other writer wrote it since; then
\* it will either write the digest or leave a row that needs no writing.
UndisturbedIsCurrent == \A w \in Writer : Busy(w) => Current(pass[w])

\* index.py: "`store.stamp` is the witness that the graph matches the
\* algorithm".  A store that carries the stamp was scanned whole since it was
\* created, and holds nothing an older algorithm wrote, wherever a rebuild died.
StampIsAWitness ==
    stamp = "current" => Listed \subseteq seen /\ \A p \in Path : graph[p] # Dated

\* Nodes and rows come and go together: no node outlives its file's row, and no
\* row is without the facts of some reading of its file.
RowsAndNodesTogether == \A p \in Path : sha[p] = None <=> graph[p] = None

(* Action properties *)

\* A row leaves a store only when its file is gone, git does not list it, or
\* the pass was disturbed: never because a hint did not name it, and never
\* because the whole root was away before the pass began.
RowsLeaveForAReason ==
    [][\A p \in Path : sha[p] # None /\ sha'[p] = None =>
          \/ stamp' = "none"
          \/ disk[p] = None
          \/ p \notin Listed
          \/ \E w \in Writer : Busy(w) /\ p \in pass[w].touched
      ]_passVars

\* A row that fits its file stops fitting it only when the file moves, when the
\* store is made anew, or when a pass commits under which the file moved.  So a
\* late commit undoes a newer row of another writer only for a file that moved
\* while the late pass was under way, never for one that did not.
OnlyTheDisturbedSpoil ==
    [][\A p \in Listed : sha[p] = disk[p] /\ sha'[p] # disk'[p] =>
          \/ disk'[p] # disk[p]
          \/ stamp' = "none"
          \/ \E w \in Writer : Busy(w) /\ pass'[w] = NoPass /\ p \in pass[w].touched
      ]_passVars

\* A hinted pass takes a git-ignored path it is told of, and a whole pass does
\* not list it: a whole pass that ends leaves no row of such a path, but for
\* one that moved, or that another writer wrote, meanwhile.
WholeScanClearsIgnored ==
    [][\A w \in Writer :
          Busy(w) /\ pass[w].look = Whole /\ ~pass[w].orphan /\ (Commit(w) \/ EndUnchanged(w)) =>
              \A p \in Path \ (Listed \cup pass[w].touched \cup pass[w].overtaken) :
                  sha'[p] = None
      ]_passVars

(* What the code's own words say and the code does not do *)

\* discover.py, of the content-hash diff: "The question is "does the graph match
\* the disk", never "how did they diverge".  That is correct after a crash,
\* after a missed watcher event, and after a week of downtime".  A path a pass
\* has just compared and found equal then has the graph of its content.
ScanHealsTheGraph == \A p \in vouched : graph[p] = disk[p]

\* jobs.py: "The queue is the write serializer. There is no second write lock",
\* and of the worker "One thread, so one writer".  If every write went through
\* it, a row that one pass has checked would stay as it is until the file moves.
\* `graphrag index` runs index_once in a process of its own.
QueueSerializesWrites == Vouched
=============================================================================
