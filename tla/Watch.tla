------------------------------- MODULE Watch -------------------------------
(***************************************************************************)
(* graphrag.watch: the watcher thread, the child process that holds the    *)
(* inotify watches, and the threads that enrol a project while it runs.    *)
(* The watcher hands what moved to the queue of Jobs.  `_rearm`, `_intent` *)
(* and `_stamp` are shared between these threads with no lock around them. *)
(* `_armed` is left out: nothing but the tests of the code reads it.       *)
(***************************************************************************)
EXTENDS Jobs

CONSTANTS
    Nobody,    \* no project is being enrolled
    Volatile   \* the roots on a volume that may come and go

ASSUME WatchAssumption ==
    /\ Nobody \notin Root
    /\ Volatile \subseteq Root

VARIABLES
    rows,     \* the registry: the projects with an enabled row
    present,  \* the roots that are directories now
    moved,    \* has the registry file moved since `_stamp` was taken?
    intent,   \* _intent
    rearm,    \* _rearm
    wpc,      \* where the loop is, or "dead": an exception left it
    live,     \* the roots whose inotify watches are in place in the child
    pending,  \* the events the child holds: <<root, path>>
    batch,    \* the batch in the loop's hands
    enrol     \* tools.enroll: [at, root]

watchVars == <<rows, present, moved, intent, rearm, wpc, live, pending, batch, enrol>>
loopVars == <<intent, rearm, wpc, live, pending, batch>>
registryVars == <<rows, present, moved>>
allVars == <<jobsVars, watchVars>>

Event == Root \X Path

WatchTypeOK ==
    /\ rows \subseteq Root /\ present \subseteq Root
    /\ moved \in BOOLEAN /\ rearm \in BOOLEAN
    /\ intent \subseteq Root /\ live \subseteq Root
    /\ wpc \in {"top", "clear", "arm", "watch", "got", "compare", "submit", "dead"}
    /\ pending \subseteq Event /\ batch \subseteq Event
    /\ enrol \in [at : {"idle", "submit", "stat", "compare"}, root : Root \cup {Nobody}]

WatchInit ==
    /\ rows \in SUBSET Root
    /\ present \in {ps \in SUBSET Root : Root \ Volatile \subseteq ps}
    /\ moved = TRUE
    /\ intent = {} /\ rearm = FALSE /\ wpc = "top"
    /\ live = {} /\ pending = {} /\ batch = {}
    /\ enrol = [at |-> "idle", root |-> Nobody]

\* _roots: the enabled rows whose directory is there.
Roots == rows \cap present

----------------------------------------------------------------------------
(* The loop *)

\* The top of the loop.  With nothing to watch it waits a second and is back.
Top ==
    /\ wpc = "top"
    /\ intent' = Roots
    /\ wpc' = IF Roots = {} THEN "top" ELSE "clear"
    /\ UNCHANGED <<jobsVars, registryVars, rearm, live, pending, batch, enrol>>

\* `_rearm` is cleared after `_intent` was computed, and the child is started.
ClearRearm ==
    /\ wpc = "clear"
    /\ rearm' = FALSE
    /\ wpc' = "arm"
    /\ UNCHANGED <<jobsVars, registryVars, intent, live, pending, batch, enrol>>

\* The child walks one more root and has its watches in place.
ArmRoot(r) ==
    /\ wpc = "arm"
    /\ r \in (intent \ live) \cap present
    /\ live' = live \cup {r}
    /\ UNCHANGED <<jobsVars, registryVars, intent, rearm, wpc, pending, batch, enrol>>

Armed ==
    /\ wpc = "arm" /\ live = intent
    /\ wpc' = "watch"
    /\ UNCHANGED <<jobsVars, registryVars, intent, rearm, live, pending, batch, enrol>>

\* The child writes a batch: what moved, or nothing when its poll timed out.
Receive ==
    /\ wpc = "watch"
    /\ batch' = pending /\ pending' = {}
    /\ wpc' = "got"
    /\ UNCHANGED <<jobsVars, registryVars, intent, rearm, live, enrol>>

\* The batch in hand when a re-arm was asked for is dropped with the child, and
\* with whatever the child still held.
Break ==
    /\ wpc = "got" /\ rearm
    /\ live' = {} /\ pending' = {} /\ batch' = {}
    /\ wpc' = "top"
    /\ UNCHANGED <<jobsVars, registryVars, intent, rearm, enrol>>

\* No re-arm is due: rearm_if_changed stats the registry file.
TickStat ==
    /\ wpc = "got" /\ ~rearm
    /\ moved' = FALSE
    /\ wpc' = IF moved THEN "compare" ELSE "submit"
    /\ UNCHANGED <<jobsVars, rows, present, intent, rearm, live, pending, batch, enrol>>

\* ... and parses it where it moved.
TickCompare ==
    /\ wpc = "compare"
    /\ rearm' = (rearm \/ Roots # intent)
    /\ wpc' = "submit"
    /\ UNCHANGED <<jobsVars, registryVars, intent, live, pending, batch, enrol>>

PathsOf(events, r) == {p \in Path : <<r, p>> \in events}

\* _submit: one job for each project the batch touched, its paths as the hint.
SubmitBatch(r) ==
    /\ wpc = "submit"
    /\ PathsOf(batch, r) # {}
    /\ Submit(r, PathsOf(batch, r))
    /\ batch' = batch \ ({r} \X Path)
    /\ UNCHANGED <<registryVars, intent, rearm, wpc, live, pending, enrol>>

BatchDone ==
    /\ wpc = "submit" /\ batch = {}
    /\ wpc' = "watch"
    /\ UNCHANGED <<jobsVars, registryVars, intent, rearm, live, pending, batch, enrol>>

\* OSError: a second's wait, and the top again.  What the child held and the
\* batch in the loop's hands go with the pass.
OnOSError ==
    /\ live' = {} /\ pending' = {} /\ batch' = {}
    /\ intent' = {}
    /\ wpc' = "top"
    /\ UNCHANGED <<jobsVars, registryVars, rearm, enrol>>

\* A root was deleted between `_roots()` and the arm.
ChildRefuses == wpc = "arm" /\ ~(intent \subseteq present) /\ OnOSError

\* The child ran out of watch descriptors, or died.
ChildFails == wpc \in {"arm", "watch"} /\ OnOSError

\* The body of the loop raises before it submits: the tests of a deletion, the
\* registry and the quarantine of run_due, the rows of rearm_if_changed.
BodyFails == wpc \in {"got", "compare"} /\ OnOSError

\* The rows cannot be read.  At the top and in _register_paths nothing catches
\* that; in the body what registry.load makes of it, a RuntimeError, passes
\* `except OSError`.  The exception ends the thread and the child with it, and
\* only the start of the daemon makes another.
LoopDies ==
    /\ wpc \in {"top", "clear", "got", "compare"}
    /\ ~writable
    /\ live' = {} /\ pending' = {} /\ batch' = {}
    /\ wpc' = "dead"
    /\ UNCHANGED <<jobsVars, registryVars, intent, rearm, enrol>>

----------------------------------------------------------------------------
(* tools.enroll, on a thread of its own *)

\* federation.register: the row is written under the registry's lock.
EnrolRegister(r) ==
    /\ enrol.at = "idle" /\ r \in present /\ writable
    /\ rows' = rows \cup {r}
    /\ moved' = TRUE
    /\ enrol' = [at |-> "submit", root |-> r]
    /\ UNCHANGED <<jobsVars, present, loopVars>>

EnrolSubmit ==
    /\ enrol.at = "submit"
    /\ Submit(enrol.root, Whole)
    /\ enrol' = [enrol EXCEPT !.at = "stat"]
    /\ UNCHANGED <<registryVars, loopVars>>

\* rearm_if_changed, as in TickStat and TickCompare.
EnrolStat ==
    /\ enrol.at = "stat"
    /\ moved' = FALSE
    /\ enrol' = IF moved THEN [enrol EXCEPT !.at = "compare"]
                         ELSE [at |-> "idle", root |-> Nobody]
    /\ UNCHANGED <<jobsVars, rows, present, loopVars>>

EnrolCompare ==
    /\ enrol.at = "compare"
    /\ rearm' = (rearm \/ Roots # intent)
    /\ enrol' = [at |-> "idle", root |-> Nobody]
    /\ UNCHANGED <<jobsVars, registryVars, intent, wpc, live, pending, batch>>

\* The rows cannot be read after the stamp was taken: the call raises into its
\* caller, and nobody has asked for a re-arm.
EnrolRaises ==
    /\ enrol.at = "compare" /\ ~writable
    /\ enrol' = [at |-> "idle", root |-> Nobody]
    /\ UNCHANGED <<jobsVars, registryVars, loopVars>>

----------------------------------------------------------------------------
(* The worker, and the world *)

WorkerTakes == Take /\ UNCHANGED watchVars

\* Every pass that ends, well or not, writes the registry through mark_indexed.
RegistryMoves ==
    /\ moved' = TRUE
    /\ UNCHANGED <<rows, present, loopVars, enrol>>

WorkerFails == PassRaises /\ UNCHANGED watchVars

\* inotify reports what moves under a root whose watches are in place.
Reported(r, p) ==
    pending' = IF r \in live THEN pending \cup {<<r, p>>} ELSE pending

FileMoves(r, p) ==
    /\ r \in present
    /\ Reported(r, p)
    /\ UNCHANGED <<jobsVars, registryVars, intent, rearm, wpc, live, batch, enrol>>

\* A directory that leaves takes its watches along, and a new one has none.
DirFlips(r) ==
    /\ r \in Volatile
    /\ present' = IF r \in present THEN present \ {r} ELSE present \cup {r}
    /\ live' = live \ {r}
    /\ UNCHANGED <<jobsVars, rows, moved, intent, rearm, wpc, pending, batch, enrol>>

LoopNext ==
    \/ Top \/ ClearRearm \/ Armed \/ Receive
    \/ TickStat \/ TickCompare \/ BatchDone
    \/ \E r \in Root : ArmRoot(r) \/ SubmitBatch(r)

EnrolNext == EnrolSubmit \/ EnrolStat \/ EnrolCompare \/ EnrolRaises

\* The watcher beside a registry that can be read and written: Daemon has the
\* steps of one that cannot.
WatchNext ==
    \/ LoopNext \/ Break \/ ChildRefuses \/ ChildFails \/ BodyFails
    \/ EnrolNext
    \/ WorkerTakes \/ WorkerFails
    \/ (PassSucceeds \/ HandlerRecords) /\ RegistryMoves
    \/ \E r \in Root : EnrolRegister(r) \/ DirFlips(r)
    \/ \E r \in Root, p \in Path : FileMoves(r, p)

WatchSpec == Init /\ WatchInit /\ [][WatchNext]_allVars

----------------------------------------------------------------------------
\* watch.py: "Re-arm when the watched set actually differs", and tools.py, of
\* the call in enroll: "Without this the new rows are watched only after a
\* restart".  With nothing left to run, the loop watches what is enrolled.
WatchSetCurrent ==
    wpc = "watch" /\ ~moved /\ ~rearm /\ enrol.at = "idle" /\ job = Idle /\ waiting = <<>>
        => intent = Roots
=============================================================================
