------------------------------- MODULE Daemon -------------------------------
(***************************************************************************)
(* The daemon as one system: the files move, the watcher hears of it, the  *)
(* queue carries it, the worker's pass looks at it, and the daemon may be  *)
(* killed and started again anywhere in between.  A file is only fresh or  *)
(* stale here (does its row match?): Pass has the steps of one pass.       *)
(***************************************************************************)
EXTENDS Watch

CONSTANTS
    MaxMoves,   \* how often the files move
    MaxFaults   \* how often the child, the loop, a pass or the registry fails,
                \* a volume comes or goes, or the daemon dies

ASSUME DaemonAssumption == MaxMoves \in Nat /\ MaxFaults \in Nat

VARIABLES
    boot,    \* the rows lifespan has still to submit
    scan,    \* the running pass: "idle", "skip" (no root) or "look"
    todo,    \* the paths it has still to hash
    good,    \* the paths it hashed that have not moved since
    stale,   \* <<root, path>>: the row does not match the file
    missed,  \* history: lost on the way, so only an unhinted pass can notice
    moves,   \* counts the moves of files
    faults   \* counts the faults

daemonVars == <<boot, scan, todo, good, stale, missed, moves, faults>>
sysVars == <<allVars, daemonVars>>

DaemonTypeOK ==
    /\ TypeOK /\ WatchTypeOK
    /\ boot \subseteq Root
    /\ scan \in {"idle", "skip", "look"}
    /\ todo \subseteq Path /\ good \subseteq Path
    /\ stale \subseteq Event /\ missed \subseteq Event
    /\ moves \in 0..MaxMoves /\ faults \in 0..MaxFaults

\* Just started, on graphs that are as old as may be.
DaemonInit ==
    /\ Init /\ WatchInit
    /\ boot = rows
    /\ scan = "idle" /\ todo = {} /\ good = {}
    /\ stale = rows \X Path
    /\ missed = {}
    /\ moves = 0 /\ faults = 0

----------------------------------------------------------------------------
(* The start, and the pass *)

Of(r, paths) == {r} \X paths

\* A slip: the startup pass is left to the first event.
BootNothing(r) ==
    /\ r \in boot
    /\ boot' = boot \ {r}
    /\ UNCHANGED <<allVars, scan, todo, good, stale, missed, moves, faults>>

\* lifespan: one unhinted pass for every enabled row.
Boot(r) ==
    /\ r \in boot
    /\ boot' = boot \ {r}
    /\ Submit(r, Whole)
    /\ UNCHANGED <<watchVars, scan, todo, good, stale, missed, moves, faults>>

\* The worker takes a job and its pass begins.
BeginPass ==
    /\ WorkerTakes
    /\ job'.root \in present
    /\ scan' = "look"
    /\ todo' = Covered(job'.paths)
    /\ UNCHANGED <<boot, good, stale, missed, moves, faults>>

\* The root is not a directory: the pass returns at once, and its hint is gone.
SkipPass ==
    /\ WorkerTakes
    /\ job'.root \notin present
    /\ scan' = "skip"
    /\ missed' = missed \cup (stale \cap Of(job'.root, Covered(job'.paths)))
    /\ UNCHANGED <<boot, todo, good, stale, moves, faults>>

\* The pass hashes one file: what moves later is not in what it commits.  With
\* the root gone meanwhile the file reads as removed.
Look(p) ==
    /\ worker = "up" /\ p \in todo
    /\ todo' = todo \ {p}
    /\ IF job.root \in present
       THEN good' = good \cup {p} /\ UNCHANGED missed
       ELSE missed' = missed \cup Of(job.root, {p}) /\ UNCHANGED good
    /\ UNCHANGED <<allVars, boot, scan, stale, moves, faults>>

\* The commit: what it hashed and did not move since is fresh, the rest of what
\* it covered is not.
Commits ==
    /\ todo = {}
    /\ LET covered == IF scan = "look" THEN Covered(job.paths) ELSE {}
       IN  stale' = (stale \ Of(job.root, good)) \cup Of(job.root, covered \ good)
    /\ missed' = missed \ Of(job.root, good)
    /\ scan' = "idle" /\ good' = {}
    /\ UNCHANGED <<boot, todo, moves, faults>>

\* The commit, the row in the registry, and the end of the job.
EndPass == PassSucceeds /\ RegistryMoves /\ Commits

\* The pass has committed, and the registry cannot take what it found: record
\* raises, and the handler is told of a pass that failed.
RecordRaises == PassRaises /\ ~writable /\ UNCHANGED watchVars /\ Commits

\* The pass raises.  Its hint is not queued again.
FailPass ==
    /\ WorkerFails
    /\ faults < MaxFaults
    /\ faults' = faults + 1
    /\ missed' = missed \cup (stale \cap Of(job.root, todo \cup good))
    /\ scan' = "idle" /\ todo' = {} /\ good' = {}
    /\ UNCHANGED <<boot, stale, moves>>

RecordFailure ==
    /\ HandlerRecords /\ RegistryMoves
    /\ UNCHANGED daemonVars

\* The handler raises too, and the worker thread is gone until a restart: what
\* waits in the queue waits for that.
WorkerDies == HandlerRaises /\ UNCHANGED <<watchVars, daemonVars>>

\* The registry cannot be read or written any more, or can be again.
RegistryBreaks ==
    /\ writable /\ RegistryFlips
    /\ faults < MaxFaults
    /\ faults' = faults + 1
    /\ UNCHANGED <<watchVars, boot, scan, todo, good, stale, missed, moves>>

RegistryMends ==
    /\ ~writable /\ RegistryFlips
    /\ UNCHANGED <<watchVars, daemonVars>>

----------------------------------------------------------------------------
(* The watcher and the enrolment, with what they lose *)

DropsBatch ==
    /\ Break
    /\ missed' = missed \cup pending \cup batch
    /\ UNCHANGED <<boot, scan, todo, good, stale, moves, faults>>

\* The child holds no event yet of a root it could not arm, but may of others.
DropsArming ==
    /\ ChildRefuses
    /\ missed' = missed \cup pending
    /\ UNCHANGED <<boot, scan, todo, good, stale, moves, faults>>

\* The child or the body of the loop fails, with the batch in hand.
DropsPass ==
    /\ ChildFails \/ BodyFails
    /\ faults < MaxFaults
    /\ faults' = faults + 1
    /\ missed' = missed \cup pending \cup batch
    /\ UNCHANGED <<boot, scan, todo, good, stale, moves>>

\* The watcher thread ends, and drops what it and its child held.
WatcherDies ==
    /\ LoopDies
    /\ missed' = missed \cup pending \cup batch
    /\ UNCHANGED <<boot, scan, todo, good, stale, moves, faults>>

\* A project enrolled for the first time has no graph yet.
Enrol(r) ==
    /\ EnrolRegister(r)
    /\ stale' = IF r \in rows THEN stale ELSE stale \cup Of(r, Path)
    /\ UNCHANGED <<boot, scan, todo, good, missed, moves, faults>>

\* A file moves.  Where no watch is in place nothing will ever say so.
Move(r, p) ==
    /\ r \in rows
    /\ moves < MaxMoves
    /\ moves' = moves + 1
    /\ FileMoves(r, p)
    /\ stale' = stale \cup Of(r, {p})
    /\ good' = IF job # Idle /\ job.root = r THEN good \ {p} ELSE good
    /\ missed' = IF r \in live THEN missed ELSE missed \cup Of(r, {p})
    /\ UNCHANGED <<boot, scan, todo, faults>>

\* The volume of a root comes or goes.
Flip(r) ==
    /\ faults < MaxFaults
    /\ faults' = faults + 1
    /\ DirFlips(r)
    /\ UNCHANGED <<boot, scan, todo, good, stale, missed, moves>>

\* The daemon is killed and started again: the registry and the graphs stay,
\* and every enabled row is going to be scanned.  lifespan reads the rows and
\* does not start without them.
Restart ==
    /\ writable
    /\ faults < MaxFaults
    /\ faults' = faults + 1
    /\ waiting' = <<>> /\ hints' = Restrict(hints, {}) /\ running' = {}
    /\ job' = Idle /\ worker' = "up" /\ asked' = [r \in Root |-> {}]
    /\ moved' = TRUE
    /\ intent' = {} /\ rearm' = FALSE /\ wpc' = "top"
    /\ live' = {} /\ pending' = {} /\ batch' = {}
    /\ enrol' = [at |-> "idle", root |-> Nobody]
    /\ boot' = rows
    /\ scan' = "idle" /\ todo' = {} /\ good' = {}
    /\ UNCHANGED <<writable, failing, rows, present, stale, missed, moves>>

DaemonNext ==
    \/ (LoopNext \/ EnrolNext) /\ UNCHANGED daemonVars
    \/ DropsBatch \/ DropsArming \/ DropsPass \/ WatcherDies
    \/ BeginPass \/ SkipPass \/ EndPass \/ FailPass \/ RecordRaises
    \/ RecordFailure \/ WorkerDies
    \/ RegistryBreaks \/ RegistryMends
    \/ \E p \in Path : Look(p)
    \/ \E r \in Root : Boot(r) \/ Enrol(r) \/ Flip(r)
    \/ \E r \in Root, p \in Path : Move(r, p)
    \/ Restart

DaemonSpec == DaemonInit /\ [][DaemonNext]_sysVars

\* The threads run.  Nothing makes a file move, a fault happen or a caller come.
DaemonFairness ==
    /\ WF_sysVars((LoopNext /\ UNCHANGED daemonVars) \/ DropsBatch \/ DropsArming)
    /\ WF_sysVars(EnrolNext /\ UNCHANGED daemonVars)
    /\ WF_sysVars(\E r \in Root : Boot(r))
    /\ WF_sysVars(BeginPass \/ SkipPass \/ EndPass \/ RecordRaises
                    \/ RecordFailure \/ WorkerDies \/ \E p \in Path : Look(p))

FairDaemon == DaemonSpec /\ DaemonFairness

----------------------------------------------------------------------------
\* Somebody still has the path in hand: it is an event on its way, a hint that
\* waits, a pass that has not committed, or a scan that is sure to come.
InFlight(r, p) ==
    \/ <<r, p>> \in pending \cup batch
    \/ r \in boot
    \/ enrol.at = "submit" /\ enrol.root = r
    \/ r \in DOMAIN hints /\ p \in Covered(hints[r])
    \/ job # Idle /\ job.root = r /\ p \in todo \cup good

\* A stale row is in somebody's hands at every moment between the move of the
\* file and the commit that heals it, unless it was lost in one of the ways that
\* leave it to a later scan: no watch in place, a batch dropped by a re-arm, by a
\* dead child, by an error in the body of the loop or with the thread itself, a
\* pass that raised or found no root.  A hint in the queue of a dead worker is in
\* the queue's hands: it waits there for the restart, which scans everything.
NoSilentLoss ==
    \A e \in stale : e \in missed \/ InFlight(e[1], e[2])

\* Once the files are left alone, every stale row is healed, unless it was lost
\* so, or the worker died of a handler that raised: then nothing is healed until
\* the daemon is started again.
EventuallyFresh ==
    \A r \in Root, p \in Path :
        <<r, p>> \in stale ~>
            (<<r, p>> \notin stale \/ <<r, p>> \in missed \/ worker = "dead")
=============================================================================
