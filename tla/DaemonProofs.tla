---------------------------- MODULE DaemonProofs ----------------------------
(***************************************************************************)
(* What holds of the daemon as a whole, for any number of projects, files, *)
(* moves and faults: its types, and that no stale row is lost sight of     *)
(* between the threads, whichever of them fails or ends.                   *)
(***************************************************************************)
EXTENDS Daemon, JobsProofs

----------------------------------------------------------------------------
(* The parts of the invariant *)

\* Whoever holds a project holds one with a row: what a restart scans is all
\* there is to scan.
OfTheRows ==
    /\ boot \subseteq rows
    /\ DOMAIN hints \subseteq rows
    /\ job # Idle => job.root \in rows
    /\ pending \subseteq rows \X Path /\ batch \subseteq rows \X Path
    /\ stale \subseteq rows \X Path
    /\ enrol.at # "idle" => enrol.root \in rows

\* The loop holds a batch only between receiving and submitting it.
LoopKnows == wpc \in {"top", "clear", "arm", "watch"} => batch = {}

\* On its way to the worker, and not yet in the pass.
Carried(r, p) ==
    \/ <<r, p>> \in pending \cup batch
    \/ r \in boot
    \/ enrol.at = "submit" /\ enrol.root = r
    \/ r \in DOMAIN hints /\ p \in Covered(hints[r])

\* A pass runs while the worker holds a job it has not failed at, and no path is
\* in the hands of any other.
PassOfTheJob ==
    /\ scan # "idle" <=> job # Idle /\ worker = "up"
    /\ scan # "look" => todo = {} /\ good = {}

\* A path the pass has looked at, and that is not good any more, has been heard
\* of again or is known to be missed.
LookedAt ==
    scan = "look" =>
        \A p \in Covered(job.paths) \ (todo \cup good) :
            <<job.root, p>> \in missed \/ Carried(job.root, p)

\* The steps of the worker, those of the watcher that drop what it held, and
\* those of the disk under the registry.
WorkerStep ==
    \/ BeginPass \/ SkipPass \/ EndPass \/ FailPass \/ RecordRaises
    \/ RecordFailure \/ WorkerDies

WatcherDrops == DropsBatch \/ DropsArming \/ DropsPass \/ WatcherDies

RegistryStep == RegistryBreaks \/ RegistryMends

QueueInv == TypeOK /\ RunningIsInHand /\ OneEntryPerRoot

DaemonInv ==
    /\ QueueInv /\ DaemonTypeOK
    /\ OfTheRows /\ LoopKnows /\ PassOfTheJob /\ LookedAt /\ NoSilentLoss

----------------------------------------------------------------------------
(* The queue inside the daemon *)

\* The paths of one root in a batch are a request the queue takes (submit_batch).
LEMMA BatchIsRequest ==
    ASSUME NEW r \in Root, PathsOf(batch, r) # {}
    PROVE  PathsOf(batch, r) \in Request
BY DEF PathsOf, Request

\* A step of the daemon is a step of the queue, or none of it, or the end of it.
LEMMA QueueSteps ==
    ASSUME DaemonInv, [DaemonNext]_sysVars
    PROVE  [Next]_jobsVars \/ Restart
<1>1. CASE LoopNext
  <2>1. ASSUME NEW r \in Root, SubmitBatch(r)
        PROVE  [Next]_jobsVars
    BY <2>1, BatchIsRequest DEF SubmitBatch, Next
  <2> QED
    BY <1>1, <2>1 DEF LoopNext, Top, ClearRearm, Armed, Receive, TickStat, TickCompare,
       BatchDone, ArmRoot
<1>2. CASE EnrolNext
  <2>1. ASSUME EnrolSubmit
        PROVE  [Next]_jobsVars
    <3>1. enrol.root \in Root /\ Whole \in Request
      BY <2>1 DEF EnrolSubmit, DaemonInv, OfTheRows, DaemonTypeOK, WatchTypeOK, Request
    <3> QED BY <2>1, <3>1 DEF EnrolSubmit, Next
  <2> QED BY <1>2, <2>1 DEF EnrolNext, EnrolStat, EnrolCompare, EnrolRaises
<1>3. ASSUME NEW r \in Root, Boot(r)
      PROVE  [Next]_jobsVars
  BY <1>3 DEF Boot, Next, Request
<1>4. CASE WorkerStep
  BY <1>4 DEF WorkerStep, BeginPass, SkipPass, EndPass, Commits, RecordRaises, FailPass,
     RecordFailure, WorkerDies, WorkerTakes, WorkerFails, Next
<1>8. CASE RegistryStep
  BY <1>8 DEF RegistryStep, RegistryBreaks, RegistryMends, Next
<1>5. CASE WatcherDrops
  BY <1>5 DEF WatcherDrops, DropsBatch, DropsArming, DropsPass, WatcherDies, Break,
     ChildRefuses, ChildFails, BodyFails, LoopDies, OnOSError
<1>6. CASE \/ \E p \in Path : Look(p)
           \/ \E r \in Root : Enrol(r) \/ Flip(r)
           \/ \E r \in Root, p \in Path : Move(r, p)
  BY <1>6 DEF Look, Enrol, Flip, Move, EnrolRegister, DirFlips, FileMoves, allVars
<1>7. CASE UNCHANGED sysVars
  BY <1>7 DEF sysVars, allVars
<1> QED BY <1>1, <1>2, <1>3, <1>4, <1>5, <1>6, <1>7, <1>8
        DEF DaemonNext, WorkerStep, WatcherDrops, RegistryStep

\* What holds of the queue by itself holds of it inside the daemon (jobs.py).
LEMMA QueueInvStep ==
    ASSUME DaemonInv, [DaemonNext]_sysVars
    PROVE  QueueInv'
<1>1. CASE [Next]_jobsVars
  BY <1>1, JobsTypeStep, InHandStep, OneEntryStep DEF DaemonInv, QueueInv
<1>2. CASE Restart
  BY <1>2, EmptySeq
  DEF Restart, DaemonInv, QueueInv, TypeOK, RunningIsInHand, OneEntryPerRoot, Restrict
<1> QED BY <1>1, <1>2, QueueSteps

----------------------------------------------------------------------------
(* Types *)

\* Every step of a thread keeps each variable in its type.
LEMMA DaemonTypeStep ==
    ASSUME DaemonInv, [DaemonNext]_sysVars
    PROVE  DaemonTypeOK'
<1>1. TypeOK' /\ TypeOK
  BY QueueInvStep DEF QueueInv, DaemonInv
<1>2. CASE LoopNext /\ UNCHANGED daemonVars
  <2>1. ASSUME NEW r \in Root, ArmRoot(r) \/ SubmitBatch(r)
        PROVE  WatchTypeOK'
    BY <2>1 DEF ArmRoot, SubmitBatch, DaemonInv, DaemonTypeOK, WatchTypeOK, registryVars
  <2>2. ASSUME \/ Top \/ ClearRearm \/ Armed \/ Receive
               \/ TickStat \/ TickCompare \/ BatchDone
        PROVE  WatchTypeOK'
    BY <2>2 DEF Top, ClearRearm, Armed, Receive, TickStat, TickCompare, BatchDone, Roots,
       DaemonInv, DaemonTypeOK, WatchTypeOK, registryVars, Event
  <2>3. WatchTypeOK'
    BY <1>2, <2>1, <2>2 DEF LoopNext
  <2> QED BY <1>1, <1>2, <2>3 DEF DaemonInv, DaemonTypeOK, daemonVars, Event
<1>3. CASE EnrolNext /\ UNCHANGED daemonVars
  <2>1. enrol' \in [at : {"idle", "submit", "stat", "compare"}, root : Root \cup {Nobody}]
    BY <1>3 DEF EnrolNext, EnrolSubmit, EnrolStat, EnrolCompare, EnrolRaises, DaemonInv,
       DaemonTypeOK, WatchTypeOK
  <2>2. WatchTypeOK'
    BY <1>3, <2>1 DEF EnrolNext, EnrolSubmit, EnrolStat, EnrolCompare, EnrolRaises, Roots,
       DaemonInv, DaemonTypeOK, WatchTypeOK, registryVars, loopVars, Event
  <2> QED BY <1>1, <1>3, <2>2 DEF DaemonInv, DaemonTypeOK, daemonVars, Event
<1>4. CASE WatcherDrops
  <2>1. WatchTypeOK'
    BY <1>4 DEF WatcherDrops, DropsBatch, DropsArming, DropsPass, WatcherDies, Break,
       ChildRefuses, ChildFails, BodyFails, LoopDies, OnOSError, DaemonInv, DaemonTypeOK,
       WatchTypeOK, registryVars, Event
  <2>2. faults' \in 0..MaxFaults
    BY <1>4, DaemonAssumption DEF WatcherDrops, DropsBatch, DropsArming, DropsPass,
       WatcherDies, DaemonInv, DaemonTypeOK
  <2> QED BY <1>1, <1>4, <2>1, <2>2 DEF WatcherDrops, DropsBatch, DropsArming, DropsPass,
          WatcherDies, DaemonInv, DaemonTypeOK, WatchTypeOK, Event
<1>5. CASE WorkerStep
  <2>1. WatchTypeOK'
    BY <1>5 DEF WorkerStep, BeginPass, SkipPass, EndPass, Commits, RecordRaises, FailPass,
       RecordFailure, WorkerDies, WorkerTakes, WorkerFails, RegistryMoves, DaemonInv,
       DaemonTypeOK, WatchTypeOK, watchVars, loopVars, Event
  <2>2. faults' \in 0..MaxFaults /\ moves' \in 0..MaxMoves
    BY <1>5, DaemonAssumption DEF WorkerStep, BeginPass, SkipPass, EndPass, Commits,
       RecordRaises, FailPass, RecordFailure, WorkerDies, daemonVars, DaemonInv,
       DaemonTypeOK
  <2>3. boot' \subseteq Root /\ scan' \in {"idle", "skip", "look"}
    BY <1>5 DEF WorkerStep, BeginPass, SkipPass, EndPass, Commits, RecordRaises, FailPass,
       RecordFailure, WorkerDies, daemonVars, DaemonInv, DaemonTypeOK
  <2>4. todo' \subseteq Path /\ good' \subseteq Path
    <3>1. job' # Idle => Covered(job'.paths) \subseteq Path
      BY <1>1 DEF TypeOK, Job, Hint, Covered
    <3>2. BeginPass => job' # Idle
      BY <1>1, JobsAssumption, HeadTailProperties DEF BeginPass, WorkerTakes, Take, TypeOK,
         Hint
    <3> QED BY <1>5, <3>1, <3>2 DEF WorkerStep, BeginPass, SkipPass, EndPass, Commits,
            RecordRaises, FailPass, RecordFailure, WorkerDies, daemonVars, DaemonInv,
            DaemonTypeOK
  <2>5. stale' \subseteq Event
    <3>1. CASE EndPass \/ RecordRaises
      <4>1. job.root \in Root /\ Covered(job.paths) \subseteq Path
        BY <1>1, <3>1 DEF EndPass, RecordRaises, PassSucceeds, PassRaises, TypeOK, Job,
           Hint, Covered
      <4> QED BY <3>1, <4>1 DEF EndPass, RecordRaises, Commits, Of, Event, DaemonInv,
              DaemonTypeOK
    <3> QED BY <1>5, <3>1 DEF WorkerStep, BeginPass, SkipPass, FailPass, RecordFailure,
            WorkerDies, daemonVars, DaemonInv, DaemonTypeOK, Event
  <2>6. missed' \subseteq Event
    BY <1>5 DEF WorkerStep, BeginPass, SkipPass, EndPass, Commits, RecordRaises, FailPass,
       RecordFailure, WorkerDies, daemonVars, DaemonInv, DaemonTypeOK, Event
  <2> QED BY <1>1, <2>1, <2>2, <2>3, <2>4, <2>5, <2>6 DEF DaemonTypeOK, Event
<1>6. ASSUME NEW p \in Path, Look(p)
      PROVE  DaemonTypeOK'
  <2>1. job.root \in Root
    BY <1>1, <1>6 DEF Look, PassOfTheJob, DaemonInv, TypeOK, Job
  <2> QED BY <1>1, <1>6, <2>1 DEF Look, Of, DaemonInv, DaemonTypeOK, WatchTypeOK, allVars,
          watchVars, Event
<1>7. ASSUME NEW r \in Root, Boot(r) \/ Enrol(r) \/ Flip(r)
      PROVE  DaemonTypeOK'
  <2>1. enrol' \in [at : {"idle", "submit", "stat", "compare"}, root : Root \cup {Nobody}]
    BY <1>7 DEF Boot, Enrol, Flip, EnrolRegister, DirFlips, DaemonInv, DaemonTypeOK,
       WatchTypeOK, watchVars
  <2>2. WatchTypeOK'
    BY <1>7, <2>1 DEF Boot, Enrol, Flip, EnrolRegister, DirFlips, DaemonInv, DaemonTypeOK,
       WatchTypeOK, watchVars, loopVars, Event
  <2> QED BY <1>1, <1>7, <2>2, DaemonAssumption
          DEF Boot, Enrol, Flip, Of, DaemonInv, DaemonTypeOK, Event
<1>8. ASSUME NEW r \in Root, NEW p \in Path, Move(r, p)
      PROVE  DaemonTypeOK'
  <2>1. WatchTypeOK'
    BY <1>8 DEF Move, FileMoves, Reported, DaemonInv, DaemonTypeOK, WatchTypeOK,
       registryVars, Event
  <2> QED BY <1>1, <1>8, <2>1, DaemonAssumption
          DEF Move, Of, DaemonInv, DaemonTypeOK, Event
<1>9. CASE Restart
  <2>1. WatchTypeOK'
    BY <1>9 DEF Restart, DaemonInv, DaemonTypeOK, WatchTypeOK, Event
  <2> QED BY <1>1, <1>9, <2>1, DaemonAssumption
          DEF Restart, DaemonInv, DaemonTypeOK, WatchTypeOK, Event
<1>10. CASE UNCHANGED sysVars
  BY <1>1, <1>10 DEF sysVars, allVars, watchVars, daemonVars, DaemonInv, DaemonTypeOK,
     WatchTypeOK, Event
<1>11. CASE RegistryStep
  <2>1. WatchTypeOK'
    BY <1>11 DEF RegistryStep, RegistryBreaks, RegistryMends, watchVars, DaemonInv,
       DaemonTypeOK, WatchTypeOK, Event
  <2>2. faults' \in 0..MaxFaults
    BY <1>11, DaemonAssumption DEF RegistryStep, RegistryBreaks, RegistryMends, daemonVars,
       DaemonInv, DaemonTypeOK
  <2> QED BY <1>1, <1>11, <2>1, <2>2 DEF RegistryStep, RegistryBreaks, RegistryMends,
          daemonVars, DaemonInv, DaemonTypeOK, Event
<1> QED BY <1>2, <1>3, <1>4, <1>5, <1>6, <1>7, <1>8, <1>9, <1>10, <1>11
        DEF DaemonNext, WorkerStep, WatcherDrops, RegistryStep

----------------------------------------------------------------------------
(* Who holds what *)

\* The worker is given the hint of the root it takes, and the others keep theirs.
LEMMA TakeFromHints ==
    ASSUME QueueInv, Take
    PROVE  /\ job' # Idle /\ job'.root \in DOMAIN hints
           /\ job'.paths = hints[job'.root]
           /\ DOMAIN hints' = DOMAIN hints \ {job'.root}
           /\ \A k \in DOMAIN hints' : hints'[k] = hints[k]
<1> DEFINE key == Head(waiting)
<1>1. key = waiting[1] /\ 1 \in DOMAIN waiting /\ key \in Root
  BY TailElements, HeadTailProperties DEF Take, QueueInv, TypeOK
<1>2. key \in DOMAIN hints
  BY <1>1 DEF QueueInv, OneEntryPerRoot
<1>3. job' = [root |-> key, paths |-> hints[key]] /\ hints[key] \in Hint
  BY <1>2 DEF Take, QueueInv, TypeOK
<1>4. job' # Idle
  BY <1>1, <1>3, JobsAssumption
<1>5. hints' = Without(hints, key)
  BY DEF Take
<1> HIDE DEF key
<1> QED BY <1>2, <1>3, <1>4, <1>5 DEF Without, Restrict

\* No step hands on work of a project without a row (enrolment writes the row
\* first, and the boot scan reads the rows).
LEMMA OfTheRowsStep ==
    ASSUME DaemonInv, [DaemonNext]_sysVars
    PROVE  OfTheRows'
<1> USE DEF OfTheRows
<1>1. DaemonTypeOK /\ OfTheRows /\ QueueInv /\ TypeOK
  BY DEF DaemonInv, QueueInv
<1>2. ASSUME NEW r \in Root, SubmitBatch(r), UNCHANGED daemonVars
      PROVE  OfTheRows'
  <2>1. DOMAIN hints' = DOMAIN hints \cup {r}
    BY <1>1, <1>2, BatchIsRequest, SubmitWidens DEF SubmitBatch
  <2>2. r \in rows
    BY <1>1, <1>2 DEF SubmitBatch, PathsOf
  <2> QED BY <1>1, <1>2, <2>1, <2>2 DEF SubmitBatch, Submit, registryVars, daemonVars
<1>3. CASE EnrolNext /\ UNCHANGED daemonVars
  <2>1. ASSUME EnrolSubmit
        PROVE  DOMAIN hints' = DOMAIN hints \cup {enrol.root}
    BY <1>1, <2>1, SubmitWidens DEF EnrolSubmit, DaemonTypeOK, WatchTypeOK, Request
  <2>2. DOMAIN hints' \subseteq rows /\ job' = job
    BY <1>1, <1>3, <2>1 DEF EnrolNext, EnrolSubmit, EnrolStat, EnrolCompare, EnrolRaises,
       jobsVars, Submit
  <2>3. enrol'.at # "idle" => enrol'.root = enrol.root /\ enrol.at # "idle"
    BY <1>1, <1>3 DEF EnrolNext, EnrolSubmit, EnrolStat, EnrolCompare, EnrolRaises,
       DaemonTypeOK, WatchTypeOK
  <2>4. UNCHANGED <<rows, pending, batch, boot, stale>>
    BY <1>3 DEF EnrolNext, EnrolSubmit, EnrolStat, EnrolCompare, EnrolRaises, registryVars,
       loopVars, daemonVars
  <2> QED BY <1>1, <2>2, <2>3, <2>4
<1>4. ASSUME NEW r \in Root, Boot(r)
      PROVE  OfTheRows'
  <2>1. DOMAIN hints' = DOMAIN hints \cup {r} /\ job' = job
    BY <1>1, <1>4, SubmitWidens DEF Boot, Request, Submit
  <2> QED BY <1>1, <1>4, <2>1 DEF Boot, watchVars
<1>5. CASE BeginPass \/ SkipPass
  <2>1. DOMAIN hints' \subseteq rows /\ job'.root \in rows
    BY <1>1, <1>5, TakeFromHints DEF BeginPass, SkipPass, WorkerTakes
  <2> QED BY <1>1, <1>5, <2>1 DEF BeginPass, SkipPass, WorkerTakes, watchVars
<1>6. CASE EndPass \/ RecordRaises
  BY <1>1, <1>6 DEF EndPass, RecordRaises, Commits, PassSucceeds, PassRaises, Done,
     RegistryMoves, watchVars, loopVars, Of, Covered, TypeOK, Job, Hint
<1>7. CASE FailPass \/ RecordFailure \/ WorkerDies
  BY <1>1, <1>7 DEF FailPass, RecordFailure, WorkerDies, WorkerFails, PassRaises,
     HandlerRecords, HandlerRaises, Done, RegistryMoves, loopVars, watchVars, daemonVars
<1>8. CASE WatcherDrops
  BY <1>1, <1>8 DEF WatcherDrops, DropsBatch, DropsArming, DropsPass, WatcherDies, Break,
     ChildRefuses, ChildFails, BodyFails, LoopDies, OnOSError, jobsVars, registryVars
<1>9. CASE LoopNext /\ (\A r \in Root : ~SubmitBatch(r)) /\ UNCHANGED daemonVars
  BY <1>1, <1>9 DEF LoopNext, Top, ClearRearm, Armed, Receive, TickStat, TickCompare,
     BatchDone, ArmRoot, jobsVars, registryVars, daemonVars
<1>10. ASSUME NEW r \in Root, Enrol(r)
       PROVE  OfTheRows'
  BY <1>1, <1>10 DEF Enrol, EnrolRegister, Of, jobsVars, loopVars
<1>11. ASSUME NEW r \in Root, NEW p \in Path, Move(r, p)
       PROVE  OfTheRows'
  BY <1>1, <1>11 DEF Move, FileMoves, Reported, Of, jobsVars, registryVars
<1>12. CASE \/ \E p \in Path : Look(p)
            \/ \E r \in Root : Flip(r)
            \/ RegistryStep \/ UNCHANGED sysVars
  BY <1>1, <1>12 DEF RegistryStep, RegistryBreaks, RegistryMends, RegistryFlips, Look, Flip,
     DirFlips, sysVars, allVars, jobsVars, watchVars, daemonVars
<1>13. CASE Restart
  BY <1>1, <1>13 DEF Restart, Restrict
<1> QED BY <1>2, <1>3, <1>4, <1>5, <1>6, <1>7, <1>8, <1>9, <1>10, <1>11, <1>12, <1>13
        DEF DaemonNext, LoopNext, WorkerStep, WatcherDrops, RegistryStep

\* A batch is submitted, dropped or lost before the next one is taken (watch.py).
LEMMA LoopKnowsStep ==
    ASSUME DaemonInv, [DaemonNext]_sysVars
    PROVE  LoopKnows'
<1> USE DEF LoopKnows
<1>1. LoopKnows
  BY DEF DaemonInv
<1>2. CASE LoopNext
  BY <1>1, <1>2 DEF LoopNext, Top, ClearRearm, Armed, Receive, TickStat, TickCompare,
     BatchDone, ArmRoot, SubmitBatch
<1>3. CASE EnrolNext \/ \E r \in Root : Boot(r) \/ Enrol(r)
  BY <1>1, <1>3 DEF EnrolNext, EnrolSubmit, EnrolStat, EnrolCompare, EnrolRaises, Boot, Enrol,
     EnrolRegister, loopVars, watchVars
<1>4. CASE WatcherDrops
  BY <1>1, <1>4 DEF WatcherDrops, DropsBatch, DropsArming, DropsPass, WatcherDies, Break,
     ChildRefuses, ChildFails, BodyFails, LoopDies, OnOSError
<1>8. CASE \/ \E r \in Root : Flip(r)
           \/ \E r \in Root, p \in Path : Move(r, p)
  BY <1>1, <1>8 DEF Flip, DirFlips, Move, FileMoves
<1>5. CASE WorkerStep
  BY <1>1, <1>5 DEF WorkerStep, BeginPass, SkipPass, EndPass, Commits, RecordRaises,
     FailPass, RecordFailure, WorkerDies, WorkerTakes, WorkerFails, RegistryMoves,
     watchVars, loopVars
<1>6. CASE (\E p \in Path : Look(p)) \/ RegistryStep \/ UNCHANGED sysVars
  <2>1. UNCHANGED watchVars
    BY <1>6 DEF Look, RegistryStep, RegistryBreaks, RegistryMends, sysVars, allVars, daemonVars
  <2> QED BY <1>1, <2>1 DEF watchVars
<1>7. CASE Restart
  BY <1>7 DEF Restart
<1> QED BY <1>2, <1>3, <1>4, <1>5, <1>6, <1>7, <1>8
        DEF DaemonNext, WorkerStep, WatcherDrops, RegistryStep

\* A pass is under way exactly while the worker is at a job (jobs.run_worker).
LEMMA PassOfTheJobStep ==
    ASSUME DaemonInv, [DaemonNext]_sysVars
    PROVE  PassOfTheJob'
<1> USE DEF PassOfTheJob
<1>1. PassOfTheJob /\ QueueInv /\ (worker = "handling" => job # Idle)
  BY DEF DaemonInv, QueueInv, RunningIsInHand
<1>2. CASE BeginPass \/ SkipPass
  BY <1>1, <1>2, TakeFromHints DEF BeginPass, SkipPass, WorkerTakes, Take
<1>3. CASE EndPass \/ FailPass \/ RecordRaises \/ RecordFailure \/ WorkerDies
  BY <1>1, <1>3 DEF EndPass, RecordRaises, Commits, FailPass, RecordFailure, WorkerDies,
     PassSucceeds, WorkerFails, PassRaises, HandlerRecords, HandlerRaises, Done, daemonVars
<1>4. CASE Restart
  BY <1>4 DEF Restart
<1>5. CASE \E p \in Path : Look(p)
  BY <1>1, <1>5 DEF Look, allVars, jobsVars
<1>6. CASE \E r \in Root, p \in Path : Move(r, p)
  BY <1>1, <1>6 DEF Move, FileMoves, jobsVars
<1>7. CASE (LoopNext \/ EnrolNext) /\ UNCHANGED daemonVars
  BY <1>1, <1>7 DEF LoopNext, Top, ClearRearm, Armed, Receive, TickStat, TickCompare,
     BatchDone, ArmRoot, SubmitBatch, EnrolNext, EnrolSubmit, EnrolStat, EnrolCompare,
     EnrolRaises, Submit, jobsVars, daemonVars
<1>8. CASE \/ WatcherDrops
           \/ \E r \in Root : Boot(r) \/ Enrol(r) \/ Flip(r)
           \/ RegistryStep \/ UNCHANGED sysVars
  BY <1>1, <1>8 DEF RegistryStep, RegistryBreaks, RegistryMends, RegistryFlips,
     WatcherDrops, DropsBatch, DropsArming, DropsPass, WatcherDies, Break, ChildRefuses,
     ChildFails, BodyFails, LoopDies, OnOSError, Boot, Submit, Enrol, EnrolRegister, Flip,
     DirFlips, jobsVars, sysVars, allVars, daemonVars
<1> QED BY <1>2, <1>3, <1>4, <1>5, <1>6, <1>7, <1>8
        DEF DaemonNext, WorkerStep, WatcherDrops, RegistryStep

----------------------------------------------------------------------------
(* Nothing is put down on the way *)

\* Whoever carries a path carries it on, hands it to the pass that begins, or is
\* known to have missed it.
LEMMA CarriedStep ==
    ASSUME DaemonInv, [DaemonNext]_sysVars, ~Restart,
           NEW r, NEW p \in Path, Carried(r, p)
    PROVE  \/ Carried(r, p)'
           \/ <<r, p>> \in missed'
           \/ (BeginPass \/ SkipPass) /\ job'.root = r /\ p \in Covered(job'.paths)
<1> USE DEF Carried
<1>1. DaemonTypeOK /\ OfTheRows /\ QueueInv /\ TypeOK
  BY DEF DaemonInv, QueueInv
<1> DEFINE Hinted == r \in DOMAIN hints /\ p \in Covered(hints[r])
<1>2. ASSUME NEW k \in Root, NEW request \in Request, Submit(k, request)
      PROVE  /\ Hinted => Hinted'
             /\ r = k /\ p \in Covered(request) => Hinted'
  BY <1>1, <1>2, SubmitWidens
<1>4. ASSUME NEW k \in Root, SubmitBatch(k), UNCHANGED daemonVars
      PROVE  Carried(r, p)'
  <2>1. PathsOf(batch, k) \in Request /\ Submit(k, PathsOf(batch, k))
    BY <1>4, BatchIsRequest DEF SubmitBatch
  <2>2. PathsOf(batch, k) # Whole
    BY HintsAssumption DEF PathsOf
  <2>3. CASE <<r, p>> \in batch /\ r = k
    BY <1>2, <2>1, <2>2, <2>3 DEF PathsOf, Covered
  <2>4. CASE <<r, p>> \in batch /\ r # k
    BY <1>4, <2>4 DEF SubmitBatch
  <2>5. CASE Hinted
    BY <1>2, <2>1, <2>5
  <2> QED BY <1>4, <2>3, <2>4, <2>5 DEF SubmitBatch, daemonVars
<1>5. ASSUME EnrolSubmit, UNCHANGED daemonVars
      PROVE  Carried(r, p)'
  <2>1. enrol.root \in Root /\ Whole \in Request /\ Submit(enrol.root, Whole)
    BY <1>1, <1>5 DEF EnrolSubmit, OfTheRows, DaemonTypeOK, WatchTypeOK, Request
  <2>2. p \in Covered(Whole)
    BY DEF Covered
  <2>3. Hinted \/ enrol.root = r => Hinted'
    BY <1>2, <2>1, <2>2
  <2> QED BY <1>5, <2>3 DEF EnrolSubmit, loopVars, daemonVars
<1>6. ASSUME NEW k \in Root, Boot(k)
      PROVE  Carried(r, p)'
  <2>1. Whole \in Request /\ Submit(k, Whole) /\ p \in Covered(Whole)
    BY <1>6 DEF Boot, Request, Covered
  <2>2. Hinted \/ k = r => Hinted'
    BY <1>2, <2>1
  <2> QED BY <1>6, <2>2 DEF Boot, watchVars
<1>7. ASSUME BeginPass \/ SkipPass
      PROVE  Carried(r, p)' \/ (job'.root = r /\ p \in Covered(job'.paths))
  <2>1. Take /\ UNCHANGED <<pending, batch, boot, enrol>>
    BY <1>7 DEF BeginPass, SkipPass, WorkerTakes, watchVars
  <2>2. Hinted => Hinted' \/ (job'.root = r /\ p \in Covered(job'.paths))
    BY <1>1, <2>1, TakeFromHints
  <2> QED BY <2>1, <2>2
<1>8. ASSUME EndPass \/ FailPass \/ RecordRaises \/ RecordFailure \/ WorkerDies
      PROVE  Carried(r, p)'
  <2>1. UNCHANGED <<hints, pending, batch, boot, enrol>>
    BY <1>8 DEF EndPass, RecordRaises, Commits, FailPass, RecordFailure, WorkerDies,
       PassSucceeds, WorkerFails, PassRaises, HandlerRecords, HandlerRaises, RegistryMoves,
       loopVars, watchVars, daemonVars
  <2> QED BY <2>1
<1>9. ASSUME WatcherDrops
      PROVE  Carried(r, p)' \/ <<r, p>> \in missed'
  <2>1. UNCHANGED <<hints, boot, enrol>>
    BY <1>9 DEF WatcherDrops, DropsBatch, DropsArming, DropsPass, WatcherDies, Break,
       ChildRefuses, ChildFails, BodyFails, LoopDies, OnOSError, jobsVars
  <2>2. <<r, p>> \in pending \cup batch => <<r, p>> \in batch' \cup missed'
    BY <1>9 DEF WatcherDrops, DropsBatch, DropsArming, DropsPass, WatcherDies, Break,
       ChildRefuses, ChildFails, BodyFails, LoopDies, OnOSError, LoopKnows, DaemonInv
  <2> QED BY <2>1, <2>2
<1>10. ASSUME NEW k \in Root, Enrol(k)
       PROVE  Carried(r, p)'
  <2>1. UNCHANGED <<hints, boot, pending, batch>> /\ enrol.at = "idle"
    BY <1>10 DEF Enrol, EnrolRegister, loopVars, jobsVars
  <2> QED BY <2>1
<1>11. ASSUME NEW k \in Root, NEW q \in Path, Move(k, q)
       PROVE  Carried(r, p)'
  <2>1. UNCHANGED <<hints, boot, batch, enrol>> /\ pending \subseteq pending'
    BY <1>11 DEF Move, FileMoves, Reported, jobsVars
  <2> QED BY <2>1
<1>12. ASSUME \/ \E q \in Path : Look(q)
              \/ \E k \in Root : Flip(k)
              \/ RegistryStep \/ UNCHANGED sysVars
       PROVE  Carried(r, p)'
  <2>1. UNCHANGED <<hints, boot, pending, batch, enrol>>
    BY <1>12 DEF RegistryStep, RegistryBreaks, RegistryMends, RegistryFlips, Look, Flip,
       DirFlips, sysVars, allVars, jobsVars, watchVars, daemonVars
  <2> QED BY <2>1
<1>13. ASSUME LoopNext, \A k \in Root : ~SubmitBatch(k), UNCHANGED daemonVars
       PROVE  Carried(r, p)'
  <2>1. UNCHANGED <<hints, boot, enrol>>
    BY <1>13 DEF LoopNext, Top, ClearRearm, Armed, Receive, TickStat, TickCompare, BatchDone,
       ArmRoot, jobsVars, daemonVars
  <2>2. pending \cup batch \subseteq pending' \cup batch'
    BY <1>1, <1>13 DEF LoopNext, Top, ClearRearm, Armed, Receive, TickStat, TickCompare,
       BatchDone, ArmRoot, LoopKnows, DaemonInv
  <2> QED BY <2>1, <2>2
<1>14. ASSUME EnrolStat \/ EnrolCompare \/ EnrolRaises, UNCHANGED daemonVars
       PROVE  Carried(r, p)'
  <2>1. UNCHANGED <<hints, boot, pending, batch>> /\ enrol.at # "submit"
    BY <1>14 DEF EnrolStat, EnrolCompare, EnrolRaises, jobsVars, loopVars, daemonVars
  <2> QED BY <2>1
<1> HIDE DEF Carried
<1> QED BY <1>4, <1>5, <1>6, <1>7, <1>8, <1>9, <1>10, <1>11, <1>12, <1>13, <1>14
        DEF DaemonNext, LoopNext, EnrolNext, WorkerStep, WatcherDrops, RegistryStep

\* What is known to be missed stays so until a pass heals it.
LEMMA MissedStep ==
    ASSUME DaemonInv, [DaemonNext]_sysVars, NEW e \in missed,
           EndPass \/ RecordRaises => e \notin Of(job.root, good)
    PROVE  e \in missed'
BY DEF DaemonNext, WatcherDrops, DropsBatch, DropsArming, DropsPass, WatcherDies, BeginPass,
   SkipPass, EndPass, Commits, RecordRaises, FailPass, RecordFailure, WorkerDies,
   RegistryBreaks, RegistryMends, Look, Boot, Enrol, Flip, Move, Restart, sysVars,
   daemonVars

\* Steps of the watcher, the enrolment and the start leave the pass where it is.
LEMMA PassOnlyByItsSteps ==
    ASSUME DaemonInv, [DaemonNext]_sysVars, ~Restart,
           ~WorkerStep,
           \A q \in Path : ~Look(q)
    PROVE  /\ UNCHANGED <<job, scan, todo>>
           /\ \A q \in Path : q \in good =>
                 q \in good' \/ <<job.root, q>> \in missed' \/ Carried(job.root, q)'
           /\ \A e \in stale' : e \in stale \/ e \in missed' \/ Carried(e[1], e[2])'
<1>1. ASSUME NEW r \in Root, NEW p \in Path, Move(r, p)
      PROVE  /\ UNCHANGED <<job, scan, todo>>
             /\ \A q \in Path : q \in good =>
                   q \in good' \/ <<job.root, q>> \in missed' \/ Carried(job.root, q)'
             /\ \A e \in stale' : e \in stale \/ e \in missed' \/ Carried(e[1], e[2])'
  <2>1. UNCHANGED <<job, scan, todo>>
    BY <1>1 DEF Move, FileMoves, jobsVars
  <2>2. <<r, p>> \in missed' \/ <<r, p>> \in pending'
    BY <1>1 DEF Move, FileMoves, Reported, Of
  <2>3. <<r, p>> \in missed' \/ Carried(r, p)'
    BY <2>2 DEF Carried
  <2>4. \A q \in good : q \in good' \/ (q = p /\ job.root = r)
    BY <1>1 DEF Move
  <2>5. \A e \in stale' : e \in stale \/ e = <<r, p>>
    BY <1>1 DEF Move, Of
  <2>6. \A e \in stale' : e \in stale \/ e \in missed' \/ Carried(e[1], e[2])'
    BY <2>3, <2>5
  <2> QED BY <2>1, <2>3, <2>4, <2>6
<1>2. ASSUME NEW r \in Root, Enrol(r)
      PROVE  /\ UNCHANGED <<job, scan, todo, good>>
             /\ \A e \in stale' : e \in stale \/ e \in missed' \/ Carried(e[1], e[2])'
  <2>1. UNCHANGED <<job, scan, todo, good>> /\ enrol' = [at |-> "submit", root |-> r]
    BY <1>2 DEF Enrol, EnrolRegister, jobsVars
  <2>2. \A e \in stale' : e \in stale \/ e[1] = r
    BY <1>2 DEF Enrol, Of
  <2>3. ASSUME NEW e \in stale', e \notin stale
        PROVE  Carried(e[1], e[2])'
    BY <2>1, <2>2, <2>3 DEF Carried
  <2> QED BY <2>1, <2>3
<1>3. ASSUME NEW r \in Root, Boot(r) \/ Flip(r)
      PROVE  UNCHANGED <<job, scan, todo, good, stale>>
  BY <1>3 DEF Boot, Submit, Flip, DirFlips, jobsVars
<1>4. ASSUME (LoopNext \/ EnrolNext) /\ UNCHANGED daemonVars
      PROVE  UNCHANGED <<job, scan, todo, good, stale>>
  BY <1>4 DEF LoopNext, Top, ClearRearm, Armed, Receive, TickStat, TickCompare, BatchDone,
     ArmRoot, SubmitBatch, EnrolNext, EnrolSubmit, EnrolStat, EnrolCompare, EnrolRaises,
     Submit, jobsVars, daemonVars
<1>5. ASSUME WatcherDrops \/ RegistryStep \/ UNCHANGED sysVars
      PROVE  UNCHANGED <<job, scan, todo, good, stale>>
  BY <1>5 DEF RegistryStep, RegistryBreaks, RegistryMends, RegistryFlips, WatcherDrops,
     DropsBatch, DropsArming, DropsPass, WatcherDies, Break, ChildRefuses, ChildFails,
     BodyFails, LoopDies, OnOSError, jobsVars, sysVars, allVars, daemonVars
<1> QED BY <1>1, <1>2, <1>3, <1>4, <1>5
        DEF DaemonNext, WorkerStep, WatcherDrops, RegistryStep

\* A file that changes behind the pass is heard of again, or is known to be missed.
LEMMA LookedAtStep ==
    ASSUME DaemonInv, [DaemonNext]_sysVars
    PROVE  LookedAt'
<1>1. DaemonTypeOK /\ QueueInv /\ TypeOK /\ PassOfTheJob /\ LookedAt
  BY DEF DaemonInv, QueueInv
<1>2. scan = "look" => Covered(job.paths) \subseteq Path
  BY <1>1 DEF PassOfTheJob, TypeOK, Job, Hint, Covered
<1>3. CASE BeginPass
  BY <1>3 DEF BeginPass, LookedAt
<1>4. CASE SkipPass \/ EndPass \/ RecordRaises \/ FailPass \/ Restart
  BY <1>4 DEF SkipPass, EndPass, RecordRaises, Commits, FailPass, Restart, LookedAt
<1>5. CASE RecordFailure \/ WorkerDies
  BY <1>1, <1>5 DEF RecordFailure, WorkerDies, HandlerRecords, HandlerRaises, daemonVars,
     PassOfTheJob, LookedAt
<1>6. ASSUME NEW p \in Path, Look(p)
      PROVE  LookedAt'
  <2>1. /\ UNCHANGED <<job, scan>> /\ todo' = todo \ {p} /\ good \subseteq good'
        /\ p \in good' \/ <<job.root, p>> \in missed'
        /\ missed \subseteq missed'
    BY <1>6 DEF Look, Of, allVars, jobsVars
  <2>2. ASSUME NEW q
        PROVE  Carried(job.root, q) => Carried(job.root, q)'
    BY <1>6 DEF Look, Carried, allVars, jobsVars, watchVars
  <2> QED BY <1>1, <2>1, <2>2 DEF LookedAt
<1>7. ASSUME ~Restart, ~WorkerStep,
             \A q \in Path : ~Look(q)
      PROVE  LookedAt'
  <2>1. /\ UNCHANGED <<job, scan, todo>>
        /\ \A q \in Path : q \in good =>
              q \in good' \/ <<job.root, q>> \in missed' \/ Carried(job.root, q)'
    BY <1>7, PassOnlyByItsSteps
  <2>2. ASSUME scan = "look", NEW q \in Covered(job.paths), q \notin todo \cup good'
        PROVE  <<job.root, q>> \in missed' \/ Carried(job.root, q)'
    <3>1. q \in Path
      BY <1>2, <2>2
    <3>2. CASE q \in good
      BY <2>1, <2>2, <3>1, <3>2
    <3>3. CASE Carried(job.root, q)
      <4>1. ASSUME NEW r, r = job.root
            PROVE  <<r, q>> \in missed' \/ Carried(r, q)'
        BY <1>7, <3>1, <3>3, <4>1, CarriedStep DEF WorkerStep
      <4> QED BY <2>1, <4>1 DEF Carried
    <3>4. CASE <<job.root, q>> \in missed
      BY <1>7, <3>4, MissedStep DEF WorkerStep
    <3> QED BY <1>1, <2>2, <3>2, <3>3, <3>4 DEF LookedAt
  <2> QED BY <2>1, <2>2 DEF LookedAt
<1> QED BY <1>3, <1>4, <1>5, <1>6, <1>7 DEF WorkerStep

\* What goes stale is on its way at once, and stays so until a pass has written it.
LEMMA NoSilentLossStep ==
    ASSUME DaemonInv, [DaemonNext]_sysVars
    PROVE  NoSilentLoss'
<1>1. DaemonTypeOK /\ QueueInv /\ TypeOK /\ PassOfTheJob /\ LookedAt /\ NoSilentLoss /\ OfTheRows
  BY DEF DaemonInv, QueueInv
<1>2. SUFFICES ASSUME NEW e \in stale'
               PROVE  e \in missed' \/ InFlight(e[1], e[2])'
  BY DEF NoSilentLoss
<1>3. e = <<e[1], e[2]>> /\ e[1] \in Root /\ e[2] \in Path
  BY DaemonTypeStep, <1>2 DEF DaemonTypeOK, Event
<1>4. Carried(e[1], e[2])' => InFlight(e[1], e[2])'
  BY DEF Carried, InFlight
<1>5. InFlight(e[1], e[2]) => Carried(e[1], e[2])
                              \/ (job # Idle /\ job.root = e[1] /\ e[2] \in todo \cup good)
  BY DEF Carried, InFlight
<1>6. CASE Restart
  <2>1. e[1] \in boot'
    BY <1>1, <1>2, <1>6 DEF Restart, OfTheRows
  <2> QED BY <2>1 DEF InFlight
<1>7. CASE EndPass \/ RecordRaises
  <2>1. todo = {} /\ job # Idle
    BY <1>7 DEF EndPass, RecordRaises, Commits, PassSucceeds, PassRaises
  <2>2. e \notin Of(job.root, good)
    BY <1>1, <1>2, <1>7 DEF EndPass, RecordRaises, Commits, Of
  <2>3. e \in missed \/ Carried(e[1], e[2])
    <3>1. CASE e \in stale
      BY <1>1, <1>3, <1>5, <2>1, <2>2, <3>1 DEF NoSilentLoss, Of
    <3>2. CASE e \notin stale
      <4>1. scan = "look" /\ e[1] = job.root /\ e[2] \in Covered(job.paths) \ good
        BY <1>2, <1>3, <1>7, <3>2 DEF EndPass, RecordRaises, Commits, Of
      <4> QED BY <1>1, <1>3, <2>1, <4>1 DEF LookedAt
    <3> QED BY <3>1, <3>2
  <2>4. ~Restart /\ ~BeginPass /\ ~SkipPass
    BY <1>1, <2>1, <1>7 DEF EndPass, RecordRaises, Commits, PassSucceeds, PassRaises,
       BeginPass, SkipPass, WorkerTakes, Take, Restart, DaemonTypeOK
  <2> QED BY <1>3, <1>4, <1>7, <2>2, <2>3, <2>4, CarriedStep, MissedStep
<1>8. CASE FailPass
  <2>1. e \in stale /\ ~Restart /\ ~BeginPass /\ ~SkipPass /\ ~EndPass /\ ~RecordRaises
    BY <1>1, <1>2, <1>8 DEF FailPass, WorkerFails, PassRaises, Restart, BeginPass, SkipPass,
       EndPass, Commits, RecordRaises, WorkerTakes, Take, PassSucceeds, DaemonTypeOK
  <2>2. job # Idle /\ job.root = e[1] /\ e[2] \in todo \cup good => e \in missed'
    BY <1>3, <1>8, <2>1 DEF FailPass, Of
  <2> QED BY <1>1, <1>3, <1>4, <1>5, <2>1, <2>2, CarriedStep, MissedStep DEF NoSilentLoss
<1>9. CASE BeginPass \/ SkipPass
  <2>1. e \in stale /\ ~Restart /\ ~EndPass /\ ~RecordRaises /\ job = Idle
    BY <1>2, <1>9 DEF BeginPass, SkipPass, WorkerTakes, Take, Restart, EndPass, RecordRaises,
       PassSucceeds, PassRaises
  <2>2. job' # Idle
    BY <1>1, <1>9, TakeFromHints DEF BeginPass, SkipPass, WorkerTakes
  <2>3. job'.root = e[1] /\ e[2] \in Covered(job'.paths) => e \in missed' \/ InFlight(e[1], e[2])'
    BY <1>3, <1>9, <2>1, <2>2 DEF BeginPass, SkipPass, Of, InFlight
  <2> QED BY <1>1, <1>3, <1>4, <1>5, <2>1, <2>3, CarriedStep, MissedStep DEF NoSilentLoss
<1>10. CASE RecordFailure \/ WorkerDies
  <2>1. e \in stale /\ todo = {} /\ good = {}
    BY <1>1, <1>2, <1>10 DEF RecordFailure, WorkerDies, HandlerRecords, HandlerRaises,
       daemonVars, PassOfTheJob
  <2>2. ~Restart /\ ~BeginPass /\ ~SkipPass /\ ~EndPass /\ ~RecordRaises
    BY <1>1, <1>10 DEF RecordFailure, WorkerDies, HandlerRecords, HandlerRaises, Restart,
       BeginPass, SkipPass, EndPass, RecordRaises, WorkerTakes, Take, PassSucceeds, PassRaises,
       daemonVars, DaemonTypeOK
  <2> QED BY <1>1, <1>3, <1>4, <1>5, <2>1, <2>2, CarriedStep, MissedStep DEF NoSilentLoss
<1>11. ASSUME NEW p \in Path, Look(p)
       PROVE  e \in missed' \/ InFlight(e[1], e[2])'
  <2>1. /\ e \in stale /\ UNCHANGED job /\ todo' = todo \ {p} /\ good \subseteq good'
        /\ p \in good' \/ <<job.root, p>> \in missed'
        /\ missed \subseteq missed'
    BY <1>2, <1>11 DEF Look, Of, allVars, jobsVars
  <2>2. Carried(e[1], e[2]) => Carried(e[1], e[2])'
    BY <1>11 DEF Look, Carried, allVars, jobsVars, watchVars
  <2> QED BY <1>1, <1>3, <1>4, <1>5, <2>1, <2>2 DEF NoSilentLoss, InFlight
<1>12. ASSUME ~Restart, ~WorkerStep,
              \A q \in Path : ~Look(q)
       PROVE  e \in missed' \/ InFlight(e[1], e[2])'
  <2>1. /\ UNCHANGED <<job, scan, todo>>
        /\ \A q \in Path : q \in good =>
              q \in good' \/ <<job.root, q>> \in missed' \/ Carried(job.root, q)'
        /\ e \in stale \/ e \in missed' \/ Carried(e[1], e[2])'
    BY <1>2, <1>12, PassOnlyByItsSteps
  <2>2. CASE e \in stale /\ InFlight(e[1], e[2])
    <3>1. CASE Carried(e[1], e[2])
      BY <1>3, <1>4, <1>12, <3>1, CarriedStep DEF WorkerStep
    <3>2. CASE job # Idle /\ job.root = e[1] /\ e[2] \in todo \cup good
      <4>1. e[2] \in todo' \cup good' \/ e \in missed' \/ Carried(e[1], e[2])'
        BY <1>3, <2>1, <3>2
      <4> QED BY <1>4, <2>1, <3>2, <4>1 DEF InFlight
    <3> QED BY <1>5, <2>2, <3>1, <3>2
  <2>3. CASE e \in missed
    BY <1>12, <2>3, MissedStep DEF WorkerStep
  <2> QED BY <1>1, <1>4, <2>1, <2>2, <2>3 DEF NoSilentLoss
<1> QED BY <1>6, <1>7, <1>8, <1>9, <1>10, <1>11, <1>12 DEF WorkerStep

----------------------------------------------------------------------------
(* The daemon *)

\* All parts of the invariant hold in every reachable state of the daemon.
LEMMA DaemonInvHolds == DaemonSpec => []DaemonInv
<1>1. DaemonInit => DaemonInv
  <2> SUFFICES ASSUME DaemonInit
               PROVE  DaemonInv
    OBVIOUS
  <2>1. QueueInv
    BY EmptySeq DEF DaemonInit, Init, QueueInv, TypeOK, RunningIsInHand, OneEntryPerRoot
  <2>2. DaemonTypeOK
    <3>1. WatchTypeOK
      BY WatchAssumption DEF DaemonInit, WatchInit, WatchTypeOK, Event
    <3> QED BY <2>1, <3>1, DaemonAssumption
            DEF DaemonInit, DaemonTypeOK, WatchTypeOK, QueueInv, Event
  <2>3. OfTheRows /\ LoopKnows /\ PassOfTheJob /\ LookedAt
    BY DEF DaemonInit, Init, WatchInit, OfTheRows, LoopKnows, PassOfTheJob, LookedAt
  <2>4. NoSilentLoss
    BY DEF DaemonInit, NoSilentLoss, InFlight
  <2> QED BY <2>1, <2>2, <2>3, <2>4 DEF DaemonInv
<1>2. DaemonInv /\ [DaemonNext]_sysVars => DaemonInv'
  BY QueueInvStep, DaemonTypeStep, OfTheRowsStep, LoopKnowsStep, PassOfTheJobStep,
     LookedAtStep, NoSilentLossStep DEF DaemonInv
<1> QED BY <1>1, <1>2, PTL DEF DaemonSpec

\* Every variable of the queue, the watcher and the daemon keeps its type.
THEOREM DaemonTypes == DaemonSpec => []DaemonTypeOK
<1>1. DaemonInv => DaemonTypeOK
  BY DEF DaemonInv
<1> QED BY <1>1, DaemonInvHolds, PTL

\* A stale row is in somebody's hands from the move of its file to the commit
\* that heals it, across the watcher, the queue, the pass and any restart, or
\* it is one of the losses the design leaves to the scan.
THEOREM NothingSilentlyLost == DaemonSpec => []NoSilentLoss
<1>1. DaemonInv => NoSilentLoss
  BY DEF DaemonInv
<1> QED BY <1>1, DaemonInvHolds, PTL
=============================================================================
