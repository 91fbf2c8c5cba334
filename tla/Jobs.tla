-------------------------------- MODULE Jobs --------------------------------
(***************************************************************************)
(* graphrag.jobs: the queue between the threads that ask for index passes  *)
(* (the watcher, the HTTP handlers, the start of the daemon) and the one   *)
(* worker thread that runs them.  Every method of Queue runs under one     *)
(* lock, so each is one step here.                                         *)
(***************************************************************************)
EXTENDS Hints, Sequences, Functions

CONSTANTS
    Root,   \* the projects: resolved absolute paths
    Idle    \* no job in the worker's hands

ASSUME JobsAssumption ==
    /\ \A r \in Root, h \in Hint : [root |-> r, paths |-> h] # Idle
    /\ \A r \in Root, p \in SUBSET Path : [root |-> r, looks |-> p] # Idle

VARIABLES
    waiting,  \* Queue._waiting, the roots in the order they will be taken
    hints,    \* Queue._hints, a dict: root -> hint
    running,  \* Queue._running
    job,      \* the job the worker holds, or Idle
    worker,   \* "up", "handling" an exception, or "dead": one left run_worker
    writable, \* can the registry file be read and written?
    failing,  \* the roots whose registry row carries last_error
    asked     \* history: the paths asked for since r was last taken

queueVars == <<waiting, hints, running>>
jobsVars == <<waiting, hints, running, job, worker, writable, failing, asked>>

Job == [root : Root, paths : Hint]

TypeOK ==
    /\ waiting \in Seq(Root)
    /\ DOMAIN hints \subseteq Root
    /\ hints \in [DOMAIN hints -> Hint]
    /\ running \subseteq Root
    /\ job \in {Idle} \cup Job
    /\ worker \in {"up", "handling", "dead"}
    /\ writable \in BOOLEAN
    /\ failing \subseteq Root
    /\ asked \in [Root -> SUBSET Path]

Init ==
    /\ waiting = <<>>
    /\ hints = [r \in {} |-> Whole]
    /\ running = {}
    /\ job = Idle
    /\ worker = "up"
    /\ writable = TRUE
    /\ failing = {}
    /\ asked = [r \in Root |-> {}]

----------------------------------------------------------------------------
\* dict[key] = value, and dict.pop(key).
Put(dict, key, value) ==
    [k \in DOMAIN dict \cup {key} |-> IF k = key THEN value ELSE dict[k]]

Without(dict, key) == Restrict(dict, DOMAIN dict \ {key})

\* Slips: a dedup that also covers the running job, one that merges and still
\* appends, and a queue that puts the newest request first.
SubmitOnce(r, paths) ==
    /\ IF r \in running \cup DOMAIN hints
       THEN UNCHANGED queueVars
       ELSE /\ hints' = Put(hints, r, Capped(paths))
            /\ waiting' = Append(waiting, r)
            /\ UNCHANGED running
    /\ asked' = [asked EXCEPT ![r] = @ \cup Covered(paths)]
    /\ UNCHANGED <<job, worker, writable, failing>>

SubmitAgain(r, paths) ==
    /\ hints' = Put(hints, r, IF r \in DOMAIN hints THEN Merge(hints[r], Capped(paths))
                                                    ELSE Capped(paths))
    /\ waiting' = Append(waiting, r)
    /\ asked' = [asked EXCEPT ![r] = @ \cup Covered(paths)]
    /\ UNCHANGED <<running, job, worker, writable, failing>>

SubmitInFront(r, paths) ==
    /\ IF r \in DOMAIN hints
       THEN /\ hints' = Put(hints, r, Merge(hints[r], Capped(paths)))
            /\ waiting' = waiting
       ELSE /\ hints' = Put(hints, r, Capped(paths))
            /\ waiting' = <<r>> \o waiting
    /\ asked' = [asked EXCEPT ![r] = @ \cup Covered(paths)]
    /\ UNCHANGED <<running, job, worker, writable, failing>>

\* Queue.submit.  The dedup is asymmetric: a waiting job is merged into, and a
\* running one is no reason not to queue again.
Submit(r, paths) ==
    /\ IF r \in DOMAIN hints
       THEN /\ hints' = Put(hints, r, Merge(hints[r], Capped(paths)))
            /\ waiting' = waiting
       ELSE /\ hints' = Put(hints, r, Capped(paths))
            /\ waiting' = Append(waiting, r)
    /\ asked' = [asked EXCEPT ![r] = @ \cup Covered(paths)]
    /\ UNCHANGED <<running, job, worker, writable, failing>>

\* Queue.take and _pop.  A root with no hint stored reads as None, the scan.
Take ==
    /\ worker = "up"
    /\ job = Idle
    /\ waiting # <<>>
    /\ LET key == Head(waiting)
           paths == IF key \in DOMAIN hints THEN hints[key] ELSE Whole
       IN  /\ job' = [root |-> key, paths |-> paths]
           /\ hints' = Without(hints, key)
           /\ running' = running \cup {key}
           /\ asked' = [asked EXCEPT ![key] = {}]
    /\ waiting' = Tail(waiting)
    /\ UNCHANGED <<worker, writable, failing>>

\* Queue.drain.  What is running is not touched.
Drain ==
    /\ waiting' = <<>>
    /\ hints' = Restrict(hints, {})
    /\ asked' = [r \in Root |-> {}]
    /\ UNCHANGED <<running, job, worker, writable, failing>>

\* A slip: `done` is skipped when the pass raised.
DoneIfUp ==
    /\ running' = IF worker = "up" THEN running \ {job.root} ELSE running
    /\ job' = Idle

\* Queue.done, and the worker back at the top of its loop.
Done ==
    /\ running' = running \ {job.root}
    /\ job' = Idle

\* index_once and index.record both returned, and record wrote the row.
PassSucceeds ==
    /\ worker = "up" /\ job # Idle
    /\ writable
    /\ failing' = failing \ {job.root}
    /\ Done
    /\ UNCHANGED <<waiting, hints, worker, writable, asked>>

\* index_once raised, or record did because the registry cannot be written.
PassRaises ==
    /\ worker = "up" /\ job # Idle
    /\ worker' = "handling"
    /\ UNCHANGED <<waiting, hints, running, job, writable, failing, asked>>

\* The handler writes the failure into the row.
HandlerRecords ==
    /\ worker = "handling"
    /\ writable
    /\ failing' = failing \cup {job.root}
    /\ worker' = "up"
    /\ Done
    /\ UNCHANGED <<waiting, hints, writable, asked>>

\* The handler's own mark_indexed raised.  The finally clause still runs, and
\* the exception then leaves run_worker: nothing restarts the thread.
HandlerRaises ==
    /\ worker = "handling"
    /\ ~writable
    /\ worker' = "dead"
    /\ Done
    /\ UNCHANGED <<waiting, hints, writable, failing, asked>>

\* Outside the program: the disk fills up, or somebody makes room.
RegistryFlips ==
    /\ writable' = ~writable
    /\ UNCHANGED <<waiting, hints, running, job, worker, failing, asked>>

Next ==
    \/ \E r \in Root, paths \in Request : Submit(r, paths)
    \/ Take
    \/ Drain
    \/ PassSucceeds
    \/ PassRaises
    \/ HandlerRecords
    \/ HandlerRaises
    \/ RegistryFlips

Spec == Init /\ [][Next]_jobsVars

\* The worker thread is scheduled, and a pass ends: it parses a finite tree.
Fairness ==
    /\ WF_jobsVars(Take)
    /\ WF_jobsVars(PassSucceeds \/ PassRaises)
    /\ WF_jobsVars(HandlerRecords \/ HandlerRaises)

FairSpec == Spec /\ Fairness

----------------------------------------------------------------------------
(* Invariants *)

\* The deque and the dict hold the same roots, each once.  Without it `_pop`
\* finds no hint and silently runs a scan, or a hint waits and is never taken.
OneEntryPerRoot ==
    /\ \A i, j \in DOMAIN waiting : waiting[i] = waiting[j] => i = j
    /\ {waiting[i] : i \in DOMAIN waiting} = DOMAIN hints

\* Every path asked for since the root was last taken is covered by the job
\* that waits for it, through any number of merges and past the limit.
NoAskLost ==
    \A r \in Root : asked[r] # {} =>
        /\ r \in DOMAIN hints
        /\ asked[r] \subseteq Covered(hints[r])

\* No merge builds a hint longer than one scan is worth.
HintBounded ==
    \A r \in DOMAIN hints :
        hints[r] # Whole => Cardinality(hints[r]) <= MaxPaths

\* What the queue calls running is exactly the job in the worker's hands, also
\* after a pass raised and after its handler did: the verdict "requeued" and the
\* end of the handler rest on it.
RunningIsInHand ==
    /\ running = IF job = Idle THEN {} ELSE {job.root}
    /\ worker = "handling" => job # Idle

(* Temporal properties *)

\* One worker and a first-in first-out queue: while the worker lives no project
\* starves another, however often the other is asked for again.
EveryAskIsTaken ==
    \A r \in Root : asked[r] # {} ~> (asked[r] = {} \/ worker = "dead")

\* jobs.py: "A worker that dies on one project stops indexing every other
\* one", which is what the handler in run_worker is there to prevent.
WorkerOutlivesItsPasses == worker # "dead"

\* The pass in hand as Serializer sees it: the set it looks at.
InHand ==
    IF job = Idle THEN Idle
    ELSE [root |-> job.root, looks |-> Covered(job.paths)]

Promise == INSTANCE Serializer WITH inHand <- InHand

\* The queue keeps Serializer's promise.
KeepsPromise == Promise!Spec
============================================================================
