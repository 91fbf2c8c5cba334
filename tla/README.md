# A verification project for graphrag

TLA+ modules, TLC configurations and TLAPS proofs about the indexing daemon in
`src/src/graphrag`. Paths of modules below are relative to that directory.

## The system

graphrag keeps one code graph per project: an SQLite file that a pass over the
project's files brings up to date, and that queries read. One daemon serves all
projects. It runs these threads and talks to these processes:

| who | runs | touches |
|---|---|---|
| watcher thread | `watch._loop` | the queue, the pruner, `_intent`, `_rearm`, `_stamp` |
| watch child (process) | `watchchild.main` | inotify; a pipe to the watcher |
| indexer thread | `jobs.run_worker` | takes jobs, runs `index.index_once`, writes the registry row |
| request threads | `tools.enroll`, the query tools | registry, queue, `watch.rearm_if_changed` |
| command line (processes) | `cmd_index`, `cmd_forget`, `cmd_prune` | the same stores and registry, beside the daemon |

Shared state: `projects.json` (every mutation under one flock), the in-memory
queue, the in-memory pruner, one SQLite file per project (WAL, one transaction
per pass), and the `.trash` directory.

The rule of the design is that *the hint buys latency and the scan buys
correctness*: the watcher names paths that moved and the pass looks at those
only; a pass without a hint compares the digest of every file with its row, and
is what heals everything the watcher missed.

### Components

State, operations and what makes each correct. The status of each one is in
`PROJECT.json`, under "components".

* **Queue and worker** (`jobs.py`). A deque of roots, a dict of hints, the set
  running. `submit` merges into a job that waits and never into one that runs;
  `take`, `done`, `drain`; `run_worker` records a failed pass in the registry.
  Correct when no path asked for is lost, no project starves, and hints stay
  bounded.
* **Index pass** (`index.py`, `discover.py`, `store.py`, `indexwrite.py`). The
  `files` rows, the graph, and the algorithm stamp. Correct when a row ends up
  with the digest of the file, a row leaves only for a reason, and the stamp is
  a witness of a whole scan, under crashes, moving files and a second writer.
* **Watcher** (`watch.py`, `watchchild.py`). The watched set and its flags.
  Correct when a change is handed on or known to be lost, and the watched set
  follows the registry.
* **Daemon** (`server.py`) and **enrolment** (`tools.py`, `federation.register`).
  Correct when whatever a dead process, a dropped batch or a late watch loses is
  covered by a scan.
* **Registry, federation, pruner, quarantine** (`registry.py`, `federation.py`,
  `prune.py`, `quarantine.py`, `cli.py`). Rows with a direct flag and the roots
  that claim them; deletions that wait out a grace period; stores moved aside.
  Correct when a claim leaves only when somebody gave it up or its project was
  deleted, and no graph of an enrolled project is removed.
* **Extraction** (`extract.py`, `symtab.py`, `receivers.py`). What one file says:
  definitions with their parents, references with their scopes, import rows, and
  the module a path or an import names. Correct when an import reaches the file
  it means.
* **Resolution** (`resolve.py`, `resolvedb.py`). The candidates of a reference,
  ranked: from the file alone when it is written, over all the rows when it is
  read. Correct when the two codes agree and other files cannot change a
  decision that was stored.
* **Store and graph writing** (`indexwrite.py`, `store.py`). Rows of files,
  nodes, edges, references and imports, and the full-text index over the nodes.
  Correct when any sequence of partial passes leaves what one pass would write.
* **SCIP overlay** (`scip/`). Compilers' indexes merged into the transaction,
  one build unit after another, each graded before it is merged. Correct when an
  edge at confidence 1 is what the compiler says of the stored text, replaces
  the candidates it had, and no good index is refused.
* **Queries** (`derive.py`, `query.py`, `dbread.py`, `traverse.py`, `fanout.py`).
  An edge inside a file is stored, one between files is derived on read. Correct
  when a call is counted once, callers and callees mirror each other, and a walk
  or a fan-out has the answer of the plain loop.
* **Health rule** (`health.py`, `server.healthz`). Two samples of the daemon.
  Correct when it pages for what lasts and for nothing else.
* **Configuration, progress, ledger, service files.** Sequential, pure or I/O;
  see `PROJECT.json` for the reasons.

The hard behaviours: threads share flags without a lock; a file is opened twice
in a pass; a second process writes the same store and commits what it read
before; an exception ends a thread that nothing restarts; a job, a hint, a batch and a
pending deletion live in memory only; the volume of a project may go away and
come back; a handler of failures can fail.

## The modules

| module | models | extends |
|---|---|---|
| `Hints` | the hint of a job: cap, merge, what it covers | |
| `Serializer` | what the queue promises, without deque or hints | |
| `Jobs` | `jobs.Queue` and `run_worker` | `Hints` |
| `Pass` | `index_once` step by step over one store | `Hints` |
| `Watch` | `watch._loop`, the child, `enroll`, with the queue | `Jobs` |
| `Daemon` | the whole chain from a moved file to its row, with restarts | `Watch` |
| `Claims` | what the registry promises: a set of claims, without rows | |
| `Fleet` | `registry`, `federation`, `prune`, and the commands `forget` and `prune` | |
| `MCFleet` | `Fleet` with one workspace and one member, for TLC | `Fleet` |
| `Names` | `symtab`: which module a path is and an import names | |
| `Facts` | `extract`: what one file's captures say | `Names` |
| `Resolve` | `resolve`: the candidates of a reference | `Facts` |
| `Store` | the rows as `dbread` and `resolvedb` read them | `Resolve` |
| `Graph` | `indexwrite`, the transaction of a pass and the overlay in it | `Store` |
| `Answers` | `derive`, `traverse`, `query`, `fanout` | `Store` |
| `Offsets` | `scip.offsets` and the ranges of `scip.read` | |
| `Health` | `health.check` and the reply of `healthz` | |
| `Engine` | the writing half and the asking half together | `Graph`, `Answers`, `Offsets`, `Health` |
| `MCGraph` | `Engine` with three TypeScript files, for TLC | `Engine` |
| `JobsProofs`, `PassProofs`, `FleetProofs`, `ResolveProofs` | the theorems | `Jobs`, `Pass`, `Fleet`, `Resolve` |
| `DaemonProofs` | the theorems about the whole chain | `Daemon`, `JobsProofs` |
| `GraphProofs` | the theorems about what is stored | `Graph`, `ResolveProofs`, `Induct` |
| `EngineProofs` | the theorems about what is answered | `Engine`, `GraphProofs` |
| `Induct` | induction over the naturals, for recursive functions | |

**Hints.** `Whole` is Python's `None`. `Capped` and `Merge` are `_capped` and
`_merge`: over the limit a hint widens and is never cut.

**Jobs.** `waiting`, `hints` and `running` are the queue's fields of these
names. Each method runs under one lock and is one action. `run_worker` is
several: a pass that returns and is recorded (`PassSucceeds`), one that raises
(`PassRaises`), and the handler that writes the failure (`HandlerRecords`) or
raises itself because the registry cannot be written (`HandlerRaises`), after
which the thread is gone. `asked` is a history variable: the paths asked for
since the root was last taken.

**Pass.** A file is its content; its digest and the facts parsed from it stand
for it, so that the digest a row holds (`sha`) and the content its nodes came
from (`graph`) can be compared with the file. A pass is a record: what it looks
at, the rows it read at the start, the digests it took and the facts it read,
one file a step. `Commit` is the one transaction: it writes what the pass hashed
over whatever the rows hold by then. `BeginRebuild` unlinks an old store under
whoever has it open: that pass becomes an `orphan`. It is one step from the
question whether the store is compatible to the opened new one. Abort at any
step is a kill or an exception. `vouched` and `seen` are histories, and so are,
in the pass record, `touched` (the files that moved since it began) and
`overtaken` (the rows another writer has rewritten since). The two are kept
apart, because an overtaken path may still be one whose file never moved.

**Watch.** `intent` and `rearm` are `_intent` and `_rearm`; `_armed`, which
nothing but the tests reads, is left out, so that the top of the loop is one
read of the rows. `moved` says whether the registry file differs from `_stamp`.
`wpc` is the place of the loop, or "dead". `live` and `pending` are the child's:
the roots whose watches are in place, and the events it holds. An `OSError`
anywhere in the body (`ChildRefuses`, `ChildFails`, `BodyFails`: the child, the
tests of a deletion, run_due, the tick) loses the batch in hand and what the
child holds. While the registry cannot be read the loop may end for good
(`LoopDies`): the rows at its top are read outside the `try`, and what
`registry.load` raises is no `OSError`. `rearm_if_changed` is two steps (the
stat that consumes the stamp, the comparison) because two threads run it with no
lock, and the second may raise (`EnrolRaises`). `enrol` is the place of
`tools.enroll`. `WatchNext`, the watcher by itself, has a registry that can be
read and written; `DaemonNext` has the other one too.

**Daemon.** Adds the start (`Boot`), the pass as a sequence of `Look` steps, the
moves of files, the restart, and a registry that breaks and mends. A file is
fresh or stale; `missed` is the history of what was lost in a way the design
names. A pass that committed may fail at the registry row (`RecordRaises`); the
handler's own write may fail too, and the worker is gone (`WorkerDies`) until a
restart.

**Fleet.** `rows` is `projects.json`: a project's direct flag and the roots that
claim it. `claim`, `release` and `forget` run under one flock, and are the
operators `Claimed`, `Released` and `Forgotten` of one step each; what calls
them is not atomic. `en` is the place of `federation.register` (the root, the
walk, one claim a step), `pr` that of `Pruner.run_due` with its local variables
(what it took and has still to look at, `dead`, the graphs to retire, the roots
to sweep, and what the sweep of the root in hand is going to claim and release),
`asked` and `cmd` that of `cmd_forget`. `doomed` is what `prune_unclaimed` has
found and is deleting: it holds the lock meanwhile, and `LockIsFree` is a
conjunct of every step that takes it. `gone` and `unlinked` are the pruner's
dicts; a due time is one of "waits" and "due", and `GraceEnds` lets it pass at
any moment. run_due takes, loads, looks at one path after another and forgets, a
step each, and may raise at every one (`RunDueRaises`). The watcher thread also
runs the pruner, so `NoteGone` and `NoteUnlinked` need `pr` idle. `there`,
`parents`, `away`, `links` and `broken` are the disk: directories and their
parents, one volume, the member links, and the project files that do not parse.
`looks_deleted` asks for the parent, which may be deleted after its project
(`FlipParent`) and goes with the volume but for the projects `Under` its mount
point. `stores` are the graph directories; `Pass` makes one at any time, because
the queue is in `Jobs` and a job outlives the row of its project. `noted` is a
history: the deletions the pruner was told of and can still see: until the
directory is back, its parent goes, its volume leaves, run_due raises with it in
hand, or the daemon restarts.

`Claims` is the abstract side: claims are made by anybody, given up one at a time
by the root whose they are, and taken from others only together with a project
that was condemned a step before. `KeepsClaims` is the refinement, with the
condemned projects read off `asked` and the pruner's `dead`.

**Names, Facts, Resolve.** Operators without state. A path is a directory, a stem
and a language; a module is the tag of its spelling and segments; an import row
keeps its leading dots. A text is external: whether it parses, and the captures
of its definitions, references and imports with their byte ranges. `Extract`
links them. In `Resolve` the tiers of a candidate (`SameClass` .. `GlobalUnique`,
confidence in thousandths) are one ranking, `Resolved`, over inputs that three
readers fill: `FileInputs` from the file alone, `TableInputs` from the facts of
all files, `StoreInputs` (in `Store`) from the rows.

**Store and Graph.** `store` is the database file as a reader sees it, one field
a table; a node is identified by its path and the range of its identifier, as in
`_node_id`. `pass` is the transaction under way with its own view of the tables.
`Begin` reads, forgets and writes (`Forget`, `Written`); how a pass learns what
moved is in `Pass`, and here it is one step. `Overlay` takes the next build
unit: its indexer runs now and writes a document for each file below it or for
all but one, or an older artifact stands in its place; `Covers` grades it, and
it is merged or refused. A merge describes the nodes (`Described`) and then
rewrites the calls over them (`Rewritten`). `Commit` publishes the view, and
rebuilds the full-text index after an overlay. Files move between all of these
(`Edit`), the plan changes (`Replan`), and a pass dies (`Abort`). `raced` is a
history: files that moved under the pass that wrote what is stored of them.

**Answers and Engine.** `StoredHop` is a walk of one step, `UpstreamRefs` and
`DownstreamRefs` derive the edges that leave a file, `Neighbors` merges the two
and `Radius` goes level by level. `StoredHop` keeps every row of the edges that
tie in their node, and `Merged` the best of them, where the `GROUP BY` of
`traverse._WALK` keeps one that SQLite picks; the two differ only in the kind,
the confidence and the evidence told of that row. `FindSymbol` is the fan-out
over members, by windows. `Engine` joins them with the store that the passes
write, and states what must hold between them.

**Offsets and Health.** Rules without state, evaluated over small inputs in the
first state of the run `graph`. In `Offsets` a character is its width in UTF-8
and UTF-16. In `Health` a check is a function of what the last one noted and of
a reply.

## The runs

| run | asks | bounds |
|---|---|---|
| `jobs` | is anything lost, doubled, starved or unbounded in the queue; does it implement `Serializer` | 2 projects, 3 paths, limit 2 |
| `pass` | one writer, hinted and whole; does a whole scan take ignored files out | 2 paths, one ignored by git, 2 contents |
| `pass_two` | the daemon's worker beside `graphrag index`: what does a pass know, and which commits spoil a row | 1 path, 2 contents, 2 writers |
| `daemon` | is a stale row always in somebody's hands, and is it healed in the end | 1 project that may go away, 2 moves, 2 faults |
| `fleet` | do enrolments, sweeps, the pruner and the commands keep each other's claims; is a noted deletion acted on; does `prune` spare who enrols beside it | 2 projects on one volume, the member right under its mount point; 3 moves of the world, exceptions among them |
| `graph` | is the store what one pass would write, is every scip edge the compiler's, do questions have one answer; and the stateless rules | 3 files in 2 units, 2 texts each; 1 move |
| `jobs_worker` | does the worker outlive its passes: **no** | |
| `pass_torn` | does a scan that finds a digest equal leave a right graph: **no** | |
| `pass_late` | does a checked row stay right while its file stays: **no** | as `pass_two` |
| `watch_rearm` | does the watched set follow the registry: **no** | |
| `fleet_away` | does a member on an unmounted volume keep its row: **no** | as `fleet`, the volume holds the member alone |
| `graph_lost` | does every call keep an edge or a row: **no** | as `graph` |

Why the bounds are enough. In `jobs` three paths and a limit of two are the
least with which a merge, and not only a request, crosses the limit; two
projects are the least with which one can starve the other, and the queue treats
projects alike. In `pass` a second path is what a hint does not name, and
the listed and the ignored path take different ways through `Candidates`; two
contents and absence give every change there is (created, edited, reverted,
deleted). A third writer would only repeat what the second does to the first,
and the proofs in `PassProofs` are for any number. In `daemon` two moves
and two faults let a second fault hit the recovery of the first, and a file move
again under the pass that was to heal it; the volume, the registry, the child, the
body of the loop, a pass and the whole daemon share the faults. Projects meet
only in the queue, where `jobs` has two of them, and the theorem about the composed
system is for any number (the invariants of the run hold of two projects as well: six
million states, more than a run may take). `CHECK_DEADLOCK FALSE` is said there
because the system may really stop: both threads ended, the volume away and no
restart left.
In `fleet` three moves are the least in which a deletion or a removed link
can be undone and the volume can leave before the grace period ends; a second
member or a second root meets the first only in the rows, and there the proofs
are for any number. One enrolment and one command run at a time, beside the
pruner. In `graph` one move of the world is enough for each hazard: an artifact
grows old under one edit, a file races the pass that reads it, a target is
forgotten under a call, the plan changes. Passes are not bounded: hinted ones for
any set of paths, whole and forced ones follow each other in every order. Two
units, one below the other, are the least with a unit that owns fewer files than
stand below it; three files the least with a call into the same unit and one
into another; and the second text of each file puts other definitions at the
bytes of the first. `CHECK_DEADLOCK FALSE` is said there because with the move
spent and everything up to date nothing is left to do. The stateless rules run
over all imports between some forty files of five languages, all texts of three
characters of every width, all sequences of three replies, and all answers of
four members. `MaxMoves`, `MaxFaults` and `MaxEdits` are the only bounds in guards;
all other variables are finite by themselves.

The runs that expect a violation each state what a comment or a test says,
and are listed with the quotation under "findings".

### Fairness

`Jobs!Fairness`: the worker thread is scheduled and a pass over a finite tree
ends. `DaemonFairness`: the watcher loop, the enrolling thread, the start and
the worker run. Weak fairness is enough throughout: each of these threads does
nothing else and is disabled by nobody. No fairness is given to moves of files,
faults, restarts, enrolments or the child's failures; that they stop in `daemon`
comes from the bounds, and `EventuallyFresh` says what happens once they do.
`Graph` and `Fleet` state no fairness and no liveness: what a pass or a sweep
does when it runs is their subject, that it runs is `Daemon`'s.

## What is proved

For any number of projects, paths, writers, units and passes and any limit.
Every safety invariant and action property over the state that a passing run
checks is a theorem, two of them for a named kind of input
(`NothingCountsTwice`, `CompleteIsTaken`) and one for a single writer
(`RowsAreVouched`); so is the refinement of `Serializer` and of `Claims`. The
assumptions on the constants are named and TLC evaluates them:
`HintsAssumption`, `JobsAssumption`, `PassAssumption`, `WatchAssumption`,
`DaemonAssumption`, `FleetAssumption`, `ResolveAssumption` (the floor is a
number), and `GraphAssumption`: a tree has finitely many files, offsets count
from 0, of the references of one kind and one name at a byte the facts have one
(`_dedup`), no scope (`Top`) is an offset, the indexer does not call itself
`treesitter`, a directory is a sequence, the two floors are numbers, and the
names of directories have a strict total order (`sorted` in `scip/run.py:142`);
`NamesAssumption`: what is lower case stays as it is in lower case, and a host
name has a dot; and `EngineAssumption`: a directory is a sequence, the answer of
a project is one, and a reply of `/healthz` counts the queue from 0 and names
projects by their roots, which the two identities of `health.py` are not.

* `JobsProofs`: `TypeCorrect`, `QueueTypes`, `QueueConsistent`, `NothingLost`,
  `Bounded`, `Implements`.
  The inductive invariant adds to the type that `running` is the job in the
  worker's hands (without it `Done` could leave a root behind) and that the
  deque and the dict agree (without it `Take` might clear `asked` for a root
  whose hint it did not find). `NothingLost` rests on the lemma that a merge
  covers what both its arguments cover, also over the limit. `Implements` maps
  the job in hand to the set of paths it covers; every action is a step of
  `Serializer` or leaves its variables alone.
* `PassProofs`: `PassTypeCorrect`, `PassesAreCurrent`, `RowsAreVouched`,
  `SpoiltOnlyWhenDisturbed`, `StampWitnesses`, `RowsMeetNodes`,
  `RowsLeaveOnlyForAReason`, `WholeScansClear`.
  `PassesAreCurrent` is for any number of writers: the digest a pass took of a file
  that did not move is right whatever the others commit; the row it read is right
  only where nobody has overtaken it. `Vouched` says that a checked row stays right,
  and has one writer for a hypothesis (`OneWriter`), because with two it is false: a
  pass that hashed early and commits late writes an older digest over a newer row
  (the run `pass_late`). Its proof needs that of one writer nobody is ever overtaken
  and that what is vouched for while a pass runs was vouched for before or is in its
  hands (`AloneAndWatched`). What is left with two is `SpoiltOnlyWhenDisturbed`: such
  a commit spoils a row only where the file moved while that very pass ran; it
  follows from the digests (`UndisturbedIsCurrent`) and from the shape of a commit
  (`CommitsWhatIs`).
  `StampWitnesses` needs besides that a pass over an unstamped store is a whole
  one (`RebuildsAreWhole`). `RowsAndNodesTogether` is inductive only with
  `FactsFollowTargets`: facts exist for exactly the targets read so far, so the
  commit writes a row and its nodes from one list. `RowsLeaveForAReason` needs
  `ScopeIsTheHint`, that a pass compares nothing with a row outside its hint;
  otherwise such a row would look removed. `WholeScanClearsIgnored` needs
  `IgnoredWillGo`: a whole pass either still has an ignored row before it or has
  it among the removed, unless another writer moved it.
* `DaemonProofs`: `DaemonTypes`, `NothingSilentlyLost`, about
  watcher, child, queue, worker, enrolment, restarts and a registry that breaks at
  any moment, composed. What
  holds of the queue alone is carried over by `QueueSteps`: a step of the daemon
  is a step of the queue, none of it, or its end at a restart. `NoSilentLoss` is
  not inductive. It needs who may hold what (`OfTheRows`: everybody holds
  projects with a row only, so that the scan at the start reaches all there
  was), what the loop knows (`LoopKnows`), that a pass runs exactly while the
  worker is at a job (`PassOfTheJob`), and the clause that was hardest to find,
  `LookedAt`: a path the pass has already looked at, and which is no longer what
  it saw, is on its way again or known to be missed. Without it the commit of
  the pass would be taken for the healing of a file that changed behind it. The
  theorem names its losses, and they are the code's: no watch in place, a batch
  dropped by a re-arm, by the child's end, by an error in the body of the loop or
  with the watcher thread itself, a pass that raised or found no root. A hint that
  waits for a worker that died is not lost: it waits for the restart, whose scan
  covers it; nothing says there will be one, and `EventuallyFresh` says so.
* `FleetProofs`: `FleetTypeCorrect`, `RowsAreClaimed`, `RowsKeepClaims`,
  `PruneWaitsForNobodys`, `NothingNotedIsDropped`.
  One lemma for each of the operators on rows says which claims it adds or
  takes, for any rows. The invariant `WellFormed` adds that no project is its
  own root and that the roots in the hands of an enrolment or a sweep are none
  of the members they are about to claim: without it a claim would be no claim
  (`claim` drops a root equal to the project) and leave a row nobody holds.
  `NothingNotedIsDropped` is inductive only together with "what is noted still
  looks deleted" (`Noted`), which is why the second look of run_due condemns it; what
  run_due had in hand when it raised, and a project whose parent directory went in the
  grace period, are dropped by the code and excused by the property.
  `PruneWaitsForNobodys` is about the lock: whoever makes a row waits while `prune`
  deletes. It says nothing of the pruner's own retirement, which takes no lock and may
  move the graph of a project that was enrolled again since the forget.
* `ResolveProofs`: `LocalDecision`. A reference is decided by its file when the
  best tier it reaches there is one no other file can reach (its own class, or
  its own file with a name that binds nothing from outside); so the candidates
  from all files rank below, and the narrowed pool is the same set.
* `GraphProofs`: `DecisionsStand`, `FtsFaithful`, `FirstIdentifierWins`,
  `GraphTypes`, `PassesAddUp`, `CompilerDecides`, `CompleteIsTaken`. The three before
  the last are one inductive invariant, `GraphInv`, and it holds of the store and of the transaction alike.
  `Whole` says what tables are: rows of their shapes with keys apart (`InOrder`);
  the references, the imports and the places of the nodes are exactly those of the
  stored texts, of the parser's nodes and edges none is other than theirs, and of
  theirs only calls are missing (`AsWritten`); edges run between nodes and a call
  stands at a call of its text (`EdgesHold`); where the compiler decided no other
  candidate is left (`Alone`); and the tool's edges say so (`Signed`). Neither
  `TypeOK` nor `IncrementalIsFromScratch` holds up by itself: an overlay that
  rewrites a call keeps the tables whole only because the caller it finds is a node
  (`CallerStands`), which rests on every edge and row standing at a call of its own
  text. `ScipEdgesStandAlone` needs `SaidOutside` on top: what the documents said
  is compared with the text stored, so the invariant also holds every artifact
  against the disk (`DocsHold`) and, for a pass that merges artifacts, what it
  stores against the disk (`PassHolds`), except for files that moved. The proofs go
  table by table: `RowsWith` and `RowsWithout` say that forgetting and writing a set
  of files is the same on the rows as on the texts, and each operator of a pass
  (`Forget`, `Written`, `Ingested`, `Rebuilt`) has a lemma that it keeps `Whole`.
  `FtsFaithful` needs
  the strengthening `FtsInv`: inside a transaction the postings may be wrong, but
  only while the pass is one that rebuilds them at its commit, and such a pass
  is the only one with units left. The lemma under it is that `forget_files`
  takes out the very postings of the nodes that go, because a posting says whose
  it is, also after the overlay has renamed the node.
  `CompleteIsTaken` is about what an indexer reports, and has that for a hypothesis:
  `IndexerIsThorough`, that of each single text it defines `DefShare` hundredths of
  the parser's nodes, which the documents of the run do; and a floor for files of at
  most all of them, which the environment may set otherwise. What is proved is that
  nothing else can refuse a complete artifact. The ranks of the units under a total
  order are all taken (`Ranked`), so that each unit is a directory with a
  declaration; of two directories above a file the shorter path is above the other
  (`AboveInOrder`), so that the files `_owns` gives a unit are those it is the nearest
  one above (`OwnerIsNearest`); the store has no more nodes of a file than the parser
  makes of it, whatever an earlier unit's overlay has done to them (`NoMoreNodes`,
  from `Whole`); and a share of every file is a share of their sum (`SumCovers`),
  where the sum, a fold over a set, is opened by `SumExists`.
* `EngineProofs`: `NothingCountsTwice`, `AnswersMirror`, `RadiusTellsShortest`,
  `ReadsAgree`, `WidthChangesNothing`, `PagesLast`, `RangesMeetBytes`,
  `ImportsMeet`. The first four read `GraphInv` and add no invariant of their own.
  `NothingCountsTwice` has a hypothesis, `OneCallAtAByte`: the tags queries name a
  call once. Two names at one byte, of which the file decides one, would leave it
  an edge and a row; the hypothesis is about the captures, and the texts of the run
  meet it. `AnswersMirror` relates the two searches by name and by body
  through `CallerEncloses`: the node `caller_node` answers with is a definition
  exactly if the reference stands in its body and in that of none inside it.
  `RadiusTellsShortest` is by induction on the depth: the level the walk has reached
  is what chains of that length reach and shorter ones do not (`BreadthFirst`); the
  lemma `RadiusTells` has it for any depth. `ReadsAgree` matches the
  definitions of a name in the facts with the nodes of that name in the tables, one
  to one (`SymbolHasNode`, `NodeHasSymbol`, `OneSymbol`), and shows that the rule
  then does the same on both sides: the pool is narrowed by paths alone, a candidate
  of another file earns its tier by its path alone, the share of a global match
  depends on the number only, and a reference its file did not decide has no
  candidate in its own file, so that the class around it is never asked for. Its
  proviso `AllAreNodes` names the cases where the two codes do differ: a definition
  that lost its node to an overlapping one, one that shares it, and the kind module.
  `WidthChangesNothing` and `PagesLast` are about rules without state, and their
  lemmas `WindowsAgree` and `PagesOf` hold for any input: any number of projects, any
  limit and any width, any number of checks. The argument is an invariant of the
  loop in each: behind a window the fan-out holds what the plain loop holds behind
  the last project of it or behind the one it stops at, whichever comes first
  (`WindowTakes`, `WindowsFollow`); and the state file holds what the last answered
  check failed with, the worker's row among it and the queue's row or not
  (`HistoryRemembers`). Whether it holds the queue's row decides nothing, which is
  why that row may be written down although it is not paged from there.
  `RangesMeetBytes` and `ImportsMeet` are about rules without state too, and what
  they rest on, `RangeReaches` and `ImportMeets`, holds for a text of any length and
  for any two files. The lines that `Offsets.build` has after each character lead to
  every place so far (`Held`): to its line, which starts with what stands before
  the place, and to the byte that line starts at; one character more keeps that
  (`ReachesStill`) and adds the next place (`HeldNext`). A column is then found
  again in the line, in UTF-16 units because a text takes at least as many as it has
  characters (`ColumnReads`). Two spellings of a module meet because the longest
  build directory of a path is also the one below which its package starts
  (`PackageIsStripped`), and because a build directory within what two paths share
  opens both (`RootsCarry`), so that the climb and the name lose the same head
  (`ClimbsBack`).

`Induct` is why recursive functions are not left out. The induction
theorems of the library take an operator as a parameter, which the provers cannot
instantiate; stated about a set (a set that holds 0 and the successor of each of its
members holds every natural) induction is first order, and `Recursion` shows that a
recursive function over the naturals exists and solves its equations, and
`RecursionUpTo` the same up to a bound. `Kept`, the walk of `Radius`, the chains of
`RadiusIsShortest`, the windows of `FindSymbol`, the checks of `After` and the lines
and widths of `Offsets` are opened with them.

What proving changed in the models. An identifier of no bytes, which a
grammar puts in for a missing token, overlaps nothing (`_overlaps`), so two
definitions may have one key, and the insert then makes them one node
(`NodesOf`). The module node of a file is found by its kind, and the overlay can
take that kind away (`ModuleNode`). A symbol that several nodes carry has one node
in `ingest` (`NodeFor`). A call without a caller is not rewritten. In a store with
such keys, or with a module that the overlay made something else, `AgreesOnRead`
was false of a name that neither code resolves to a node of its own, and
`AllAreNodes` now says so. `Importable` had missed three cases in which the two rules
of symtab differ: a directory called `index`, a file called like the build directory
it is the path of, and a climb out of the importer's own build directory. The trial
instances had held none of these; the files of the run now do, and without
any one conjunct of `Importable` the run finds a violation.

## Model-checked only

* Liveness, which needs ENABLED: `EveryAskIsTaken`, `EventuallyFresh`.
* The runs that find a violation.

## Seen beside the runs

Places where the code does not do what a comment or a reader expects, met while
modelling. The models do what the code does.

* `index.py:146` against its comment at 189-193: after a hinted pass, an unhinted
  pass that finds nothing changed and the same plan does not run the overlay, so
  the scip tier comes back only with a change.
* `scip/ingest.py:199` deletes the IMPLEMENTS edges of the tool in every unit: of
  several units only the last one's stay.
* `scip/ingest.py:41` compares an artifact with the time of the file, and the
  store holds a parse: a file edited between the two is joined at stale ranges. A
  failing indexer leaves an older artifact, which is then taken.
* `scip/__init__.py`: a plan that becomes empty returns before it is recorded, and
  the edges of the tool that is gone stay.
* `prune.py:189-199`: a directory that comes back between the look and the forget is
  forgotten all the same, and a project enrolled again before its graph is moved
  aside has a row and no graph until its next pass.
* `prune.py:182-194`: what `_take_due` has taken is nowhere else while the registry is
  loaded and written; when either raises, those deletions are not acted on. A project
  whose parent directory is gone too is let go at the second look.
* `watch.py:167`: a registry that cannot be read ends the watcher thread.
* `prune.py:41`: a project right under a mount point that stays looks deleted when
  the volume leaves; `verdict` at line 84 knows better and is only reported.
* `derive.py:167`: the docstring of `merge` excludes a stored and a derived edge
  between the same two nodes; with the overlay both occur, and the better one is
  kept. Of two stored edges between two nodes SQLite answers with either.
* `dbread.py:29-35`: definitions of kind module (namespaces, packages) are in the
  table of a pass and not in the pool of a query, which calls them external.
* `indexwrite.py:221`: a decided reference whose caller or target lost its node
  to an overlapping capture is neither an edge nor a row.
* `query.py:117-125`: the exact matches of a name are looked for among the first 20
  hits of the full-text index. `query.py:174-198` compares references with
  distinct nodes that answered, stored edges included, so the note about an
  understated answer may be missing.
* `symtab.py`: a dotted file called `index` or `mod` is taken for an initialiser,
  and a Go import of the repository's root package reaches no file. `./index` that
  means the directory `index` loses it; `src/main/java.py` keeps the directories an
  import of it leaves out; and Python's dots stop at the importer's build directory
  (`src/main/java`), above which the file may lie.
* `embed.py:47-57`: definitions of a second script block are appended without
  shifting the indexes of their parents and scopes.
* `health.py:54`: a queue that passes the threshold between two checks pages at the
  second, though it was not stuck at the first; `watching` is in the reply and in
  no check.

## Not modelled

The parser and its queries, the embedded languages, the grammar of SCIP symbols
and the protobuf decoder (strings and 64-bit words, taken apart unit by unit),
the readiness report, HTTP but for the body of healthz, and the service files.
Of queries: the full-text ranking that picks the start node of a name, the caps
on scanned rows (200000) with their notes, the longer walks of the trace tool,
and a question that spans a commit: each statement of one reads the store as it
is then (`dbread.py:78`). Several indexers in one plan: `Graph` has one, over
several units. Nested roots: `Watch` gives a path to one project. Members in an
enrolment: `Watch` enrols one project at a time. `RowsLeaveForAReason` excuses
every path of a root whose volume moved during the pass, because the code does
empty the graph then: it tests the directory once, at the start. Of the fleet:
the backups of the registry, the members a project file declares and its
exclusions, rows without a recorded device, what becomes of a graph in `.trash`,
and whether a pass is writing a graph that is moved aside.

## Plan

1. Done: `Hints`, `Jobs`, `Serializer`, `Pass`, `Watch`, `Daemon` with the
   theorems of `JobsProofs` and `PassProofs`; `Claims`, `Fleet` and
   `FleetProofs`.
2. Done: `Names`, `Facts`, `Resolve`, `Store`, `Graph`, `Answers`, `Offsets`,
   `Health`, `Engine`, with `LocalDecision`, `DecisionsStand` and `FtsFaithful`.
3. Done: the theorems about the remaining invariants of `Pass`, `Jobs`, `Graph`,
   about `Daemon` (`DaemonProofs`), about the answers and about the rules without
   state: the window of the fan-out, the health rule, the ranges of `Offsets` and
   the modules of `Names` (`EngineProofs`). Every invariant and every action property
   that a passing run checks is a theorem.
4. To model: a question that spans a commit, a root forgotten while its unlink
   waits, and the walk that a sweep compares with rows loaded later.
