-------------------------------- MODULE Fleet --------------------------------
(***************************************************************************)
(* Which projects are enrolled: graphrag.registry, its rows under one      *)
(* flock; federation, which claims members through the links under a root; *)
(* prune, which lets a deleted project go after a grace period; and the    *)
(* commands forget and prune, which run in processes of their own.         *)
(***************************************************************************)
EXTENDS Naturals, FiniteSets, Functions

CONSTANTS
    Project,    \* resolved directories
    Link,       \* <<root, member>>: the links that may exist
    Volatile,   \* the projects on a volume that may be away
    Under,      \* those right under its mount point, which stays when it leaves
    Nobody,
    MaxMoves    \* bound: how often directories, links and volume change

ASSUME FleetAssumption ==
    /\ IsFiniteSet(Project)
    /\ Link \subseteq Project \X Project
    /\ \A l \in Link : l[1] # l[2]
    /\ Volatile \subseteq Project /\ Under \subseteq Volatile
    /\ Nobody \notin Project
    /\ MaxMoves \in Nat

VARIABLES
    rows,      \* projects.json: project -> [direct, roots]
    there,     \* the projects whose directory exists on its volume
    parents,   \* those whose parent directory does
    away,      \* is the volume away?
    links,     \* the links that exist
    broken,    \* the roots whose project file does not parse
    news,      \* events on their way to the watcher: projects and links
    gone,      \* Pruner._gone: "no", "waits" or "due"
    unlinked,  \* Pruner._unlinked, by root
    pr,        \* where the pruner is in run_due
    en,        \* where an enrolment is
    asked,     \* projects the command `forget` is about to forget
    cmd,       \* projects it has dropped and not yet retired
    doomed,    \* graphs that `prune`, holding the registry's lock, is deleting
    stores,    \* the projects with a graph on disk
    noted,     \* history: deletions the pruner was told of, can still see and
               \* has not lost to an exception
    moves      \* counts what the world does, and the exceptions

diskVars == <<there, parents, away, links, broken>>
prunerVars == <<news, gone, unlinked, pr, noted>>
cmdVars == <<asked, cmd, doomed>>
fleetVars == <<rows, diskVars, prunerVars, en, cmdVars, stores, moves>>

Row == [direct : BOOLEAN, roots : SUBSET Project]
Pending == {"no", "waits", "due"}

\* Where run_due is, and what its local variables hold there.
PrRecord ==
    [at : {"idle", "load", "look", "retire", "sweep", "held", "apply"},
     taken : SUBSET Project, dead : SUBSET Project, retire : SUBSET Project, roots : SUBSET Project,
     root : Project \cup {Nobody},
     reach : SUBSET Project, claim : SUBSET Project, drop : SUBSET Project]

\* The same of federation.register.
EnRecord ==
    [at : {"idle", "walk", "claim"}, root : Project \cup {Nobody}, left : SUBSET Project]

PrIdle == [at |-> "idle", taken |-> {}, dead |-> {}, retire |-> {}, roots |-> {},
           root |-> Nobody, reach |-> {}, claim |-> {}, drop |-> {}]
EnIdle == [at |-> "idle", root |-> Nobody, left |-> {}]

TypeOK ==
    /\ DOMAIN rows \subseteq Project /\ rows \in [DOMAIN rows -> Row]
    /\ there \subseteq Project /\ parents \subseteq Project /\ away \in BOOLEAN
    /\ links \subseteq Link /\ broken \subseteq Project
    /\ news \subseteq Project \cup Link
    /\ gone \in [Project -> Pending] /\ unlinked \in [Project -> Pending]
    /\ pr \in PrRecord /\ en \in EnRecord
    /\ asked \subseteq Project /\ cmd \subseteq Project /\ doomed \subseteq Project
    /\ stores \subseteq Project
    /\ noted \subseteq Project /\ moves \in 0..MaxMoves

NonePending == [p \in Project |-> "no"]

Init ==
    /\ rows = [p \in {} |-> [direct |-> FALSE, roots |-> {}]]
    /\ there = Project /\ parents = Project /\ away = FALSE /\ links = Link /\ broken = {}
    /\ news = {} /\ gone = NonePending /\ unlinked = NonePending
    /\ pr = PrIdle /\ en = EnIdle /\ asked = {} /\ cmd = {} /\ doomed = {}
    /\ stores = {}
    /\ noted = {} /\ moves = 0

----------------------------------------------------------------------------
(* The rows: each of these runs under the registry's lock *)

\* Whoever reads or writes the rows waits for the lock.  Only `prune` holds it
\* for longer than one step.
LockIsFree == doomed = {}

Holds(row) == row.direct \/ row.roots # {}

\* A slip: the root is added as a list of its own.
ClaimedWraps(rs, p, direct, by) ==
    LET was == IF p \in DOMAIN rs THEN rs[p] ELSE [direct |-> FALSE, roots |-> {}]
        now == [direct |-> was.direct \/ direct, roots |-> was.roots \cup {by \ {p}}]
    IN  [q \in DOMAIN rs \cup {p} |-> IF q = p THEN now ELSE rs[q]]

\* registry.claim: the row is made where there is none, and never loses a flag.
Claimed(rs, p, direct, by) ==
    LET was == IF p \in DOMAIN rs THEN rs[p] ELSE [direct |-> FALSE, roots |-> {}]
        now == [direct |-> was.direct \/ direct, roots |-> was.roots \cup (by \ {p})]
    IN  [q \in DOMAIN rs \cup {p} |-> IF q = p THEN now ELSE rs[q]]

\* A slip: the last root's claim takes the row along, enrolled directly or not.
ReleasedWhole(rs, p, root) ==
    LET left == [q \in DOMAIN rs |-> IF q = p THEN [rs[q] EXCEPT !.roots = @ \ {root}] ELSE rs[q]]
    IN  Restrict(left, {q \in DOMAIN left : q # p \/ left[q].roots # {}})

\* registry.release: one root's claim goes, and the row with the last claim.
Released(rs, p, root) ==
    LET left == [q \in DOMAIN rs |-> IF q = p THEN [rs[q] EXCEPT !.roots = @ \ {root}] ELSE rs[q]]
    IN  Restrict(left, {q \in DOMAIN left : q # p \/ Holds(left[q])})

\* A slip: the rows that lost their last claim are left standing.
ForgottenAlone(rs, keys) ==
    [q \in DOMAIN rs \ keys |-> [rs[q] EXCEPT !.roots = @ \ keys]]

\* registry.forget: the named rows, their claims, and what nobody claims then.
Forgotten(rs, keys) ==
    LET left == [q \in DOMAIN rs \ keys |-> [rs[q] EXCEPT !.roots = @ \ keys]]
    IN  Restrict(left, {q \in DOMAIN left : Holds(left[q])})

HeldBy(root) == {p \in DOMAIN rows : root \in rows[p].roots}

(* The disk as the program sees it *)

Unmounted(p) == away /\ p \in Volatile

Present(p) == p \in there /\ ~Unmounted(p)

\* prune.looks_deleted: the path is not there and its parent is.  A volume that
\* leaves takes the parent along, but not that of a project right under it.
LooksDeleted(p) == ~Present(p) /\ p \in parents /\ (Unmounted(p) => p \in Under)

\* federation.members_of: no member where the file does not parse.
MembersOf(root) ==
    IF Present(root) /\ root \notin broken
    THEN {p \in Project : <<root, p>> \in links /\ Present(p)}
    ELSE {}

----------------------------------------------------------------------------
(* Enrolment: federation.register, and the passes *)

\* A slip: the row is written while another process holds the lock.
RegisterUnlocked(root) ==
    /\ en.at = "idle" /\ Present(root)
    /\ rows' = Claimed(rows, root, TRUE, {})
    /\ en' = [en EXCEPT !.at = "walk", !.root = root]
    /\ UNCHANGED <<diskVars, prunerVars, cmdVars, stores, moves>>

RegisterRoot(root) ==
    /\ en.at = "idle" /\ Present(root) /\ LockIsFree
    /\ rows' = Claimed(rows, root, TRUE, {})
    /\ en' = [en EXCEPT !.at = "walk", !.root = root]
    /\ UNCHANGED <<diskVars, prunerVars, cmdVars, stores, moves>>

RegisterWalk ==
    /\ en.at = "walk"
    /\ en' = [en EXCEPT !.at = "claim", !.left = MembersOf(en.root)]
    /\ UNCHANGED <<rows, diskVars, prunerVars, cmdVars, stores, moves>>

RegisterMember(p) ==
    /\ en.at = "claim" /\ p \in en.left /\ LockIsFree
    /\ rows' = Claimed(rows, p, FALSE, {en.root})
    /\ en' = [en EXCEPT !.left = @ \ {p}]
    /\ UNCHANGED <<diskVars, prunerVars, cmdVars, stores, moves>>

Registered ==
    /\ en.at = "claim" /\ en.left = {}
    /\ en' = EnIdle
    /\ UNCHANGED <<rows, diskVars, prunerVars, cmdVars, stores, moves>>

\* A pass makes the graph, row or no row: one queued before its project was
\* forgotten still runs.  (Jobs has the queue.)  Without the directory it returns.
Pass(p) ==
    /\ Present(p) /\ p \notin stores
    /\ stores' = stores \cup {p}
    /\ UNCHANGED <<rows, diskVars, prunerVars, en, cmdVars, moves>>

----------------------------------------------------------------------------
(* The watcher tells the pruner: one thread does both, one after the other *)

\* _note_deletions, of a project: only where the parent is still there.  A
\* second deletion starts the grace period again.
NoteGone(p) ==
    /\ pr.at = "idle" /\ p \in news
    /\ news' = news \ {p}
    /\ IF LooksDeleted(p)
       THEN gone' = [gone EXCEPT ![p] = "waits"] /\ noted' = noted \cup {p}
       ELSE UNCHANGED <<gone, noted>>
    /\ UNCHANGED <<rows, diskVars, unlinked, pr, en, cmdVars, stores, moves>>

\* _note_deletions, of a member link: its root is going to be swept.
NoteUnlinked(l) ==
    /\ pr.at = "idle" /\ l \in news
    /\ news' = news \ {l}
    /\ unlinked' = IF l \in links THEN unlinked ELSE [unlinked EXCEPT ![l[1]] = "waits"]
    /\ UNCHANGED <<rows, diskVars, gone, pr, noted, en, cmdVars, stores, moves>>

\* The child died, or the watches were not in place.
LoseNews(n) ==
    /\ n \in news
    /\ news' = news \ {n}
    /\ UNCHANGED <<rows, diskVars, gone, unlinked, pr, noted, en, cmdVars, stores, moves>>

Elapsed(pending) == [p \in Project |-> IF pending[p] = "waits" THEN "due" ELSE pending[p]]

\* GRACE_SECONDS go by.
GraceEnds ==
    /\ gone' = Elapsed(gone) /\ unlinked' = Elapsed(unlinked)
    /\ UNCHANGED <<rows, diskVars, news, pr, noted, en, cmdVars, stores, moves>>

----------------------------------------------------------------------------
(* Pruner.run_due *)

Due(pending) == {p \in Project : pending[p] = "due"}

Undue(pending) == [p \in Project |-> IF pending[p] = "due" THEN "no" ELSE pending[p]]

\* A slip: what still waits is thrown out with what is due.
TakeClearing ==
    /\ pr.at = "idle"
    /\ Due(gone) \cup Due(unlinked) # {}
    /\ pr' = [PrIdle EXCEPT !.at = "load", !.taken = Due(gone), !.roots = Due(unlinked)]
    /\ gone' = NonePending /\ unlinked' = NonePending
    /\ UNCHANGED <<rows, diskVars, news, noted, en, cmdVars, stores, moves>>

\* _take_due, under the pruner's own lock.
TakeDue ==
    /\ pr.at = "idle"
    /\ Due(gone) \cup Due(unlinked) # {}
    /\ pr' = [PrIdle EXCEPT !.at = "load", !.taken = Due(gone), !.roots = Due(unlinked)]
    /\ gone' = Undue(gone) /\ unlinked' = Undue(unlinked)
    /\ UNCHANGED <<rows, diskVars, news, noted, en, cmdVars, stores, moves>>

\* The rows are loaded.  What has none any more is let go.
LoadRows ==
    /\ pr.at = "load" /\ LockIsFree
    /\ pr' = [pr EXCEPT !.at = "look", !.taken = @ \cap DOMAIN rows]
    /\ noted' = noted \ (pr.taken \ DOMAIN rows)
    /\ UNCHANGED <<rows, diskVars, news, gone, unlinked, en, cmdVars, stores, moves>>

\* Each path is looked at again.  One that is back is let go, and so is one whose
\* parent has gone too.
LookAgain(p) ==
    /\ pr.at = "look" /\ p \in pr.taken
    /\ pr' = [pr EXCEPT !.taken = @ \ {p},
                        !.dead = IF LooksDeleted(p) THEN @ \cup {p} ELSE @]
    /\ UNCHANGED <<rows, diskVars, news, gone, unlinked, noted, en, cmdVars, stores, moves>>

NoneDead ==
    /\ pr.at = "look" /\ pr.taken = {} /\ pr.dead = {}
    /\ pr' = [pr EXCEPT !.at = "sweep"]
    /\ UNCHANGED <<rows, diskVars, news, gone, unlinked, noted, en, cmdVars, stores, moves>>

\* The dead are forgotten, on what was seen of them: one that has come back since
\* the look goes all the same.
ForgetDead ==
    /\ pr.at = "look" /\ pr.taken = {} /\ pr.dead # {} /\ LockIsFree
    /\ rows' = Forgotten(rows, pr.dead)
    /\ pr' = [pr EXCEPT !.at = "retire", !.dead = {},
                        !.retire = DOMAIN rows \ DOMAIN Forgotten(rows, pr.dead)]
    /\ noted' = noted \ pr.dead
    /\ UNCHANGED <<diskVars, news, gone, unlinked, en, cmdVars, stores, moves>>

\* _retire_stores moves one graph to the trash, unless the time of its file says
\* that it was written within the idle floor, or the rename fails.
Retire(p) ==
    /\ pr.at = "retire" /\ p \in pr.retire
    /\ stores' \in {stores, stores \ {p}}
    /\ pr' = [pr EXCEPT !.retire = @ \ {p}]
    /\ UNCHANGED <<rows, diskVars, news, gone, unlinked, noted, en, cmdVars, moves>>

Retired ==
    /\ pr.at = "retire" /\ pr.retire = {}
    /\ pr' = [pr EXCEPT !.at = "sweep"]
    /\ UNCHANGED <<rows, diskVars, news, gone, unlinked, noted, en, cmdVars, stores, moves>>

\* federation.sweep walks the root.  A root that is no directory is passed over.
SweepWalk(root) ==
    /\ pr.at = "sweep" /\ root \in pr.roots
    /\ pr' = IF Present(root)
             THEN [pr EXCEPT !.at = "held", !.root = root, !.reach = MembersOf(root)]
             ELSE [pr EXCEPT !.roots = @ \ {root}]
    /\ UNCHANGED <<rows, diskVars, news, gone, unlinked, noted, en, cmdVars, stores, moves>>

\* ... then loads the rows and compares ...
SweepHeld ==
    /\ pr.at = "held" /\ LockIsFree
    /\ pr' = [pr EXCEPT !.at = "apply", !.claim = pr.reach \ HeldBy(pr.root),
                        !.drop = HeldBy(pr.root) \ pr.reach]
    /\ UNCHANGED <<rows, diskVars, news, gone, unlinked, noted, en, cmdVars, stores, moves>>

\* ... and claims what is new, with no pass for it ...
SweepClaim(p) ==
    /\ pr.at = "apply" /\ p \in pr.claim /\ LockIsFree
    /\ rows' = Claimed(rows, p, FALSE, {pr.root})
    /\ pr' = [pr EXCEPT !.claim = @ \ {p}]
    /\ UNCHANGED <<diskVars, news, gone, unlinked, noted, en, cmdVars, stores, moves>>

\* ... and releases what it does not reach.
SweepRelease(p) ==
    /\ pr.at = "apply" /\ pr.claim = {} /\ p \in pr.drop /\ LockIsFree
    /\ rows' = Released(rows, p, pr.root)
    /\ pr' = [pr EXCEPT !.drop = @ \ {p}]
    /\ UNCHANGED <<diskVars, news, gone, unlinked, noted, en, cmdVars, stores, moves>>

Swept ==
    /\ pr.at = "apply" /\ pr.claim = {} /\ pr.drop = {}
    /\ pr' = [pr EXCEPT !.at = "sweep", !.roots = @ \ {pr.root},
                        !.root = Nobody, !.reach = {}]
    /\ UNCHANGED <<rows, diskVars, news, gone, unlinked, noted, en, cmdVars, stores, moves>>

RunDueEnds ==
    /\ pr.at = "sweep" /\ pr.roots = {}
    /\ pr' = PrIdle
    /\ UNCHANGED <<rows, diskVars, news, gone, unlinked, noted, en, cmdVars, stores, moves>>

\* The rows cannot be read or written, or the trash cannot: run_due raises, and
\* what it had taken and not forgotten is nowhere any more.  The watcher's loop
\* catches an OSError and goes on; of anything else the thread dies, which is
\* this step and none of its own after it.
RunDueRaises ==
    /\ pr.at # "idle"
    /\ moves < MaxMoves /\ moves' = moves + 1
    /\ pr' = PrIdle
    /\ noted' = noted \ (pr.taken \cup pr.dead)
    /\ UNCHANGED <<rows, diskVars, news, gone, unlinked, en, cmdVars, stores>>

----------------------------------------------------------------------------
(* The commands, each in a process of its own, one at a time *)

\* cmd_forget is given names and resolves them ...
CmdAsk(keys) ==
    /\ asked \cup cmd \cup doomed = {}
    /\ asked' = keys
    /\ UNCHANGED <<rows, diskVars, prunerVars, en, cmd, doomed, stores, moves>>

\* ... and forgets them on no other evidence.  A name without a row is taken too:
\* the claims it still holds go.
CmdForget ==
    /\ asked # {} /\ LockIsFree
    /\ rows' = Forgotten(rows, asked)
    /\ asked' = {} /\ cmd' = asked \cap DOMAIN rows
    /\ UNCHANGED <<diskVars, prunerVars, en, doomed, stores, moves>>

\* Their graphs are moved aside, written lately or not, unless the rename fails.
\* Those of the members released with them are not.
CmdRetire(p) ==
    /\ p \in cmd
    /\ cmd' = cmd \ {p}
    /\ stores' \in {stores, stores \ {p}}
    /\ UNCHANGED <<rows, diskVars, prunerVars, en, asked, doomed, moves>>

\* prune_unclaimed takes the registry's lock and reads which graphs no row names:
\* never against an empty registry, and more than half of them only when forced.
PruneLook(force) ==
    /\ asked \cup cmd \cup doomed = {} /\ DOMAIN rows # {}
    /\ LET stale == stores \ DOMAIN rows
       IN  /\ force \/ Cardinality(stale) * 2 <= Cardinality(stores)
           /\ doomed' = stale
    /\ UNCHANGED <<rows, diskVars, prunerVars, en, asked, cmd, stores, moves>>

\* ... and deletes them one after the other, with the lock in hand.
PruneDelete(p) ==
    /\ p \in doomed
    /\ doomed' = doomed \ {p} /\ stores' = stores \ {p}
    /\ UNCHANGED <<rows, diskVars, prunerVars, en, asked, cmd, moves>>

\* A command is killed half way, or raises.  The lock goes with the process.
CmdKilled ==
    /\ asked \cup cmd \cup doomed # {}
    /\ asked' = {} /\ cmd' = {} /\ doomed' = {}
    /\ UNCHANGED <<rows, diskVars, prunerVars, en, stores, moves>>

(* The daemon dies; the world moves *)

\* What was noted is forgotten.
\* An enrolment by the command `index` goes on.
Restart ==
    /\ moves < MaxMoves /\ moves' = moves + 1
    /\ news' = {} /\ gone' = NonePending /\ unlinked' = NonePending
    /\ pr' = PrIdle /\ noted' = {}
    /\ en' \in {en, EnIdle}
    /\ UNCHANGED <<rows, diskVars, cmdVars, stores>>

World ==
    /\ moves < MaxMoves /\ moves' = moves + 1
    /\ UNCHANGED <<rows, gone, unlinked, pr, en, cmdVars, stores>>

\* inotify names the directory where it is a watched project's.
Delete(p) ==
    /\ World
    /\ Present(p)
    /\ there' = there \ {p}
    /\ news' = IF p \in DOMAIN rows THEN news \cup {p} ELSE news
    /\ UNCHANGED <<parents, away, links, broken, noted>>

Return(p) ==
    /\ World
    /\ ~Unmounted(p) /\ p \notin there
    /\ there' = there \cup {p} /\ parents' = parents \cup {p}
    /\ noted' = noted \ {p}
    /\ UNCHANGED <<away, links, broken, news>>

\* The parent follows its project, or comes back without it.  With the parent
\* gone nothing tells a deletion from a volume that left.
FlipParent(p) ==
    /\ World
    /\ ~Unmounted(p) /\ p \notin there \cup Under
    /\ parents' = IF p \in parents THEN parents \ {p} ELSE parents \cup {p}
    /\ noted' = noted \ {p}
    /\ UNCHANGED <<there, away, links, broken, news>>

FlipLink(l) ==
    /\ World
    /\ Present(l[1])
    /\ links' = IF l \in links THEN links \ {l} ELSE links \cup {l}
    /\ news' = IF l \in links /\ l[1] \in DOMAIN rows /\ rows[l[1]].direct
               THEN news \cup {l} ELSE news
    /\ UNCHANGED <<there, parents, away, broken, noted>>

FlipBroken(root) ==
    /\ World
    /\ Present(root)
    /\ broken' = IF root \in broken THEN broken \ {root} ELSE broken \cup {root}
    /\ UNCHANGED <<there, parents, away, links, news, noted>>

\* A volume that leaves makes a deletion on it unprovable, but right under the
\* mount point, where it makes everything look deleted.
FlipMount ==
    /\ World
    /\ Volatile # {}
    /\ away' = ~away
    /\ noted' = IF away THEN noted \ there ELSE noted \ (Volatile \ Under)
    /\ UNCHANGED <<there, parents, links, broken, news>>

Next ==
    \/ \E p \in Project : RegisterRoot(p) \/ RegisterMember(p) \/ Pass(p)
    \/ RegisterWalk \/ Registered
    \/ \E p \in Project : NoteGone(p) \/ Retire(p) \/ SweepWalk(p) \/ SweepClaim(p)
                            \/ SweepRelease(p) \/ LookAgain(p)
    \/ \E l \in Link : NoteUnlinked(l)
    \/ \E n \in news : LoseNews(n)
    \/ GraceEnds \/ TakeDue \/ LoadRows \/ NoneDead \/ ForgetDead \/ Retired
    \/ SweepHeld \/ Swept \/ RunDueEnds \/ RunDueRaises
    \/ \E keys \in SUBSET Project : CmdAsk(keys)
    \/ \E p \in Project : CmdRetire(p) \/ PruneDelete(p)
    \/ \E force \in BOOLEAN : PruneLook(force)
    \/ CmdForget \/ CmdKilled \/ Restart \/ FlipMount
    \/ \E p \in Project : Delete(p) \/ Return(p) \/ FlipParent(p)
    \/ \E l \in Link : FlipLink(l) \/ FlipBroken(l[1])

Spec == Init /\ [][Next]_fleetVars

----------------------------------------------------------------------------
(* Invariants *)

\* Somebody wants every project that is enrolled: a row nobody claims would be
\* watched and indexed for ever.
EveryRowIsClaimed == \A p \in DOMAIN rows : Holds(rows[p])

\* A deletion the pruner was told of, of a directory that stayed away on a
\* volume that stayed and under a parent that stayed, still waits or is in the
\* hands of run_due until the row is gone, whatever other deletions come due
\* before it, unless run_due raised with it in hand or the daemon was restarted:
\* those lose it, and nothing notes it again.
NoDeletionIsDropped ==
    \A p \in noted : gone[p] # "no" \/ p \in pr.taken \cup pr.dead

\* registry.prune_unclaimed: a graph it has found to be nobody's stays nobody's
\* until it is deleted, however many enrolments, sweeps and other commands wait.
PruneSparesTheEnrolled == doomed \cap DOMAIN rows = {}

(* Action properties *)

ClaimsNow ==
    {c \in Project \X Project :
        /\ c[1] \in DOMAIN rows
        /\ IF c[1] = c[2] THEN rows[c[1]].direct ELSE c[2] \in rows[c[1]].roots}

Promise == INSTANCE Claims WITH claims <- ClaimsNow, condemned <- asked \cup pr.dead

\* The rows keep Claims's promise: a claim is let go by the one whose it is,
\* and taken from anybody else only with a project that was condemned before, however
\* enrolments, sweeps, the pruner and the commands interleave.
KeepsClaims == Promise!Spec

(* What the code's own words say and the code does not do *)

\* registry.py: "No scan prunes a row because its path is missing from disk.  An
\* unmounted volume [...] look identical to a deleted project when you only see
\* the state".  A sweep is such a scan.
AwayKeepsItsRow ==
    [][\A p \in DOMAIN rows \ DOMAIN rows' :
          pr.at = "apply" /\ pr' # pr => ~(Unmounted(p) /\ <<pr.root, p>> \in links)
      ]_fleetVars
=============================================================================
