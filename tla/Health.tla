-------------------------------- MODULE Health -------------------------------
(***************************************************************************)
(* graphrag.health: one check of the daemon, against what the check before *)
(* it wrote down.  A sample is the body of a /healthz reply; a reply that  *)
(* does not come is NoReply and leaves the state of the last one in place. *)
(***************************************************************************)
EXTENDS Integers, Sequences, SequencesExt

CONSTANTS
    Stuck,     \* HEALTH_QUEUE_STUCK: the depth at which a queue may be stuck
    NoReply    \* no body: refused, timed out or not JSON

\* server.healthz, of the rows of the registry, the queue and the thread.  It says
\* besides whether the watcher runs, and no check reads that.
Reply(rows, depth, alive) ==
    [failing |-> {p \in DOMAIN rows : rows[p].enabled /\ rows[p].last_error},
     depth |-> depth, alive |-> alive]

Worker == "indexer:the worker thread is not running"
Stalled == "indexer:the queue is not draining"

\* The state before any check, and the state of a file that cannot be read.
NoHistory == [failing |-> {}, depth |-> -1]

\* The queue carries two samples of its own: as deep as at the check before.
QueueStalled(was, body) ==
    /\ body.depth >= Stuck
    /\ was.depth # NoHistory.depth
    /\ body.depth >= was.depth

\* _silent: what no project row carries.
Silent(was, body) ==
    (IF body.alive THEN {} ELSE {Worker}) \cup (IF QueueStalled(was, body) THEN {Stalled} ELSE {})

Failing(was, body) == body.failing \cup Silent(was, body)

\* What a check pages: failing at the check before as well, or proven by itself.
Pages(was, body) ==
    Failing(was, body) \cap (was.failing \cup (Silent(was, body) \cap {Stalled}))

\* A slip: only the projects are written down.
NotedProjects(was, body) ==
    IF body = NoReply THEN was ELSE [failing |-> body.failing, depth |-> body.depth]

\* The file a check leaves behind.
Noted(was, body) ==
    IF body = NoReply THEN was ELSE [failing |-> Failing(was, body), depth |-> body.depth]

\* The state after some checks.
After(bodies) ==
    LET was[n \in 0 .. Len(bodies)] == IF n = 0 THEN NoHistory ELSE Noted(was[n - 1], bodies[n])
    IN  was[Len(bodies)]
=============================================================================
