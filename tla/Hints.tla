------------------------------- MODULE Hints -------------------------------
(***************************************************************************)
(* The hint a job carries: the set of relative paths a batch of watch      *)
(* events named.  Python's None (no hint, scan the whole tree) is the      *)
(* constant Whole.                                                         *)
(***************************************************************************)
EXTENDS Naturals, FiniteSets

CONSTANTS
    Path,       \* the relative paths a project may hold: finitely many
    MaxPaths,   \* config.WATCH_HINT_MAX_PATHS, 200 in the code
    Whole       \* a job without a hint: the whole-tree scan

ASSUME HintsAssumption ==
    /\ IsFiniteSet(Path)
    /\ MaxPaths \in Nat
    /\ \A paths \in SUBSET Path : paths # Whole

Hint == {Whole} \cup SUBSET Path

\* What a caller passes: a non-empty set of paths, or no hint at all.
Request == {Whole} \cup ((SUBSET Path) \ {{}})

\* What a pass under this hint looks at.
Covered(hint) == IF hint = Whole THEN Path ELSE hint

\* Slips the properties must notice: a limit that is not applied, and the
\* paths wrapped in a set once more.
CappedNever(hint) == hint

CappedWraps(hint) == IF hint = Whole THEN Whole ELSE {hint}

\* Over the limit a hint widens to the whole tree, and is never cut short.
Capped(hint) ==
    IF hint # Whole /\ Cardinality(hint) > MaxPaths THEN Whole ELSE hint

\* A slip: the second submission is dropped.
MergeKeepsFirst(left, right) == left

\* A job without a hint absorbs a hinted one: a scan covers any hint.
Merge(left, right) ==
    IF Whole \in {left, right} THEN Whole ELSE Capped(left \cup right)
============================================================================
