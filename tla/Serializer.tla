---------------------------- MODULE Serializer ----------------------------
(***************************************************************************)
(* What the job queue promises, with neither deque nor hint: one pass at a *)
(* time, and a pass looks at every path asked for since the last pass of   *)
(* that project was handed out.                                            *)
(***************************************************************************)
CONSTANTS Root, Path, Idle   \* Idle is no record of a pass

VARIABLES
    asked,   \* asked[r]: paths asked for that no pass has been handed out for
    inHand   \* the pass under way, or Idle

vars == <<asked, inHand>>

Init ==
    /\ asked = [r \in Root |-> {}]
    /\ inHand = Idle

\* Some thread asks for a pass of r that looks at these paths.
Ask(r, paths) ==
    /\ asked' = [asked EXCEPT ![r] = @ \cup paths]
    /\ UNCHANGED inHand

\* The worker is handed a pass.  It may look at more than was asked for.
HandOut(r, looks) ==
    /\ inHand = Idle
    /\ asked[r] \subseteq looks
    /\ inHand' = [root |-> r, looks |-> looks]
    /\ asked' = [asked EXCEPT ![r] = {}]

Finish ==
    /\ inHand # Idle
    /\ inHand' = Idle
    /\ UNCHANGED asked

\* Everything not yet handed out is thrown away at once, by name.
Discard ==
    /\ asked' = [r \in Root |-> {}]
    /\ UNCHANGED inHand

Next ==
    \/ \E r \in Root, paths \in SUBSET Path : Ask(r, paths) \/ HandOut(r, paths)
    \/ Finish
    \/ Discard

Spec == Init /\ [][Next]_vars
============================================================================
