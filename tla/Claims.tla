------------------------------- MODULE Claims -------------------------------
(***************************************************************************)
(* What the registry promises, with no rows: a set of claims.  <<p, c>>    *)
(* says that c wants p; <<p, p>> is the claim of the person who enrolled p *)
(* itself.  A project is enrolled as long as somebody claims it.           *)
(***************************************************************************)
CONSTANT Project

VARIABLES
    claims,
    condemned   \* the projects named to be forgotten, by the pruner or a person

Init == claims = {} /\ condemned = {}

Claim(p, c) == claims' = claims \cup {<<p, c>>}

\* A root lets one member go.  Nobody else's claim is touched.
GiveUp(p, c) ==
    /\ p # c
    /\ claims' = claims \ {<<p, c>>}

\* Forgotten projects neither are claimed nor claim any longer.
Forget(gone) ==
    /\ gone \subseteq condemned
    /\ claims' = {c \in claims : c[1] \notin gone /\ c[2] \notin gone}

\* Who is condemned is the pruner's and the person's business, but they say so
\* before it happens.
Next ==
    /\ condemned' \in SUBSET Project
    /\ \/ UNCHANGED claims
       \/ \E p, c \in Project : Claim(p, c) \/ GiveUp(p, c)
       \/ \E gone \in SUBSET Project : Forget(gone)

Spec == Init /\ [][Next]_<<claims, condemned>>
=============================================================================
